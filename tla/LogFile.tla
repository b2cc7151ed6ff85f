------------------------------ MODULE LogFile ------------------------------
(***************************************************************************)
(* LogFile.cc: lines appended by several threads to a file that is rolled  *)
(* by size and by day and flushed by time, over a stdio buffer and a clock *)
(* that other programs drive.                                              *)
(*                                                                         *)
(* What a file holds is a sequence of bytes; a byte remembers its line and *)
(* the time the line was handed over, which nothing reads but properties.  *)
(***************************************************************************)
EXTENDS Monitor, Sequences

CONSTANTS Program,          \* Program[t][i]: length of the line appended, or FlushCall
          ThreadSafe,       \* whether the constructor makes a mutex
          RollSize,         \* rollSize_
          FlushInterval,    \* flushInterval_
          CheckTimeRoll,    \* kCheckTimeRoll_
          RollPerSeconds,   \* kRollPerSeconds_
          SizeRange,        \* size_t counts modulo this
          RawBytes,         \* what memory may hold where writtenBytes_ is allocated
          RawCounts,        \* the same for count_
          DiskFails,        \* whether write() and fopen() may fail
          ClockSteps,       \* what the clock may move by
          StartTime,        \* time of the construction
          EndTime           \* bound: the clock stays below or at it

FlushCall == 0

ASSUME ProgramAssumption == Program \in [Threads -> Seq(Nat)]

\* Without a mutex the object belongs to one thread.
ASSUME ContractAssumption == /\ ThreadSafe \in BOOLEAN /\ DiskFails \in BOOLEAN
                             /\ ~ThreadSafe => Cardinality(Threads) = 1

ASSUME SizesAssumption == /\ RollSize \in Nat /\ FlushInterval \in Nat
                          /\ CheckTimeRoll \in Nat /\ RollPerSeconds \in Nat \ {0}
                          /\ SizeRange \in Nat \ {0} /\ RawBytes \subseteq 0 .. SizeRange - 1
                          /\ RawCounts \subseteq Int
                          /\ StartTime \in Nat \ {0} /\ EndTime \in Nat
                          /\ ClockSteps \subseteq Int

VARIABLES clock,            \* what time(NULL) returns
          fileName,         \* the second in the name of the open file
          disk,             \* the bytes of the open file that left the process
          buffer,           \* those in its stdio buffer
          writtenBytes_,    \* what class File believes it has written
          raw,              \* history: what its memory held when the file was made
          closed,           \* names of the files closed so far
          archive,          \* their bytes, one file after the other
          count_, startOfPeriod_, lastRoll_, lastFlush_,
          pc, next,         \* where each thread is, and in which call
          rest,             \* rest[t]: bytes of its line t has not written yet
          look,             \* look[t]: `now' at LogFile.cc:129, 0 when not read
          alive,            \* FALSE once an assertion ended the process
          logged            \* history: every byte handed over, in the order of
                            \* the calls, without those the disk refused

fileVars == <<fileName, disk, buffer, writtenBytes_, raw, closed, archive>>
timeVars == <<startOfPeriod_, lastRoll_, lastFlush_>>
vars == <<monitorVars, clock, fileVars, count_, timeVars, pc, next, rest, look, alive, logged>>

Steps == {"idle", "write", "writeMore", "counted", "look", "roll", "flush", "leave"}

Line(t, i) == [k \in 1 .. Program[t][i] |-> [line |-> <<t, i>>, nth |-> k, at |-> clock]]

\* The start of the day of s: `s / kRollPerSeconds_ * kRollPerSeconds_'.
Period(s) == (s \div RollPerSeconds) * RollPerSeconds

Size == Len(disk) + Len(buffer)

Goto(t, step) == pc' = [pc EXCEPT ![t] = step]

\* The constructor: the first rollFile() always opens a file, for lastRoll_
\* is zero.  Neither count_ nor writtenBytes_ is initialised.
Init == /\ MonitorInit
        /\ clock = StartTime
        /\ fileName = StartTime
        /\ disk = <<>> /\ buffer = <<>>
        /\ raw \in RawBytes
        /\ writtenBytes_ = raw
        /\ closed = {} /\ archive = <<>>
        /\ count_ \in RawCounts
        /\ startOfPeriod_ = Period(StartTime)
        /\ lastRoll_ = StartTime
        /\ lastFlush_ = StartTime
        /\ pc = [t \in Threads |-> "idle"]
        /\ next = [t \in Threads |-> 1]
        /\ rest = [t \in Threads |-> <<>>]
        /\ look = [t \in Threads |-> 0]
        /\ alive = TRUE
        /\ logged = <<>>

----------------------------------------------------------------------------
(* append() and flush(): the mutex, if there is one *)

\* Faulty: the mutex is not taken although there is one.
EnterUnlocked(t) ==
    /\ pc[t] = "idle"
    /\ next[t] \in DOMAIN Program[t]
    /\ Goto(t, IF Program[t][next[t]] = FlushCall THEN "flush" ELSE "write")
    /\ rest' = [rest EXCEPT ![t] = Line(t, next[t])]
    /\ logged' = logged \o Line(t, next[t])
    /\ look' = [look EXCEPT ![t] = 0]
    /\ UNCHANGED <<monitorVars, clock, fileVars, count_, timeVars, next, alive>>

Enter(t) == /\ pc[t] = "idle"
            /\ next[t] \in DOMAIN Program[t]
            /\ IF ThreadSafe THEN Lock(t) ELSE UNCHANGED <<owner, holder_>>
            /\ Goto(t, IF Program[t][next[t]] = FlushCall THEN "flush" ELSE "write")
            /\ rest' = [rest EXCEPT ![t] = Line(t, next[t])]
            /\ logged' = logged \o Line(t, next[t])
            /\ look' = [look EXCEPT ![t] = 0]
            /\ UNCHANGED <<waiters, clock, fileVars, count_, timeVars, next, alive>>

Leave(t) == /\ pc[t] = "leave"
            /\ IF ThreadSafe THEN Unlock ELSE UNCHANGED <<owner, holder_>>
            /\ Goto(t, "idle")
            /\ next' = [next EXCEPT ![t] = @ + 1]
            /\ UNCHANGED <<waiters, clock, fileVars, count_, timeVars, rest, look, alive, logged>>

----------------------------------------------------------------------------
(* File::append().  fwrite takes the first x bytes into the buffer, and    *)
(* stdio passes as much of the buffer to the system as it likes.           *)

Takes(t, x) ==
    /\ LET filled == buffer \o SubSeq(rest[t], 1, x)
       IN  \E k \in 0 .. Len(filled) :
               /\ disk' = disk \o SubSeq(filled, 1, k)
               /\ buffer' = SubSeq(filled, k + 1, Len(filled))
    /\ UNCHANGED <<fileName, writtenBytes_, raw, closed, archive>>

\* How many bytes a write() may take.
Accepted(t) == IF DiskFails THEN 0 .. Len(rest[t]) ELSE {Len(rest[t])}

\* Faulty: the rest of a short write is written from the start of the line.
WriteAgain(t) == \E x \in Accepted(t) :
    /\ pc[t] = "write"
    /\ Takes(t, x)
    /\ Goto(t, IF x = Len(rest[t]) THEN "counted" ELSE "writeMore")
    /\ UNCHANGED <<monitorVars, clock, count_, timeVars, next, rest, look, alive, logged>>

\* The first write(), before the loop.
Write(t) == \E x \in Accepted(t) :
    /\ pc[t] = "write"
    /\ Takes(t, x)
    /\ rest' = [rest EXCEPT ![t] = SubSeq(@, x + 1, Len(@))]
    /\ Goto(t, IF x = Len(rest[t]) THEN "counted" ELSE "writeMore")
    /\ UNCHANGED <<monitorVars, clock, count_, timeVars, next, look, alive, logged>>

\* One turn of the loop; a write() of nothing ends it and the line is torn.
WriteMore(t) == \E x \in Accepted(t) :
    /\ pc[t] = "writeMore"
    /\ Takes(t, x)
    /\ IF x = 0
       THEN /\ rest' = [rest EXCEPT ![t] = <<>>]
            /\ logged' = SubSeq(logged, 1, Len(logged) - Len(rest[t]))
            /\ Goto(t, "counted")
       ELSE /\ rest' = [rest EXCEPT ![t] = SubSeq(@, x + 1, Len(@))]
            /\ Goto(t, IF x = Len(rest[t]) THEN "counted" ELSE "writeMore")
            /\ UNCHANGED logged
    /\ UNCHANGED <<monitorVars, clock, count_, timeVars, next, look, alive>>

----------------------------------------------------------------------------
(* append_unlocked() after file_->append() *)

\* Faulty: the size is tested before the line is added to it.
CountLate(t) ==
    /\ pc[t] = "counted"
    /\ writtenBytes_' = (writtenBytes_ + Program[t][next[t]]) % SizeRange
    /\ IF writtenBytes_ > RollSize
       THEN Goto(t, "roll") /\ UNCHANGED count_
       ELSE IF count_ > CheckTimeRoll
            THEN Goto(t, "look") /\ UNCHANGED count_
            ELSE Goto(t, "leave") /\ count_' = count_ + 1
    /\ UNCHANGED <<monitorVars, clock, fileName, disk, buffer, raw, closed, archive, timeVars,
                   next, rest, look, alive, logged>>

\* The line is counted whether or not all of it was written.  The size comes
\* first; the clock is looked at by one line in CheckTimeRoll + 2.
Counted(t) ==
    /\ pc[t] = "counted"
    /\ writtenBytes_' = (writtenBytes_ + Program[t][next[t]]) % SizeRange
    /\ IF writtenBytes_' > RollSize
       THEN Goto(t, "roll") /\ UNCHANGED count_
       ELSE IF count_ > CheckTimeRoll
            THEN Goto(t, "look") /\ UNCHANGED count_
            ELSE Goto(t, "leave") /\ count_' = count_ + 1
    /\ UNCHANGED <<monitorVars, clock, fileName, disk, buffer, raw, closed, archive, timeVars,
                   next, rest, look, alive, logged>>

\* Faulty: a line that finds the interval over notes the time and does not
\* flush.
LookNoFlush(t) ==
    /\ pc[t] = "look"
    /\ count_' = 0
    /\ look' = [look EXCEPT ![t] = clock]
    /\ Goto(t, IF Period(clock) # startOfPeriod_ THEN "roll" ELSE "leave")
    /\ lastFlush_' = IF clock - lastFlush_ > FlushInterval THEN clock ELSE lastFlush_
    /\ UNCHANGED <<monitorVars, clock, fileVars, startOfPeriod_, lastRoll_, next, rest, alive,
                   logged>>

Look(t) ==
    /\ pc[t] = "look"
    /\ count_' = 0
    /\ look' = [look EXCEPT ![t] = clock]
    /\ IF Period(clock) # startOfPeriod_
       THEN Goto(t, "roll") /\ UNCHANGED lastFlush_
       ELSE IF clock - lastFlush_ > FlushInterval
            THEN Goto(t, "flush") /\ lastFlush_' = clock
            ELSE Goto(t, "leave") /\ UNCHANGED lastFlush_
    /\ UNCHANGED <<monitorVars, clock, fileVars, startOfPeriod_, lastRoll_, next, rest, alive,
                   logged>>

\* How much of the buffer leaves the process when it should be empty.
Drained == IF DiskFails THEN 0 .. Len(buffer) ELSE {Len(buffer)}

\* fflush(); what a failing disk refuses stays in the buffer.
Flush(t) ==
    /\ pc[t] = "flush"
    /\ \E k \in Drained :
           /\ disk' = disk \o SubSeq(buffer, 1, k)
           /\ buffer' = SubSeq(buffer, k + 1, Len(buffer))
    /\ Goto(t, "leave")
    /\ UNCHANGED <<monitorVars, clock, fileName, writtenBytes_, raw, closed, archive, count_,
                   timeVars, next, rest, look, alive, logged>>

----------------------------------------------------------------------------
(* rollFile() reads the clock for itself.  Within the second of the last   *)
(* roll, or before it, it does nothing.  file_.reset() opens the new file  *)
(* and then closes the old one, which writes the buffer out, or as much of *)
(* it as the disk takes.                                                   *)

NewFile == /\ fileName' = clock
           /\ closed' = closed \cup {fileName}
           /\ \E k \in Drained :
                  /\ archive' = archive \o (disk \o SubSeq(buffer, 1, k))
                  /\ logged' = SubSeq(logged, 1, Len(logged) - (Len(buffer) - k))
           /\ disk' = <<>> /\ buffer' = <<>>
           /\ raw' \in RawBytes
           /\ writtenBytes_' = raw'
           /\ lastRoll_' = clock
           /\ lastFlush_' = clock
           /\ startOfPeriod_' = Period(clock)

\* Faulty: a second roll within a second opens the same file again.
RollFileAgain(t) ==
    /\ pc[t] = "roll"
    /\ IF clock >= lastRoll_ THEN NewFile ELSE UNCHANGED <<fileVars, timeVars, logged>>
    /\ Goto(t, "leave")
    /\ UNCHANGED <<monitorVars, clock, count_, next, rest, look, alive>>

RollFile(t) ==
    /\ pc[t] = "roll"
    /\ IF clock > lastRoll_ THEN NewFile ELSE UNCHANGED <<fileVars, timeVars, logged>>
    /\ Goto(t, "leave")
    /\ UNCHANGED <<monitorVars, clock, count_, next, rest, look, alive>>

\* `assert(fp_)': fopen failed and the process aborts, the buffer unwritten.
OpenFails(t) == /\ pc[t] = "roll"
                /\ DiskFails
                /\ clock > lastRoll_
                /\ alive' = FALSE
                /\ UNCHANGED <<monitorVars, clock, fileVars, count_, timeVars, pc, next, rest,
                               look, logged>>

----------------------------------------------------------------------------
(* The specification *)

Step(t) == /\ alive
           /\ \/ Enter(t) \/ Leave(t) \/ Write(t) \/ WriteMore(t) \/ Counted(t)
              \/ Look(t) \/ Flush(t) \/ RollFile(t) \/ OpenFails(t)

\* Time passes, or an administrator sets the clock.
Tick == /\ \E d \in ClockSteps : /\ clock' = clock + d
                                 /\ clock + d \in 1 .. EndTime
        /\ UNCHANGED <<monitorVars, fileVars, count_, timeVars, pc, next, rest, look, alive,
                       logged>>

\* The run is over, or the process is: not a deadlock.
Finished == /\ ~alive \/ \A t \in Threads : pc[t] = "idle" /\ next[t] \notin DOMAIN Program[t]
            /\ UNCHANGED vars

Next == (\E t \in Threads : Step(t)) \/ Tick \/ Finished

Spec == Init /\ [][Next]_vars

----------------------------------------------------------------------------
(* Properties *)

Bytes == [line : Threads \X Nat, nth : Nat, at : Int]

TypeOK == /\ MonitorTypeOK
          /\ clock \in Nat \ {0} /\ fileName \in Nat \ {0}
          /\ disk \in Seq(Bytes) /\ buffer \in Seq(Bytes) /\ archive \in Seq(Bytes)
          /\ writtenBytes_ \in 0 .. SizeRange - 1 /\ raw \in 0 .. SizeRange - 1
          /\ closed \subseteq Nat
          /\ count_ \in Int
          /\ startOfPeriod_ \in Nat /\ lastRoll_ \in Nat /\ lastFlush_ \in Nat
          /\ pc \in [Threads -> Steps]
          /\ next \in [Threads -> Nat \ {0}]
          /\ \A t \in Threads : pc[t] # "idle" => next[t] \in DOMAIN Program[t]
          /\ rest \in [Threads -> Seq(Bytes)]
          /\ look \in [Threads -> Nat]
          /\ alive \in BOOLEAN
          /\ logged \in Seq(Bytes)

Writers == {t \in Threads : pc[t] \in {"write", "writeMore"}}

\* Every byte handed over is in a closed file, in the open one, in its
\* buffer, or still to be written by the one thread that writes, in this
\* order: no line is lost, repeated, overtaken or torn by another one, and
\* what a crash leaves on the disk is a beginning of the log.
Intact == /\ Writers = {} => archive \o (disk \o buffer) = logged
          /\ \A t \in Writers : archive \o (disk \o (buffer \o rest[t])) = logged

\* No file is opened under the name of an earlier one, whatever the clock
\* does, so no two files are mixed.
FreshNames == \A name \in closed : name < fileName

\* append() is over for a line that was written: the step that leaves.
Appended(t) == pc[t] \in {"counted", "look", "roll"} /\ pc'[t] = "leave"

\* "A file that reaches rollSize is changed for a new one" (LogFile.h:49): what
\* of that is so.  writtenBytes_ is never initialised and counts on, modulo
\* size_t, from what its memory held, and nothing is rolled within the second of
\* the last roll.  Whenever a call of append() is over, what that memory held and
\* the size of the open file together are within rollSize_, or the file carries
\* the present second (or a later one) in its name.  This is the limit of the
\* comment only where the memory held zero, and from the next second on.
SizeRolls == [][\A t \in Threads :
    Appended(t) => (raw' + Size') % SizeRange <= RollSize \/ fileName' >= clock]_vars

\* A line that looked at the clock leaves no byte in the buffer that is older
\* than flushInterval_, and a file that belongs to its day or a later one.
LookHelps == \A t \in Threads :
    pc[t] = "leave" /\ look[t] # 0 =>
        /\ \A i \in 1 .. Len(buffer) : buffer[i].at >= look[t] - FlushInterval
        /\ Period(fileName) >= Period(look[t])

=============================================================================
