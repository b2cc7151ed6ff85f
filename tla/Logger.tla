------------------------------- MODULE Logger -------------------------------
(***************************************************************************)
(* Logging.h and Logging.cc: threads write lines with the LOG_ macros; the *)
(* level and the two hooks are plain globals, the formatted second is kept *)
(* for each thread, and a FATAL line ends the process.                     *)
(*                                                                         *)
(* A hook is named by the stdio stream it writes to or flushes.            *)
(***************************************************************************)
EXTENDS LogStream

CONSTANTS Threads,
          Program,          \* Program[t]: the statements of a thread
          Sinks,            \* the streams hooks write to
          Stdout,           \* the one of defaultOutput and defaultFlush
          TidText,          \* TidText[t]: CurrentThread::tidString()
          DateText,         \* DateText[s]: year to second, by gmtime_r and snprintf
          MicroText,        \* MicroText[u]: ".%06dZ "
          ErrnoText,        \* ErrnoText[e]: strerror_r, cut to t_errnobuf
          MicroPerSecond,   \* kMicroSecondPerSecond
          FailingSinks,     \* those to which fwrite(), fflush() and exit() may fail
          ShortCounts,      \* bound: what fwrite() may take of a longer line then
          StartTime, Times  \* the clock, in microseconds: its start, its values

\* The formatted second starts as that of the epoch, without its text.
ASSUME ClockAssumption == /\ MicroPerSecond \in Nat \ {0}
                          /\ \A u \in Times : u \in Nat /\ u >= MicroPerSecond
                          /\ StartTime \in Times

ASSUME HooksAssumption == /\ Stdout \in Sinks /\ FailingSinks \subseteq Sinks
                          /\ ShortCounts \subseteq Nat

Seconds(us) == us \div MicroPerSecond
Micros(us) == us % MicroPerSecond

ASSUME TextsAssumption == /\ TidText \in [Threads -> Seq(Nat)]
                          /\ DateText \in [{Seconds(u) : u \in Times} -> Seq(Nat)]
                          /\ MicroText \in [{Micros(u) : u \in Times} -> Seq(Nat)]
                          /\ ErrnoText \in [DOMAIN ErrnoText -> Seq(Nat)]
                          /\ DOMAIN ErrnoText \subseteq Ints

VARIABLES clock,            \* what gettimeofday() returns
          g_logLevel, g_output, g_flush,
          t_lastSecond, t_time,  \* per thread
          stage, next,      \* where each thread is, and in which statement
          impl,             \* impl[t]: the Logger on t's stack: time_, its stream_,
                            \* and, for properties, how many items it was given
                            \* and which of them were dropped
          target,           \* target[t]: the hook t is calling
          disk, buffer,     \* per sink: the lines that left the process, or have not
          stuck,            \* history: the sinks whose last fflush(), or exit()'s, was
                            \* refused by the system
          ended             \* "no", "exit" or "abort"

cacheVars == <<t_lastSecond, t_time>>
hookVars == <<g_logLevel, g_output, g_flush>>
sinkVars == <<disk, buffer, stuck>>
logVars == <<clock, hookVars, cacheVars, stage, next, impl, target, sinkVars, ended>>

TRACE == 0
DEBUG == 1
INFO  == 2
WARN  == 3
ERROR == 4
FATAL == 5

\* The macros: their level, whether they test it first, whether they put the
\* name of the function, and whether they put errno.  CHECK_NOTNULL logs when
\* its pointer is NULL.
M(level, tests, func, sys) == [level |-> level, tests |-> tests, func |-> func, sys |-> sys]

Macro == [LOG_TRACE     |-> M(TRACE, TRUE, TRUE, FALSE),
          LOG_DEBUG     |-> M(DEBUG, TRUE, TRUE, FALSE),
          LOG_INFO      |-> M(INFO, TRUE, FALSE, FALSE),
          LOG_WARN      |-> M(WARN, FALSE, FALSE, FALSE),
          LOG_ERROR     |-> M(ERROR, FALSE, FALSE, FALSE),
          LOG_FATAL     |-> M(FATAL, FALSE, FALSE, FALSE),
          LOG_SYSERR    |-> M(ERROR, FALSE, FALSE, TRUE),
          LOG_SYSFATAL  |-> M(FATAL, FALSE, FALSE, TRUE),
          CHECK_NOTNULL |-> M(FATAL, FALSE, FALSE, FALSE)]

Setters == {"setLogLevel", "setOutput", "setFlush"}

Statement == [op : DOMAIN Macro, items : Seq(Item), file : Seq(Nat), line : Ints,
              func : Seq(Nat), errno : {0} \cup DOMAIN ErrnoText]
Setting == [op : {"setLogLevel"}, to : TRACE .. FATAL] \cup [op : {"setOutput", "setFlush"}, to : Sinks]

ASSUME ProgramAssumption == Program \in [Threads -> Seq(Statement \cup Setting)]

Here(t) == Program[t][next[t]]
Running(t, step) == ended = "no" /\ stage[t] = step
Busy(t) == next[t] \in DOMAIN Program[t]
Logs(t) == Busy(t) /\ Here(t).op \notin Setters

----------------------------------------------------------------------------
(* What a line is made of, one item for each `<<' or append() *)

Text(chars) == [kind |-> "text", val |-> chars]
Integer(n) == [kind |-> "int", val |-> n]

LevelName(level) == <<level>>

\* SourceFile: what follows the last slash.
BaseName(path) ==
    LET slash == SelectLastInSeq(path, LAMBDA ch : ch = Slash)
    IN  SubSeq(path, slash + 1, Len(path))

ErrnoItems(e) == IF e = 0 THEN <<>>
                 ELSE <<Text(ErrnoText[e]), Text(<<LeftParen>>), Integer(e), Text(<<RightParen>>)>>

\* formatTime(): the date, which is kept, and the microseconds.
TimeItems(date, us) == <<Text(date), Text(MicroText[us])>>

\* Impl's constructor.
ImplItems(t, level, errno, date, us) ==
    TimeItems(date, us) \o <<Text(TidText[t]), Text(LevelName(level))>> \o ErrnoItems(errno)

\* The constructors of Logger: errno, or the function's name and a space.
HeadItems(t, st, date, us) ==
    ImplItems(t, Macro[st.op].level, IF Macro[st.op].sys THEN st.errno ELSE 0, date, us)
    \o IF Macro[st.op].func THEN <<Text(st.func), Text(<<Space>>)>> ELSE <<>>

\* finish().
TailItems(st) == <<Text(<<Space, Minus, Space>>), Text(BaseName(st.file)), Text(<<Colon>>),
                   Integer(st.line), Text(<<Newline>>)>>

----------------------------------------------------------------------------

NoLogger == [time |-> 0, stream |-> EmptyBuffer, items |-> 0, dropped |-> {}]

LogInit == /\ clock = StartTime
           /\ g_logLevel = TRACE
           /\ g_output = Stdout /\ g_flush = Stdout
           /\ t_lastSecond = [t \in Threads |-> 0]
           /\ t_time = [t \in Threads |-> <<>>]
           /\ stage = [t \in Threads |-> "idle"]
           /\ next = [t \in Threads |-> 1]
           /\ impl = [t \in Threads |-> NoLogger]
           /\ target = [t \in Threads |-> Stdout]
           /\ disk = [s \in Sinks |-> <<>>]
           /\ buffer = [s \in Sinks |-> <<>>]
           /\ stuck = {}
           /\ ended = "no"

Goto(t, step) == stage' = [stage EXCEPT ![t] = step]
NextStatement(t) == next' = [next EXCEPT ![t] = @ + 1]

----------------------------------------------------------------------------
(* A statement: the macro, the constructors, the `<<', the destructor *)

\* The line l with an item more, the n-th put into it.
Write(l, item) ==
    LET s == Put(l.stream, item)
    IN  [l EXCEPT !.stream = s, !.items = @ + 1,
                  !.dropped = IF s.text = l.stream.text THEN @ \cup {l.items + 1} ELSE @]

WriteAll(l, items) ==
    LET line[n \in 0 .. Len(items)] == IF n = 0 THEN l ELSE Write(line[n - 1], items[n])
    IN  line[Len(items)]

\* LOG_TRACE, LOG_DEBUG and LOG_INFO test the level, CHECK_NOTNULL its pointer,
\* which may be anything.
Low(st) == Macro[st.op].tests /\ g_logLevel > Macro[st.op].level

Skip(t) == /\ Running(t, "idle") /\ Logs(t)
           /\ Low(Here(t)) \/ Here(t).op = "CHECK_NOTNULL"
           /\ NextStatement(t)
           /\ UNCHANGED <<clock, hookVars, cacheVars, stage, impl, target, sinkVars, ended>>

Begin(t) == /\ Running(t, "idle") /\ Logs(t)
            /\ ~Low(Here(t))
            /\ Goto(t, "construct")
            /\ UNCHANGED <<clock, hookVars, cacheVars, next, impl, target, sinkVars, ended>>

\* Faulty: the text of the last second is good until a later one.
FormatTimeLater(t) ==
    IF Seconds(clock) > t_lastSecond[t]
    THEN /\ t_lastSecond' = [t_lastSecond EXCEPT ![t] = Seconds(clock)]
         /\ t_time' = [t_time EXCEPT ![t] = DateText[Seconds(clock)]]
    ELSE UNCHANGED cacheVars

\* formatTime(): the text of the second is made when the second is another.
FormatTime(t) ==
    IF Seconds(clock) # t_lastSecond[t]
    THEN /\ t_lastSecond' = [t_lastSecond EXCEPT ![t] = Seconds(clock)]
         /\ t_time' = [t_time EXCEPT ![t] = DateText[Seconds(clock)]]
    ELSE UNCHANGED cacheVars

\* The constructors, and what the statement itself puts into stream().
Construct(t) ==
    /\ Running(t, "construct")
    /\ FormatTime(t)
    /\ impl' = [impl EXCEPT ![t] =
           WriteAll([NoLogger EXCEPT !.time = clock],
                    HeadItems(t, Here(t), t_time'[t], Micros(clock)) \o Here(t).items)]
    /\ Goto(t, "destroy")
    /\ UNCHANGED <<clock, hookVars, next, target, sinkVars, ended>>

\* ~Logger: the end of the line, and g_output read for the call.
Destroy(t) == /\ Running(t, "destroy")
              /\ impl' = [impl EXCEPT ![t] = WriteAll(@, TailItems(Here(t)))]
              /\ target' = [target EXCEPT ![t] = g_output]
              /\ Goto(t, "output")
              /\ UNCHANGED <<clock, hookVars, cacheVars, next, sinkVars, ended>>

LineOf(t) == [thread |-> t, nth |-> next[t], time |-> impl[t].time,
              text |-> impl[t].stream.text, dropped |-> impl[t].dropped,
              to |-> target[t], cut |-> FALSE]

\* How much of a line fwrite() may take.
Accepted(line) == {n \in ShortCounts : line.to \in FailingSinks /\ n < Len(line.text)}
                  \cup {Len(line.text)}

Taken(line, n) == [line EXCEPT !.text = SubSeq(@, 1, n), !.cut = n < Len(line.text)]

\* Faulty: a line of which a part was taken is written again, all of it.
PutsWhole(s, line) == \E n \in Accepted(line) :
    buffer' = [buffer EXCEPT ![s] =
                  Append(@, IF n = Len(line.text) THEN line
                            ELSE [line EXCEPT !.text = SubSeq(@, 1, n) \o @, !.cut = TRUE])]

\* Faulty: the same, as a line of its own.
PutsTwice(s, line) == \E n \in Accepted(line) :
    buffer' = [buffer EXCEPT ![s] =
                  IF n = Len(line.text) THEN Append(@, line)
                  ELSE @ \o <<Taken(line, n), line>>]

\* defaultOutput() of a stream: what fwrite() says is thrown away ("FIXME check
\* n"), and with it the part of the line that it did not take.
Puts(s, line) == \E n \in Accepted(line) :
    buffer' = [buffer EXCEPT ![s] = Append(@, Taken(line, n))]

\* defaultFlush() of a stream: nobody hears that fflush() fails.  What it wrote
\* before it failed are steps of Drain.
Flushes(s) == \/ /\ disk' = [disk EXCEPT ![s] = @ \o buffer[s]]
                 /\ buffer' = [buffer EXCEPT ![s] = <<>>]
                 /\ stuck' = stuck \ {s}
              \/ /\ s \in FailingSinks
                 /\ stuck' = stuck \cup {s}
                 /\ UNCHANGED <<disk, buffer>>

\* The output hook, then the end of the statement unless the line is FATAL.
Output(t) ==
    /\ Running(t, "output")
    /\ Puts(target[t], LineOf(t))
    /\ IF Macro[Here(t).op].level = FATAL
       THEN Goto(t, "flush") /\ UNCHANGED <<next, impl>>
       ELSE /\ Goto(t, "idle") /\ NextStatement(t)
            /\ impl' = [impl EXCEPT ![t] = NoLogger]
    /\ UNCHANGED <<clock, hookVars, cacheVars, target, disk, stuck, ended>>

\* Faulty: the flush hook is not called.
FlushNothing(t) == /\ Running(t, "flush")
                   /\ target' = [target EXCEPT ![t] = g_flush]
                   /\ Goto(t, "abort")
                   /\ UNCHANGED <<clock, hookVars, cacheVars, next, impl, sinkVars, ended>>

\* The flush hook, which may be another stream's.
Flush(t) == /\ Running(t, "flush")
            /\ target' = [target EXCEPT ![t] = g_flush]
            /\ Flushes(g_flush)
            /\ Goto(t, "abort")
            /\ UNCHANGED <<clock, hookVars, cacheVars, next, impl, ended>>

Abort(t) == /\ Running(t, "abort")
            /\ ended' = "abort"
            /\ UNCHANGED <<clock, hookVars, cacheVars, stage, next, impl, target, sinkVars>>

Sets(t, op) == Running(t, "idle") /\ Busy(t) /\ Here(t).op = op

SetLogLevel(t) == /\ Sets(t, "setLogLevel")
                  /\ g_logLevel' = Here(t).to
                  /\ NextStatement(t)
                  /\ UNCHANGED <<clock, g_output, g_flush, cacheVars, stage, impl, target,
                                 sinkVars, ended>>

SetOutput(t) == /\ Sets(t, "setOutput")
                /\ g_output' = Here(t).to
                /\ NextStatement(t)
                /\ UNCHANGED <<clock, g_logLevel, g_flush, cacheVars, stage, impl, target,
                               sinkVars, ended>>

SetFlush(t) == /\ Sets(t, "setFlush")
               /\ g_flush' = Here(t).to
               /\ NextStatement(t)
               /\ UNCHANGED <<clock, g_logLevel, g_output, cacheVars, stage, impl, target,
                              sinkVars, ended>>

----------------------------------------------------------------------------
(* The system *)

\* The clock goes on, or is set back.
Tick == /\ ended = "no"
        /\ \E now \in Times : now # clock /\ clock' = now
        /\ UNCHANGED <<hookVars, cacheVars, stage, next, impl, target, sinkVars, ended>>

\* stdio passes its oldest line on when it likes, and as a whole.
Drain == /\ ended = "no"
         /\ \E s \in Sinks : /\ buffer[s] # <<>>
                            /\ disk' = [disk EXCEPT ![s] = Append(@, Head(buffer[s]))]
                            /\ buffer' = [buffer EXCEPT ![s] = Tail(@)]
         /\ UNCHANGED <<clock, hookVars, cacheVars, stage, next, impl, target, stuck, ended>>

\* exit() writes every stream out, or as many as the system takes.
Exit == /\ ended = "no"
        /\ \A t \in Threads : stage[t] = "idle" /\ ~Busy(t)
        /\ ended' = "exit"
        /\ stuck' \in SUBSET FailingSinks
        /\ disk' = [s \in Sinks |-> IF s \in stuck' THEN disk[s] ELSE disk[s] \o buffer[s]]
        /\ buffer' = [s \in Sinks |-> IF s \in stuck' THEN buffer[s] ELSE <<>>]
        /\ UNCHANGED <<clock, hookVars, cacheVars, stage, next, impl, target>>

LogFinished == ended # "no" /\ UNCHANGED logVars

Step(t) == \/ Skip(t) \/ Begin(t) \/ Construct(t) \/ Destroy(t) \/ Output(t) \/ Flush(t)
           \/ Abort(t) \/ SetLogLevel(t) \/ SetOutput(t) \/ SetFlush(t)

LogNext == (\E t \in Threads : Step(t)) \/ Tick \/ Drain \/ Exit \/ LogFinished

LogSpec == LogInit /\ [][LogNext]_logVars

----------------------------------------------------------------------------
(* What a line should say *)

Written(s) == disk[s] \o buffer[s]
Lines == UNION {ToSet(Written(s)) : s \in Sinks}

\* The digits of a, by their weight, and the numeral of n.
Weighed(a, base) ==
    LET d == CHOOSE k \in 1 .. MaxNumericSize :
                 Power(base)[k] > a /\ (k = 1 \/ Power(base)[k - 1] <= a)
    IN  [k \in 1 .. d |-> DigitsHex[(a \div Power(base)[d - k]) % base]]

Numeral(n, base) == IF n < 0 THEN <<Minus>> \o Weighed(-n, base) ELSE Weighed(n, base)

\* What an item should add to its line.
Reads(item) == CASE item.kind = "int"     -> Numeral(item.val, 10)
                 [] item.kind = "pointer" -> <<Zero, SmallX>> \o Numeral(item.val, 16)
                 [] item.kind = "double"  -> DoubleText[item.val]
                 [] item.kind = "bool"    -> <<IF item.val THEN Zero + 1 ELSE Zero>>
                 [] item.kind = "text"    -> item.val

IsBaseName(name, path) ==
    /\ ~Contains(name, Slash)
    /\ name = path \/ IsSuffix(<<Slash>> \o name, path)

\* The items of line l: those of its own thread, time and statement.
ItemsOf(l) ==
    LET st == Program[l.thread][l.nth]
    IN  HeadItems(l.thread, st, DateText[Seconds(l.time)], Micros(l.time))
        \o st.items \o TailItems(st)

\* The text of items without the dropped ones: Kept(..)[n] of the first n.
Kept(items, dropped) ==
    LET kept[n \in 0 .. Len(items)] ==
            IF n = 0 THEN <<>>
            ELSE kept[n - 1] \o IF n \in dropped THEN <<>> ELSE Reads(items[n])
    IN  kept

\* Every item of a line is in it as a whole and in its place, or was dropped
\* because it did not fit; the date and the time are those of the line itself,
\* a number reads back as it was, and the file's name is its last component.
\* Of a line of which fwrite() took only a part, which defaultOutput() does not
\* notice (Logging.cc:96-98), that is said of the beginning that was taken.
LineRight ==
    \A l \in Lines :
        LET items   == ItemsOf(l)
            kept    == Kept(items, l.dropped)
            room(k) == SmallBuffer - Len(kept[k - 1])
            name    == items[Len(items) - 3].val
        whole   == kept[Len(items)]
        IN  /\ l.text = IF l.cut THEN SubSeq(whole, 1, Len(l.text)) ELSE whole
            /\ \A k \in l.dropped : Reads(items[k]) # <<>> =>
                  room(k) <= IF items[k].kind = "text" THEN Len(items[k].val)
                             ELSE MaxNumericSize - 1
            /\ IsBaseName(name, Program[l.thread][l.nth].file)

\* Nothing is ever written past the end of a buffer, and one byte stays free
\* for the NUL of debugString().
InBounds ==
    \A t \in Threads : /\ impl[t].stream.top <= SmallBuffer
                       /\ DebugString(impl[t].stream).top <= SmallBuffer

\* The lines of t that must have been written by now: those of statements that
\* are over and could not be skipped.
Due(t) == {i \in 1 .. next[t] - 1 :
              /\ Program[t][i].op \in DOMAIN Macro
              /\ ~Macro[Program[t][i].op].tests
              /\ Program[t][i].op # "CHECK_NOTNULL"}

LinesOf(t) == {l \in Lines : l.thread = t}

\* Every line that is due was handed to its stream, none twice, to one stream or
\* to two, and those of a thread keep their order in each stream.  After exit()
\* they have left the process, and so has a FATAL line before abort(), if the
\* flush hook was that of the stream it was written to; but not from a stream
\* whose fflush() failed, of which defaultFlush() says nothing (Logging.cc:103).
\* No stream is such, and no line is cut, where the system takes all that the
\* stream is given: there none is lost.
LinesKept ==
    /\ ended # "abort" => \A t \in Threads : Due(t) \subseteq {l.nth : l \in LinesOf(t)}
    /\ \A s, z \in Sinks : \A i \in DOMAIN Written(s), j \in DOMAIN Written(z) :
          Written(s)[i].thread = Written(z)[j].thread =>
              /\ Written(s)[i].nth = Written(z)[j].nth => s = z /\ i = j
              /\ s = z /\ i < j => Written(s)[i].nth < Written(z)[j].nth
    /\ ended = "exit" => \A s \in Sinks \ stuck : buffer[s] = <<>>
    /\ \A t \in Threads : stage[t] = "abort" /\ target[t] \notin stuck =>
          \A l \in ToSet(buffer[target[t]]) : ~(l.thread = t /\ l.nth = next[t])
    /\ stuck \subseteq FailingSinks /\ \A l \in Lines : l.cut => l.to \in FailingSinks

=============================================================================
