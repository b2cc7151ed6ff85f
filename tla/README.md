# Verification of muduo/base

TLA+ models of the thread library under `src/muduo/base` (a re-typed subset of
muduo's `base`): mutex and condition variables, a count-down latch, two
blocking queues, a thread pool, threads, thread-local and singleton objects and
a logger. TLC checks the models on small instances; TLAPS proves every safety
property that holds in a run, and the refinements, for every value of the constants.

## 1. The system

| Component | State | Operations | Interacts with |
|---|---|---|---|
| `MutexLock`, `MutexLockGuard` (`Mutex.h`) | the pthread mutex, `holder_` | `lock`, `unlock`, `isLockedbyThisThread`, `assertLocked` | `CurrentThread::tid` |
| `Condition` (`Condition.h/.cc`) | the pthread condition | `wait`, `notify`, `notifyAll`, `waitForSeconds` (not built) | takes the bare mutex out of `MutexLock` |
| `CountDownLatch` | `count_` | `wait`, `countDown`, `getCount` | mutex, condition |
| `BlockingQueue`, `BoundBlockingQueue` | `queue_` (deque, circular buffer) | `put`, `take`, queries | mutex, one or two conditions |
| `ThreadPool` | `running_`, `threads_`, `queue_` | `start`, `stop`, `run`, destructor; workers: `runInThread`, `take` | mutex, condition, `Thread` |
| `Thread`, `CurrentThread` | `started_`, `pthreadId_`, `tid_`; thread-local tid and name | `start`, `join`, `runInThread`, `cacheTid`, `afterFork` | pthread, fork |
| `AtomicIntegerT` (`Atomic.h`) | one integer | get, add, increment, set | compiler builtins |
| `Singleton`, `ThreadLocal`, `ThreadLocalSingleton` | one object per process or thread | `instance`, `destroy` | pthread_once, pthread keys, atexit |
| `LogFile` | the open file, bytes written, line count, times of last roll and flush | `append`, `flush`, roll | mutex (optional), time |
| `LogStream`, `FixedBuffer` | a bounded character buffer | `<<` | |
| `Logger` | output hooks, level, cached time | constructor, destructor | `LogStream`, the hooks |
| `FileUtil`, `ProcessInfo` | an open descriptor | `readToString`, `readToBuffer` | files |
| `StringPiece`, `Timestamp`, `Exception`, `Types` | values | pure functions | |

What is hard here is concurrency. Every blocking class follows one pattern: a
critical section of the form *lock, test, (sleep, test again)\*, act and notify,
unlock*. A thread that was notified competes for the mutex with everybody else,
`pthread_cond_wait` may return without a reason, `notify` wakes one thread only,
and some state (`holder_`, `running_`, `threads_`) is read without the mutex.
What must be true of each component:

* `MutexLock`: `holder_` names the owner whenever a thread that can ask asks;
  the destructor's assertion; `lock` and `unlock` are atomic to clients.
* queues: every item is taken once and in order, nothing is overwritten, the
  assertions after the wait loops hold, no wakeup is lost, calls return.
* latch: opens exactly after `count` calls of `countDown`, stays open, leaves
  nobody asleep, loses no count.
* pool: tasks are taken once and in order, `stop` returns, is prompt, abandons
  no task half way and joins each worker once; nobody uses a destroyed pool;
  without `stop` every task is executed even if some tasks throw; all this with
  as many workers as came to life.
* `Thread`: a thread is told its own id and name in every process, whatever was
  cached before a `fork`; nobody uses a destroyed `Thread`.
* `LogFile`: what was appended and accepted by the disk is in the files once and
  in order; files are rolled by size and by day and get fresh names.
* `LogStream` and `Logger`: an item of a line is there as a whole or not at all,
  and says what it should (number, time, file name); the buffer is not overrun;
  no line is lost or written twice, and a FATAL line is out before `abort()`, as
  far as the streams take what they are given.
* singletons: one object, one per thread, made once, deleted once and not before
  its last use, even when destructors ask for objects.
* `SmallFile`: a result of zero means that the content is the file's, whatever
  the sequence of calls and of short reads; comparisons of `StringPiece` are
  those of the strings they stand for.

`PROJECT.json` lists the hazards with the line each one is at and the
properties that cover it.

## 2. Modules

| Module | Models |
|---|---|
| `Monitor` | one mutex with its conditions, as operators (`Lock`, `Unlock`, `CondWait`, `CondResume`, `Notified`, `AllNotified`, `SpuriousWakeup`) that the classes' modules extend |
| `AtomicMonitor` | abstract specification: the monitor with atomic `lock` and `unlock` |
| `MutexLock` | `lock` and `unlock` statement by statement, `Condition::wait` behind `holder_`'s back; implements `AtomicMonitor` |
| `FifoChannel` | abstract specification of both queues: two histories |
| `BoundBlockingQueue`, `BlockingQueue` | the queues; implement `FifoChannel` |
| `AbstractLatch` | abstract specification of the latch |
| `CountDownLatch` | the latch; implements `AbstractLatch` |
| `ThreadPool` | the pool, its clients and its workers |
| `Thread` | `Thread` objects, thread ids and names, `fork` |
| `StringPiece` | construction, cutting and comparison of pieces, as operators on a memory |
| `FileUtil` | `SmallFile`: both ways of reading, against other programs, short reads and failures; takes its name from a `StringPiece` |
| `Singleton` | `Singleton<ThreadLocal<Test>>` and `ThreadLocalSingleton<Test>` as the tests use them, keys and their destructors, ends of threads and of the process |
| `LogStream` | the fixed buffer and what each `<<` does to it, as operators |
| `Logger` | the macros, building a line in a `LogStream`, the kept second, the level, the hooks over stdio streams, FATAL |
| `LogFile` | appending, flushing and rolling over a stdio buffer, a disk and a clock |
| `MutexAndLatchProofs`, `BoundBlockingQueueProofs`, `BlockingQueueProofs`, `ThreadPoolProofs`, `ThreadProofs`, `SingletonProofs`, `LogFileProofs`, `FileUtilAndLoggerProofs` | theorems |
| `MC*` | instances for TLC |

### Conventions

* **State.** `owner` is the pthread mutex, `holder_` the integer beside it,
  `waiters[c]` the set of threads asleep in `c.wait()`. A thread that was
  notified has left `waiters[c]` but still has to retake the mutex
  (`...Blocked` in `pc`). `holder_` holds the
  thread itself, where the code has `CurrentThread::tid()`; that ids tell threads
  apart is `Identity` of `Thread`. The fields of a class keep their names. `pc[t]` is the
  statement thread `t` has reached, `next[t]` the call of its program (`at` in `MutexLock`,
  `stage` in `Logger`).
* **Grain.** One step per statement that reads or writes shared state. Inside a
  critical section a test and the act that follows are separate steps, so that
  the mutex, and not the model, keeps other threads out; a statement on state
  that only the mutex holder touches and the `notify` after it are one step
  (`PutPush`, `TakePop`, `RunPush`). Reads without the mutex (`holder_`,
  `running_`, `threads_.empty()`) are steps of their own.
* **Clients.** A thread runs a finite program of calls, `Program[t]`. The
  theorems hold for every program; a run fixes one (`MCThreadPool`: three, the
  initial states choose).
* **Data.** An item put by the `i`-th call of thread `t` is `<<t, i>>`, so all
  items differ and FIFO order says everything about loss and duplication. A task
  has the same identity and a kind: it returns, calls `run`, throws a known
  exception, or throws anything else.
  In `LogFile` a file is a sequence of bytes that remember their line and the
  time they were handed over.
* **Characters** of `LogStream`, `Logger` and `StringPiece` are codes. A text of
  fixed width that nothing looks into (the date, the microseconds, the thread id,
  the name of a level) counts as one character; `SmallBuffer` 20 and
  `MaxNumericSize` 5 stand for the 4000 and 32 bytes of the code, integers from
  -100 to 99 for its integers, so that the smallest one has no positive
  counterpart and its text needs all the room that is asked for. `staticCheck()`,
  which says that 32 is enough, is `SizesAssumption`.
* **Hooks** of `Logger` are named by the stdio stream they write to or flush, and do
  there what `defaultOutput` and `defaultFlush` do on `stdout`. Of a stream in
  `FailingSinks`, `fwrite()` may take only a beginning of a line, of a length in
  `ShortCounts` (the line has `cut` then), and `fflush()`, or `exit()`, may leave
  everything where it is; all streams may be such in the proofs, and the lengths are
  any. A line leaves a stream as a whole: that a line may be torn between the process
  and the disk is modelled in `LogFile`, byte by byte. Whether the pointer of
  `CHECK_NOTNULL` is NULL is left open.
* **pthread keys** of `Singleton`: `slot[t][k]` is the value of key `k` in thread
  `t`. When a thread ends, the library goes over the keys, in any order, at most
  `Iterations` times while there is a value left; it empties a slot before it
  calls the destructor. `asking` is the kind of object whose `~Test()` asks for
  the other kind. A thread ends by returning; `main` calls `pthread_exit()`, or
  returns after it has joined the others.
* **Files** of `FileUtil` are read while other programs write at their end or
  cut it off; `open`, `fstat` and `read` may fail, `read` returns any part of what
  it was asked for. A file of kind "other" has no size to `fstat()` (`/proc`).
  The memory behind a `StringPiece` is one sequence of characters with NULs, and
  `open()` reads to the next of them.
* **The disk and the clock** of `LogFile` are the environment: stdio may pass any
  part of its buffer to the disk at any `fwrite`, a write may be short or be
  refused, opening may fail, the clock moves between any two steps and may be
  set back. What the constructors do not initialise (`count_`,
  `writtenBytes_`) starts with any value of a given set; `raw` remembers which one
  `writtenBytes_` had in the open file.
* **Threads that cannot be made.** `pthread_create` may fail, in `Thread` and for any
  worker of `ThreadPool`, and `start()` ignores it. The worker is "failed" then, and
  the `join()` of it is undefined: it returns, or it ends the process (`JoinNothing`, `Join`).
* **Tasks and processes** of `Thread`: a task is named by its kernel id, which is
  used again after its end; `memory[p]` is the copy that process `p` has of the
  `Thread` objects.
* **Histories.** `putLog`, `takeLog`, `counted`, `passed`, `enqueued`, `taken`,
  `done`, `late`, `joins`, `logged`, `raw` and `stuck` are read by properties only, as are `items` and
  `dropped` in `impl` and `cut` in the lines of `Logger`, `use` and `failed` of `Singleton`, and `start`,
  `change` and `refused` of `FileUtil`.
* **Spurious wakeups** are steps of their own and may happen at any time.
* **Faulty operators.** An operator whose comment begins with *Faulty* is a
  plausible mistake in the definition that follows it. It is not used by the
  model: `PROJECT.json` names, for each property of each run, the faulty
  operator with which TLC finds that property violated.

### Data races

`holder_` and `running_` are plain variables read without the mutex. They are
word-sized, and the model lets such a read return the value before or after a
concurrent write. `threads_.empty()` in `run` compares two pointers that
`start` moves on storage reserved in advance, with the same outcomes.

## 3. Runs

| Run | Instance | Shows |
|---|---|---|
| `MCMutexLock` | 4 threads, 2 conditions, no bound on operations, symmetric threads | `holder_` is right; `lock`/`unlock` are atomic |
| `MCBoundBlockingQueue` | 2 producers, 2 consumers, 1 thread that does everything; capacity 2 | FIFO, assertions, no lost wakeup, refinement, every call returns |
| `MCBlockingQueue` | as above, no capacity | assertion of `take`, no lost wakeup, refinement, every `take` returns |
| `MCCountDownLatch` | 5 threads, count 3, 4 calls of `countDown` | the latch's promise |
| `MCThreadPool` | 2 clients, 2 workers, three programs: `stop` and destructor; destructor alone, tasks before `start`, a task that terminates the process; never stopped, one worker lost to an exception; in each, any of the workers may fail to be created | safety of the pool, termination of `stop`, every accepted task is executed while a worker is left |
| `MCThread` | 4 kernel ids, one of them wide; `main` starts two threads and forks, so does one of the threads; creation may fail; the child's thread throws | `tid()`, `isMainThread()`, `name()`, `Thread::tid()` are right; no destroyed object is used |
| `MCLogFile` | 2 threads with mutex, 6 calls, 5 seconds with a day boundary, reliable disk, 0 or 30 where `writtenBytes_` is allocated | nothing lost or torn; rolling by day and by what is counted; flushing of what is old |
| `MCLogFileFaults` | 1 thread, no mutex, 4 calls, failing disk, clock set back, arbitrary `count_` and `writtenBytes_` | the log survives; no file name is used twice |
| `MCLogger` | 2 threads, a stream that takes everything and one that may take all, 5 characters or nothing of a line and refuse to be flushed; lines that leave no room for their end or for a file name; a clock that is set back over a second; level and hooks changed while the other thread logs; FATAL | a line says what it should, or the beginning of it that was taken; no overrun; lines are handed over once and in order; what stays in the process is in a stream whose flush failed |
| `MCSingleton` | `main` and 2 threads, six uses of both kinds, destructors that ask for the other kind, ends in any order | each uses its own live object; everything is deleted once |
| `MCFileUtil` | 3 names in 10 bytes of memory cut in every way; a regular file of 3 bytes, a directory, a file without a size; `maxSize` negative, 0, 2, 4 against a buffer of 2; 2 calls | the content is right; comparisons agree |
| `MCReadFileDefault` | the same, no `fileSize` pointer | **finding**: nothing is read and the result is zero |

**Bounds.** The only bounds are the number of threads and the length of their
programs, `EndTime`, at which the clock of `LogFile` stops, `MaxKeys` of
`Singleton`, more keys than can be made, and
`MaxBytes` and `MaxCalls` of `FileUtil`; there is no other bound in a guard. Two threads on each side are the
least with which a notified thread can lose the race for the mutex to another
one of its kind; two calls each make both the empty and the full queue recur;
capacity 2 has states that are full, empty and neither. Two workers are the least of which one can die and one
survive. Four ids for up to six tasks of two processes make `MCThread` use ids
again and run out of them. In `MCLogFile` lines of one and two bytes against `rollSize_` 3 reach,
meet and pass the limit; `kCheckTimeRoll_` 0 makes every second line look at
the clock, `flushInterval_` 1 and a day of four seconds make both of its
tests come out both ways within five seconds. `SizeRange` stands for the
range of `size_t`; with the start value 30 the sum wraps.
The times of `MCLogger` are the last half of one second and the first of the
next, so a second is met again, left and come back to. `ShortCounts` 0 and 5 are
less than any of its lines has, so a line may be lost whole or torn; only the file's stream
fails, so that the same run shows lines of the other one to be whole. In
`MCFileUtil` a chunk of 2 against 3 bytes makes a last chunk that is
shorter than the buffer, and `maxSize` 4 a file that may grow up to it and beyond
what `fstat()` said; two calls on one object are the least to go on where the
last one stopped.
The proofs remove the bounds for the properties they cover.

**Deadlock** is checked in every run. In `Thread`
programs are finite and nobody loops, so its absence means that every process
ends, by its own calls or by an exception; in `LogFile` and
`Logger` the clock may always tick, and the check says nothing. As a sleeping thread can always be woken
spuriously, the check says little while somebody sleeps; it is `Termination`
that excludes threads asleep for ever, and its premise `<>[][~Spurious]_vars`
takes the spurious wakeups away. `Finished` is the stuttering step at the end
of a run.

**Fairness.** Weak fairness of each thread's steps: a thread that can run is run
eventually. A thread blocked on the mutex is enabled only while the mutex is
free, and weak fairness does not promise that it gets it; it does in the end
because programs are finite and each call uses the mutex finitely often. In
`ThreadPool` a worker loops, but it goes back to sleep when there is no task.
Spurious wakeups are not fair, and finitely many of them are a premise of the
liveness properties: an endless sequence could keep the mutex busy.

## 4. Proofs

Each proof of an invariant has three parts: the initial states have it, each step keeps
it (one lemma per action), and it implies the property.

`MutexAndLatchProofs`, the mutex. `MutexInv` is `MutexTypeOK`, `LockDiscipline` (the owner is the
thread whose `at` is inside), `HolderExact` and `HolderInside` (a thread whose
id is in `holder_` is inside, possibly asleep). `NeverFalselyHeld` and
`QuietWhenOut` follow from it; they are not inductive alone since nothing in
them says where an id in `holder_` may come from. `LockIsAtomic` maps the
assignment to `holder_` in `lock` and `unlock` to the abstract step and the two
pthread calls to stuttering; the mapped owner is nobody while a thread is between
the two statements.

The latch, in the same module. `CountExact` needs `ReadFresh` (the value read by
`--count_` is current when it is written, by the mutex). `NoSleeperLeft` has to
be sharpened to `SleepersServed`, since a `countDown` from zero does not notify:
sleepers exist only above zero, or at zero between the write and the
`notifyAll`.

`BoundBlockingQueueProofs`. The argument has three layers. `Safe`: the mutex
belongs to the thread inside (`LockDiscipline`), hence what a thread tested is
still true when it acts (`AssertsHold`) or falls asleep (`SleepJustified`), hence
the capacity bound in `TypeOK`. On `Safe` rests `Fifo`: `push_back` never
overwrites. On `Safe` rest the two halves of `NoLostWakeup`: a step that adds
an item while somebody sleeps in `take` wakes a thread that was not counted as
awake; a step that removes one spends the thread that took it; and a thread
falls asleep only on an empty buffer. `QueueIsChannel` follows from `Fifo`.

`BlockingQueueProofs`: the same without a capacity. The two queues and the pool
begin with the lemmas on what they are built from: what `wait` and `notify` do to
the sleepers, what a step at one end does to a FIFO history, and how many threads
are awake after one of them moved.

`ThreadPoolProofs`. To what the queues need come two things. `SleepJustified` says that a worker
about to sleep saw an empty deque *and* `running_`, and that both still hold: tasks are added and
`running_` is cleared only under the mutex. `NoSleeperAfterStop` and `NoLostWakeup` rest on it. A
worker whose creation failed takes part in nothing and is joined like the others. The rest is the
life of the pool: `Calls` and `StartedOnce` turn the contract on programs into what the master may
still call, `Born` says which workers have been made, `Joined` that `stop` has joined the first
`joining - 1` of them once and that these have ended, and `Gone` that nobody is in a call when the
pool is destroyed. From these follow `SafeDestruction` and, with `TakenKept` (a taken task is
executed or in the hands of the worker that took it), `StopFinishesTasks`. `StopIsPrompt` needs
`LateOnce`: a worker that has taken a task after `running_` was cleared can only come back to the
test of its loop, which now fails.

`ThreadProofs` has two layers. For `Identity` and `TidKnown`: the cached id of each
step of a task (`Named`), what the object says of the thread that runs its function
(`Mine`) and of one that has ended (`Kept`), and that none of it is overwritten
by a constructor. For the last point `NotConstructed` says that nobody has still to
construct an object in use. It is inductive only with `Descended`: a function
may construct objects, one of which starts a thread that constructs more, and so on;
`Descended` gives for every object in use the set of objects from which its
function descends, and no task of the process will construct one of these again.
`NoDangling` takes a second invariant, `Lifetimes`: an object with a thread that runs is
alive (`Live`, `OwnLives`), will be joined before it is destroyed
(`JoinedFirst`), and no task of a process made by `fork` has a call that could
destroy the copy of the object in whose function the process was forked (`Inherited`).

`SingletonProofs`. The whole rests on `Owned`: the objects not deleted are exactly
those that a thread's slot holds, each slot holds an object of its own thread and
kind, and `t_value_` agrees with the slot. While destructors run there is one
more object, the one that its key's destructor has been handed; it is the
parameter `pending` of `Holds`, and the lemmas `ValueKeeps`, `InstanceKeeps`,
`EmptiedKeeps` and `DeleteKeeps` follow it through one call of a destructor, which may
ask for an object of the other kind. `OneKey`: `pthread_once` makes one key.
`Swept` says what a pass over the keys has left behind; that two passes are
enough, hence `Reaped`, is where `DtorAssumption` is used.

`LogFileProofs`. `NothingLost` is `[]Intact`, with the inductive invariant
`TypeOK /\ Exclusive /\ Intact`: between the first write of a line and its end
the thread is the only one inside, by the mutex or, without one, because there
is only one thread; else the remaining bytes of two lines would both claim the
end of the log. Each step is then one regrouping of `archive \o (disk \o (buffer
\o rest))`. `NamesAreFresh` needs that `lastRoll_` is the second in the name of
the open file. Both hold for every clock, every failure of the disk and every
initial value of the two uninitialised counters.

The other two have premises, under which the properties are run: the code does not
justify them, and `MCLogFileFaults` shows what is left without them.
`LooksHelp`: the clock only goes forward and the disk does not fail. Its
invariant `Recent` says that no byte of the buffer, or still to be written, is older
than `lastFlush_`, and that `startOfPeriod_` is the day of the open file.
`RollsBySize` has the premise that the disk does not fail, for `append()` counts
what the disk refused. It holds for any content of the memory in which `writtenBytes_` is
allocated and any sizes: its invariant `Sized` says that `writtenBytes_` is `Reading(raw, Size)`,
the size of the file counted on from `raw` modulo `size_t`, whenever no line is
being written, and what it will be while one is. So what is tested
against `rollSize_` is the size only if `raw` is zero and the size below the range of
`size_t`: then `SizeRolls` says that a file is within `rollSize_` or of the present
second. Where `raw` is not zero the comment at `LogFile.h:49` does not hold, see section 5.

`FileUtilAndLoggerProofs`, reading. `FileInv` relates the content to the file by offsets: what
was read is what lies between the offset at the start of the call and the present one
(`Offsets`, `Contents`), of the file that the C string of the name stands for (`Named`).
`ContentRight` speaks of calls that are over; what a loop of short reads needs
besides is how the size seen by `fstat` relates to the file while others
write to it (`SizesSeen`), which failures were met (`Errors`) and why the loop ended
(`Complete`). A file that was cut off during the call is a premise that drops out of
`Contents`: what was read before is then no longer there to compare with.
`OrderRight` is a statement about two pieces of any memory: `Memcmp` picks the least
position at which they differ, and that a least one exists is `LeastNatural`, from
the well-foundedness of `<`.

The same module, logging. What a line says and which lines there are have an
invariant each.

`LineInv` has in `StageRight` the state of a line in the making: it holds its first items,
all but those of `finish()` or all, by what `FixedBuffer::append` does to each
(`Holds`). `CacheRight` says that the kept text is that of the kept second, for which
the clock may be set back and forth; it is what makes `formatTime` right when it
skips the conversion. In `LogTypeOK` the lines on the disk and in the stdio buffers
are of the set `GoodLine`, so that writing and draining lose nothing of it. Under it
lie the conversions: the loop of `convert()` produces the decimal numeral of every
integer, the smallest one included (`DigitsRight`, `NumeralOf`, `ConvertRight`,
`ConvertHexRight`), and as 10 to the `MaxNumericSize - 2` is more than any of them, no
numeral with its sign and its NUL is longer than `MaxNumericSize`; that is where
`InBounds` comes from. These are inductions on numbers. They are made on sets of
numbers (`UpTo`: if a set contains 0 and with each number up to `m` the next one, it
contains all of them), which is a consequence of least elements and needs no
induction theorem with an operator for its parameter. In the same way `Primitive` proves that
a function defined by its first value and the step to the next exists, which
TLA+ does not give for free: `Power`, `Kept` and the line written by `WriteAll` are such.
`BaseNameRight` does the loop of `SourceFile` for the last slash.

`KeepInv`: `AllPast` (no line of a statement still to come), `Ordered` (no line twice,
in one stream or two, and those of a thread in order), `DueWritten`, `Flushed`,
`AllOut`. None of them depends on whether the streams fail, for a line that `fwrite()`
took in part, or not at all, was still handed over; but `Flushed` and `AllOut` speak
only of streams that are not `stuck`. That no line is lost where nothing fails is the
last clause of `LinesKept`: only lines of `FailingSinks` are cut, only those streams are
stuck. `Ordered` is what `LinesKept` says of order and is not inductive alone: a new
line is the last of its thread only since all others are of statements it is past.
`Flushed` says of a thread about to call `abort()` that its line is not in the buffer of
the stream that the flush hook flushed.

The proof of `LineRight` found the property wrong as it had been stated: that every dropped item
found too little room. An item with an empty text is always put in and leaves no trace, and the
history `dropped` counts it with those that did not fit. The run had none; the
property now speaks of items that have a text.

**Assumptions.** `Threads` is finite, programs are sequences of calls, the capacity
is a natural number and the count an integer. Of the callers the theorems assume the
contracts of the classes, which are named assumptions of the modules, and
which TLC evaluates in the runs:

* `ThreadPool`, `ProgramAssumption`: one thread starts, stops and destroys the pool, each
  at most once. `start` asserts that `threads_` is empty and `stop` joins every
  thread again.
* `Thread`, `ContractAssumption`: a program constructs an object before it uses it,
  does not use it after its destructor, joins what it starts before it
  destroys it, and uses no object that another one's function uses: `~Thread` does not
  join (`Thread.cc:108`), and the members are not guarded by a mutex.
  `ForkAssumption`: the processes made by `fork` use objects of their own, whose
  functions do not fork.
* `Singleton`, `DtorAssumption`: destructors of one kind of object may ask for the other
  kind, not both ways, and POSIX makes two passes over the keys at least.
* `LogStream`, `SizesAssumption`: `MaxNumericSize` has room for any integer with its
  sign and a NUL, as `staticCheck()` asserts at compile time (`LogStream.cc:100-110`), and
  for any address behind "0x", which it does not assert: 64 bits are 16 digits, of 32.
  `DoublesAssumption`: "%.12g" prints fewer characters than that, for which the code
  counts on `snprintf` and its limit (`LogStream.cc:180`).
* `Logger`, `ClockAssumption`: the clock is past the first second of 1970, since
  `t_lastSecond` 0 stands for no second. `TextsAssumption`: texts are sequences of
  characters. `ProgramAssumption`: a call is a use of a macro, with a level, a file and
  items that `<<` takes, or one of the three setters.
* `FileUtil`, `FilesAssumption`, `CallsAssumption`, `StartsAssumption`: there are files of some bytes, the
  arguments are integers, the buffer has room for a byte and its NUL, and a piece begins in
  the memory. Of the other programs nothing is assumed.
* `CountDownLatch`, `CondsAssumption`: the latch's condition is one of the process's.

**Model-checked only.** `Termination` and `AllServed`: liveness under fairness is
outside what TLAPS proves. `ReadsTheFile` of `FileUtil` is refuted, see section 5.
Deadlock is left to TLC, since it is about what is enabled.

## 5. Findings

`MCReadFileDefault`: `readToString()` returns at once, with zero, when it is passed
no `fileSize` pointer (`FileUtil.cc:59`), and that is the default of
`FileUtil::readFile()`. `FileUtil.h:55` says that it reads the file and returns an
error if one happens; `ProcessInfo.cc:116-120` relies on it: `procStatus()` is
always empty, and `numThreads()` always 0.

Observations made while modelling, which follow from the code, are part of
the models, and are refuted by no run of their own:

* `LogFile.h:49` says that a file that reaches `rollSize_` is changed for a new one
  ("文件达到rollSize 换一个新文件"). The code does less. `File::writtenBytes_` is never
  initialised (`LogFile.cc:79`), and `append()` adds to what the memory held: when the sum wraps,
  the file outgrows `rollSize_` and is not rolled in any later second either, until the
  counter has come round or the day is over; another value rolls it after its first line. And
  even if the counter starts at zero, a file beyond `rollSize_` goes on receiving lines,
  any number of them, for the rest of the second in which it was opened
  (`LogFile.cc:151`). What does hold is `SizeRolls`, which is stated with what the memory held.
* `Condition::wait` leaves `holder_` stale: the thread that returns from `wait`
  holds the mutex, and `isLockedbyThisThread()` says it does not
  (`Condition.h:39`, `Mutex.h:45-53`). Nothing in the library calls
  `assertLocked()` after a `wait`, and the destructor's assertion is not
  affected (`QuietWhenOut`).
* `cacheTid` asserts that "%5d " prints six characters (`Thread.cc:87-88`): a
  thread whose id has six digits aborts the process (`FiveDigits` of `Thread`).
* `LogFile::count_` is not initialised (`LogFile.h:52`): the clock may not be looked at
  for a long time, by what the heap held.
* A line may stay in `LogFile`'s buffer much longer than `flushInterval_`, since
  one line in 1026 looks at the clock and `flush` has no timer.
* When a line fills the buffer, any later item may be dropped, the newline
  included, and smaller ones after it still go in (`LogStream.h:51`): two
  lines may run together in the file.
* `defaultOutput` throws away how much `fwrite()` took ("FIXME check n", `Logging.cc:96-98`) and
  `defaultFlush` whether `fflush()` failed (`Logging.cc:103`): on a full disk lines are cut
  or lost, a FATAL one included, and nobody is told. `LinesKept` says what
  is left: nothing is repeated or overtaken, and what did not leave the process is in a
  stream whose last flush failed.
* Between `setOutput()` and `setFlush()` a FATAL line goes to the new stream and
  the old one is flushed: the line is lost with `abort()`. `LinesKept` promises it
  only when the flush hook is that of the stream the line was written to.
* A negative `maxSize` becomes a huge `size_t`: of a regular file `reserve()` throws,
  of any other everything is read (`FileUtil.cc:68-83`).
* `SmallFile` passes `data()` of a `StringPiece` to `open()`, which ignores its
  length (`FileUtil.cc:29`).
* `ThreadPool`: a pool that was stopped cannot be started again (the assertion in
  `start`, `ThreadPool.cc:45`), and accepts tasks that nobody will execute
  (`ThreadPool.cc:72`). The comment in `run` (line 71) asks whether a task is
  executed in the caller when the queue is empty; the code tests whether there
  are threads.
* `Thread::start()` ignores that `pthread_create` failed (`Thread.cc:115-118`), and
  `ThreadPool::start()` keeps the worker in `threads_`: `stop()` then calls `pthread_join` with
  the 0 of the constructor (`ThreadPool.cc:65-66`, `Thread.cc:100`), which is undefined and with glibc a
  crash. If no worker came to life, `run()` accepts tasks that nobody executes,
  for it asks only whether `threads_` is empty (`ThreadPool.cc:72`).
* `Singleton`'s `destroy()` leaves `value_` dangling: a thread that still runs when
  `main` returns uses a deleted object (`Singleton.h:54`). The model has `main` join
  the others first, as the tests do.
* `Deadlock_test.cc` shows a mutex that stays locked in the child of a `fork`, and
  `Deadlock_test2.cc` handlers that unlock it for a thread they do not know. Both
  are programs of their own: the library has no handler that touches a mutex.

## 6. Not modelled, and what is left

Not modelled:

* `Atomic.h`: wrappers of the compiler's atomic builtins. Their only caller in the
  library is `Thread::numCreated_`, which nothing but `numCreated()` reads.
* `Timestamp`: conversions to text and `gettimeofday`; its `now()` is the clock of
  `Logger`, and dates are the function `DateText` of the second.
* `Exception` (captures a backtrace by library calls), `Types.h`, `copyable.h` (no
  state).
* `ProcessInfo`: wrappers of system calls, not built; what it gets from `readFile`
  is the finding above.
* `Condition::waitForSeconds`: not built, does not compile, has no caller.
* `Fmt` of `LogStream.h`, but for what `formatTime` prints with it, and `resetBuffer` and
  `bzero`, which nothing calls; the two times of `readToString`.
* `assert(content != NULL)` (`FileUtil.cc:53`): a contract of the caller's, who passes the address
  of a string; the model's calls always have one.
* The order of static initialisation across files (`deleter_` of
  `ThreadLocalSingleton`, `ThreadNameInitializer`): threads start after it.
* The tests as clients: the programs of the runs are drawn from them, and
  their mixtures of queue, latch and pool add no call that the runs of the
  single classes do not make.

All safety properties of the runs that hold are proved. What is open is liveness
and deadlock beyond the instances of the runs (section 4), the parts listed above, and one hazard:
a mutex that another thread holds when a process forks (`Deadlock_test2.cc:72`) belongs
to a test program, not to the library, and would need a module of its own.
