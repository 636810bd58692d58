# Specifications of slogger

TLA+ models of the programs and libraries of this repository, the TLC configurations that
check them on small instances, and proofs about them for the TLA+ proof system. The
reference is the C source under `src/`; where a comment and the code disagree the modules
follow the code, and the disagreement is a finding (below).

The repository is a small library with a driver: an asynchronous logger (`slogger.c`), a
thread that runs a command and copies its output (`spwan.c`), a timed wait
(`condwait.c`), threads that log a load periodically (`threadload.c`), a playlist on a
doubly linked list (`playlinklist.c`), formatting (`common.c`) and a `main.c` that uses
them. There are no tests and no documents other than the comments.

## 1. Inventory

### slogger: the asynchronous logger (`slogger.c`, `slogger.h`)

- **State.** One static `struct Queue`: `front`, `size`, `capacity`, `shutdown`, the array
  `data`, `queue_mutex`, `queue_cond`; the logging thread; the log file.
- **Operations.** `slog_start` creates the logging thread and *then* sets `capacity` and
  allocates `data`. `pushMessage` allocates a `QueueData` and calls `enqueue`, which
  takes the mutex, refuses when full or shut down, or stores at
  `(front + size) % capacity`, signals and unlocks. `logging_thread` opens the file and
  loops over `dequeue`, which waits while empty and not shut down and returns `NULL` when
  empty and shut down. `slog_stop` sets `shutdown` *without* the mutex, then signals and
  destroys the condition variable under it, joins and frees.
- **Interaction.** Any thread calls `slog_message` (`common.c`), which calls
  `pushMessage`; the mutex, the condition variable and the unlocked accesses above are
  all there is between the threads.
- **Hard.** Accesses outside the mutex; the flag set between a test and a wait; a
  condition variable destroyed, and an array freed, while others may be on their way in;
  the second look at `size` after the unlock; a restart on the static object.
- **Correct when** messages reach the file once, in order; none that was stored is lost by
  a stop; no signal is lost; nothing is used outside its life; `slog_stop` returns.

### condwait: the timed wait (`condwait.c`, `condwait.h`)

- **State.** A mutex, a condition variable, and `timeout`, the absolute deadline.
- **Operations.** `condwait_int` reads the clock into `timeout`; `condwait_wait` adds the
  caller's timeout to the *last deadline* (not to the clock), carries nanoseconds, and
  waits; `condwait_signal` unlocks, signals and unlocks again; `condwait_stop` destroys.
- **Interaction.** `main` waits and its `SIGINT`/`SIGTSTP` handler signals, on whatever
  thread the system picks; every load thread waits on one of its own.
- **Hard.** Handlers arrive at any moment, unlock a mutex they do not hold, and may find
  nobody waiting; the carry; late callers and early wakeups shift later waits.
- **Correct when** the deadline never drifts from its schedule, a wait does not time out
  before it, and wait and stop return whatever the handlers do.

### spwan: a command in the background (`spwan.c`, `spwan.h`)

- **State.** `struct Exec`: `keeprunning`, `blocking`, the stream `fp`, the child's
  `pid`, the reader thread; in the kernel, the child and its pipe.
- **Operations.** `exec_start` forks the command with its output on a pipe and creates
  the reader; `load_exec`/`exec_run` copy the pipe to a log file while the flag is set;
  `exec_stop` clears the flag and sends `SIGINT` (unless `blocking`), closes `fp`, waits for
  the child (continuing it when it is stopped), and joins the reader if the child left with
  status 0. `exec` runs a
  command to its end and collects its output in a block that grows with every read; nothing
  in the program calls it.
- **Hard.** `exec_stop` closes a stream the reader uses; the child starts with `SIGINT`
  ignored; a stopped child; a reader that could not open its log and a child that blocks
  on the pipe; the child's end racing the reader; a `realloc` that fails while the size
  goes on growing; a child that is stopped while `exec` reads.
- **Correct when** `exec_stop` returns, the reader ends, what it got is in the log, and all of
  the output when nobody interfered, and after the stop hardly anything more is copied; when `exec` returns, with
  every piece at its place and none of the command cut off.

### threadload: load threads (`threadload.c`, `threadload.h`), and main (`main.c`)

- **State.** Per thread a `ThLoader`: `keeprunning`, its file, its `Condwait`.
- **Operations.** `thload_start` sets the flag and creates the thread; `load_thread` opens
  a file if it has one, and calls one of three loops: `thload_run` and `thload_run1` log and
  wait on their `Condwait`, `thload_run_notused` sleeps; the thread logs a last message;
  `thload_stop` clears the flag and joins. `main` runs a demonstration of the playlist,
  starts the logger, logs twice, starts the load threads, waits, stops and joins them, logs
  once more, stops the logger.
- **Hard.** The order of joins, last messages and the shutdown; a full queue; opens and
  allocations that fail; waits cut short and late rounds, with a stop in between; a
  demonstration that takes two entries for granted.
- **Correct when** every message is in the file or was refused for lack of room, and
  `main` comes to its end; when rounds keep to their schedule and a stop is heeded soon.

### playlist (`playlinklist.c`, `playlinklist.h`)

- **State.** A doubly linked list on the heap, the page cursor `pagehead`
  (`headoflist`), the selection `selnode` (`selectedlist`); a text file.
- **Operations.** Add at either end with eviction of the other end at the maximum,
  remove by path or node, swap with a neighbour, page forward and back, display, save, read,
  delete. `extract_file_name` makes the name that is shown out of the path, in place.
- **Hard.** Pointers held across a `free`, each operation mending `next` and `prv` in its
  own way, the ends of the list, a saved file cut off by a crash.
- **Correct when** the list behaves as a bounded sequence with a position in it, what was
  saved is read back, and a cut-off save leaves a beginning of what it was to save.

### common (`common.c`, `common.h`)

- **State.** `console_loglevel`, `log_type`, and the one object of `localtime`.
- **Operations.** `set_log_type`; `slog_message` stamps and prints a line and hands it to
  `pushMessage`, `log_message` does the same for a file.
- **Interaction.** Every thread calls `slog_message`; nothing guards the time or the type.
- **Hard.** Threads that share the broken-down time; seconds and milliseconds taken from two
  readings of the clock; a type that changes during a call; a case without a `break`.
- **Correct when** the stamp of a message belongs to its call, and a message goes where
  the type says.

### Build files

The makefiles fix which sources and macros the modules follow (`UNIQUE` is off).

## 2. Modules

| Module | Models | Role |
|---|---|---|
| `LogChannel` | what the logger promises | abstract specification: a bounded FIFO channel with a writer and a shutdown |
| `Slogger` | `slogger.c` | threads, mutex, condition variable, circular queue |
| `SloggerRestart` | `slogger.c` | extends `Slogger` by a second `slog_start` |
| `SloggerProofs` | | proofs about `Slogger` |
| `Condwait` | `condwait.c`, the handler of `main.c` | waiter, handlers, clock |
| `PlaySeq` | what the playlist promises | abstract specification: a sequence and a position |
| `PlayList` | `playlinklist.c` (list operations) | nodes, links and pointers |
| `PlayListProofs` | | proofs about `PlayList` |
| `PlayListFile` | `saveplaylist`, `readplaylist` | extends `PlaySeq` by the file and by runs of the program that may be cut off |
| `PlayListFileProofs` | | proofs about `PlayListFile` |
| `FileName` | `extract_file_name` and its callers | strings and the caller's buffer |
| `Demo` | `main.c` 56-150 | extends `PlayList` by the script that main runs over it |
| `DemoProofs` | | proofs about `Demo` |
| `Spawn` | `fork_dup2_exec`, `fork_dup2_exec_result`, the child, the pipe | the part of the system outside the parent |
| `Exec` | `exec_start`, `exec_run`, `load_exec`, `exec_stop` | extends `Spawn` by the two threads of the parent |
| `ExecSync` | `exec` | extends `Exec` by the other way to run a command |
| `ExecProofs` | | proofs about `Exec` and `ExecSync` |
| `LoadTest` | `main.c` 198-244, `threadload.c` | extends `Slogger`: composes main and the load threads with the logger |
| `LoadTestProofs` | | proofs about `LoadTest` |
| `LoadThread` | `threadload.c` | extends `Condwait`: one load thread in time |
| `LoadThreadProofs` | | proofs about `Condwait` and `LoadThread` |
| `Message` | `common.c` | threads inside `slog_message` and `log_message`, and the clock |
| `MessageProofs` | | proofs about `Message` |
| `MC...` | | instances for TLC |

### Slogger

The variables are the fields of `struct Queue`, a program counter for the logging thread
(`lpc`), for main (`mpc`) and for each producer (`ppc`), the file, and three history
variables: what `enqueue` stored (`accepted`), refused for lack of room (`overflowed`)
and refused because of the shutdown (`late`). A thread's code is cut into one action at
every lock, wait, signal and unlock, and at every access made without the mutex; what
runs inside the critical section in between is not cut, as nobody else can see it, except
that the test and the store of `enqueue` and the test and the wait of `dequeue` are
separate because `slog_stop` writes `shutdown` without the mutex.

`slog_start` is three actions (thread, capacity, allocation), so that the logging thread
may run before the queue is set up. `slog_stop` is six. `pthread_cond_wait` is a release
into the state `"wait"` and a lock; a `SpuriousWakeup` may end it. A message is the pair of
its producer and a number. `malloc` of a message and `fopen` fail at will when `MayFail`.

Producers begin only once `slog_start` has returned (`Started`), as in `main.c` 203-209;
nothing keeps them from going on during and after `slog_stop`.

The three unlocked reads in the code's early return (`enqueue`, line 70) are one action,
`EnqueueReport`; `PrintsOverflow` is what it would print.

### Condwait

One waiter, and a set of handlers that are processes of their own. Time is counted in
ticks; `timeout` is a pair of seconds and ticks below a second, so that the carry of lines
50-51 is arithmetic in the model too. Handlers may run before `condwait_int` and after
`condwait_stop`, as they are installed at `main.c` 198-201 and never removed. The mutex is
of the default kind, so an unlock frees it whoever holds it: this is what the C library of
the build does, and POSIX leaves it undefined.

### PlayList

A node is an address with the fields `next`, `prv` and `path`; `live` is what is allocated,
and an address can be used again at once. An operation is one step (the list is used by one
thread). `Dereferencing(pointers, effect)` is the effect if all the pointers are live, and
otherwise the flag `crashed`, after which nothing is said. `DeleteList` frees the nodes and no
more; nothing in the repository calls it, and `Discard` is a caller that clears its pointers
after it.

### PlayListFile and FileName

`PlayListFile` takes the list from `PlaySeq`, so that its operations are those that
`PlayList` is shown to implement. A path is a sequence of characters, the file another; a
run reads the file line by line, as `fgets` splits it, changes the list, and saves it
through a buffer of which the disk may at any time hold any beginning. The run may end
between any two steps, and its list with it; the next run reads what the disk holds. `saved`
and `complete` remember what the last save was to write and whether it came to its end.

`FileName` has a caller that adds entries from one buffer, which `extract_file_name` cuts.

### Demo

A script, `Script`, of the calls that main makes, each the action of `PlayList` that stands
for it; the file is a sequence of paths, and the script is run again on the file it left. The
line splitting of `PlayListFile` is left out, as the paths are short.

### Spawn, Exec and ExecSync

`Spawn` has the child (forked, running, silent, which is to say that its output is closed,
ended, reaped; stopped or not; catching `SIGINT` or not), the pipe (how full it is, how many references its read end has) and what `waitpid`
would report; `Exec` has the caller and the reader. Using `fp` after `exec_stop` closed it
sets `undefined`, after which nothing is said about the parent.

The log is known by what it lacks (`missing`): what the child writes is missing until the
reader, which `held` it, has handed it to `fwrite`. A count of what is in the log would grow for
ever, as the command may write for ever; the difference cannot exceed what the pipe and the
reader hold, so that liveness can be checked without a bound on the output. `waitpid` may fail
(`StopWaitFails`, `ExecWaitFails`): `exec_stop` then returns without joining the reader, and `exec`
returns -1. Neither is fair, as nothing obliges `waitpid` to fail.

A blocking `Exec` keeps its flag when it is stopped. Its reader may be anywhere in its loop when
`fclose` comes, and unless the read under way is the last one it comes round to the closed
stream: that is what `OnlyTheRace` says of it, and most of what `StopReturns` and `ReaderEnds` say of
it is met by `undefined`. `AtMostOneMore` says nothing of it.

A program runs a command in the background or with `exec`: `ExecSync` has both as
alternatives, over the same child. Pieces of output are numbered, so that the block `out`
shows which piece is where; a failed `realloc` leaves the block as it was, and the size grows.

### LoadTest

`LoadTest` conjoins each step of `main` and of a load thread with the action of `Slogger`
that it calls, so the logger in it is `Slogger`'s own, action by action. The timed waits
are reduced to the fact that they return, which is `CallsReturn` of `Condwait`. The files of
the load threads themselves may fail to open; those of the logger when `MayFail`.

### LoadThread

The other half of a load thread: its time. `LoadThread` conjoins the steps of the thread that
call `condwait.c` with the action of `Condwait` called, for each of the three loops; what it
logs is only counted. `stopped` remembers when the flag was cleared.

### Message

A call is cut where it reads the clock, where it calls `localtime` and where `strftime` reads
the fields that `localtime` left; two fields, minute and second, stand for all. `oldest` and
`shared` remember which other calls were under way.

## 3. Runs

Every property of a passing run has a mutant: an operator standing next to the definition
it replaces, in the form of a plausible slip, under which TLC finds the property violated.

| Run | Instance | Shows |
|---|---|---|
| `slogger` | 2 producers, 2 slots, 3 messages each, failures, fairness | no interleaving loses, repeats or reorders a message (`Conservation`), uses the array or the condition variable outside its life (`DataLive`, `CondLive`), loses a wakeup (`NoLostWakeup`), prints an untrue overflow (`TruthfulReport`) or leaves a stored message behind (`NothingLost`); the whole implements `LogChannel`; `slog_stop` returns and every stored message is written |
| `slogger_restart` | 1 producer, 1 message | violation, finding 1 |
| `condwait` | 2 handlers, 2 signals, clock up to 7, a second of 3 ticks, fairness | the deadline is on schedule, no timeout is early, an undisturbed wait is never too long; wait and stop return |
| `playlist` | 5 addresses, 2 paths, 4 entries, pages of 2 | the links stay consistent; undefined dereferences happen only at an empty or one-entry list or with a lost page; the selection follows its entry; the list implements `PlaySeq` |
| `playlist_file` | 3 entries, lines of 3, paths of 2, 3 and 4 characters, 3 runs with 2 changes each | what was saved is read back; a cut-off save leaves a beginning of its list; long paths come back in pieces that lose nothing |
| `filename_buffer` | strings of up to 7 characters, 3 entries | violation, finding 2 |
| `demo` | 7 addresses, lists of up to 7 entries, pages of 2, the script run over and over | main's demonstration crashes on files with fewer than two entries and on no others; paging shows every entry; a run that ends has removed the first and third entry |
| `exec` | pipe of 3 pieces, 2 stops, 4 pieces for `exec`, fairness | in the background: `exec_stop` returns and the reader ends, the log has all that the reader got, and all of the output if nobody asked the reader to leave, at most one piece after the flag, the race on `fp` is confined to one window unless the Exec is blocking, when it is the whole loop; with `exec`: every piece in its place, no command cut off, and it returns unless a stopped child hangs it |
| `loadtest` | 2 load threads, 2 slots, 3 messages each, strong fairness of the mutex | no message meets a logger that is shut down; main's last message is last; main exits, and then every message is accounted for |
| `loadthread` | a period of 2 ticks, a second of 3, clock up to 10, 4 rounds, 2 waits cut short | rounds keep to their schedule; a stop is heeded within a round and a period, and a period more for each wait cut short |
| `message` | 2 threads, a second of 2 ticks, a minute of 2 seconds, clock up to 5 | a lone message is stamped close to its call; threads that overlap take no time older than the calls under way |
| `message_console` | the same | violation, finding 3 |

### Why the bounds are enough

- *Two producers (or load threads), 2 slots, 3 messages.* Two producers contend with each
  other as well as with the logging thread; six messages through two slots wrap `front` and
  `rear` around several times and meet the full and the empty queue. Safety holds for every
  number of producers and every capacity by proof, so the run is only the first filter.
  `CAPACITY` is 2048 in the code.
- *A second of 3 ticks, timeouts of 2 ticks and of a second and a tick.* The first carries
  in two calls out of three, the second adds a whole second; a clock up to seven
  allows three waits and late callers between them. Two handlers can interleave with each
  other; each signal is one activation.
- *Four entries in pages of two.* Lists of less than a page, one page, one page and a half, and
  two pages, with eviction; the fifth address is the one that is free while the
  list is full, so that reuse of the evicted address is a choice. Two paths allow duplicates.
- *Lines of three characters.* `fgets` takes 255. A path that is shorter than the buffer, one
  that fills it and one that is longer are the three cases; a file of four lines is one more
  than the list takes. Three runs allow a save that is cut off over one that was complete.
- *Lists of up to seven in the demonstration, pages of two.* The numbers of page turns are
  fixed in main; the code has pages of 5 and lists of at most 16 entries. The initial files have
  from no to eight entries, one more than the list takes, so that there are lists of every
  remainder by the page. By proof the other properties hold for all sizes, and
  `EverythingShown` wherever a list has at most two entries more than four pages.
- *A period of two thirds of a second, ten ticks.* The deadlines carry, and four rounds leave
  room for two waits cut short and for late rounds.
- *Two threads with a call each, a clock that turns over seconds and minutes.* A third
  thread could only be one more from which a field is taken.
- *A pipe of 3 pieces.* Full, empty and in between; two stops let a stop arrive during the
  wait that follows the first. `MaxStops` bounds only how often an outsider stops the child.
- *`MaxMsgs`, `MaxTime`, `MaxSignals`* limit how long the environment goes on. In
  `LoadTest` a load thread at its bound is not stuck: it waits for its flag, which main
  clears in any case.

`Exec.cfg` switches the deadlock check off, as the program it models stops for good; that it
does not stop too early is `StopReturns`, `ReaderEnds` and `ExecReturns`. `Message.cfg` does
so too, as calls and clock are bounded. In the other modules the end is a
stuttering action (`Terminated`, `Exit`, `Crashed`,
`AllRunsOver`, `NameDone`, `ClockStops`) or leads to another run (`RunAgain`), and deadlock
is checked.

### Fairness

- *Slogger, Condwait*: weak fairness of every thread, of every handler once it has begun,
  and of the clock. Nobody has to log, to stop the logger, to signal, or to call a wait.
  Weak fairness suffices although the mutex is contended, because every contest is finite:
  producers have a bounded number of messages, and once `shutdown` is set the logging thread
  no longer waits, so that its spurious wakeups cannot keep `slog_stop` out.
- *LoadTest*: here main waits for the load threads, so each must get the mutex. The logging
  thread may wake up spuriously without end and take the mutex each time, so nothing weaker
  than strong fairness of the lock lets a thread in. The scheduler of a real mutex does
  better than that.
- *Exec*: weak fairness of caller, reader and child, and none of a `waitpid` that fails. Of the command it is assumed that it
  handles a `SIGINT` for which it has installed a handler, and that it otherwise goes on
  writing (the commands of `main.c` are periodic monitors) until it closes its output, after
  which it ends. A command that is silent for ever and ignores `SIGINT` keeps `exec_stop`
  waiting: with the second assumption dropped `StopReturns` does not hold, and the reason it holds with it is the broken pipe.
- *ExecSync*: weak fairness of `exec`, and a command that is not stopped comes to its end.
  Nobody is obliged to continue a child that was stopped, so `ExecReturns` leaves out the
  behaviours in which a stopped child keeps `exec` reading for ever.
- *PlayListFile, Demo, LoadThread, Message*: safety only, no fairness.

## 4. Findings

1. **`slogger_restart` / `StartInitializesQueue`** (`slogger.c:218`). The comment at
   `slogger.c:205` says that `slog_start` "initializes the log message queue". It does not
   reset `shutdown`: a logger started again refuses every message.
2. **`filename_buffer` / `FoundAgain`** (`playlinklist.c:482`). `playlinklist.h:27` declares the
   parameter of `extract_file_name` as `const char *`, and line 31 that of `addplaylist_front`. It writes two terminators into it, and
   `addplaylist_last` and `addplaylist_front` hand it the string of their own caller, who
   then no longer finds the entry with the string it added it with.
3. **`message_console` / `ConsoleOnlyForAdbshell`** (`common.c:57`). The comment at
   `common.c:24` says that a message goes to the output of the current type. The case of
   `LOG_TYPE_LOGCAT` has no `break`: such a message goes to the console too.

Seen on the way, and not made into runs:

- The deadline of `condwait_wait` is counted from the last one, not from the clock, so a late
  caller gets `ETIMEDOUT` before the "timeout duration" of `condwait.c:27-32` has passed. For a
  periodic loop this is what one wants, and `DeadlineOnSchedule` and `NeverTooLong` say what
  holds instead.
- `condwait_signal` ends with a second unlock where the comment at `condwait.c:72` announces a
  lock. With the lock the handler would keep the waiter out for ever: that is the mutant
  `SignalRelock` of the run `condwait`.
- Swapping the node next to the selected one moves the selection to the far side of the pair
  (`playlinklist.c:369-372`, `387-390`), which may be `NULL`. `SelectionFollows` is about the
  swap of the selected node itself.
- The seconds and the milliseconds of a stamp are read one after the other, so the stamp may
  lie almost a second before the call; `LoneStampIsClose` is what does hold.
- A read error makes `readplaylist` loop for ever (`playlinklist.c:440`): `ReadFails` of
  `PlayListFile` leads to a state that only the end of the process leaves.
- `saveplaylist` reports success on a full disk, and the demonstration, which removes two
  entries each time, ends up with a file on which every further run crashes before it saves.

## 5. Proofs

All theorems are proved for arbitrary constants that satisfy the named assumptions in the
modules: `ThreadsAssumption`, `BoundsAssumption`, `GarbageAssumption` (`Slogger`),
`CondwaitAssumption`, `LoadTestAssumption`, `LoadThreadAssumption`, `SpawnAssumption`,
`MessageAssumption`, `PlayListAssumption`, `FilesAssumption`, `FileAssumption` (`PlayListFile`).
They say that threads are distinct, that capacities and the lengths of a second, a minute, a period, a page and the buffer
of `fgets` are positive, and of the playlist that the maximum is at least 2 (16 in the code), that
the heap has at least that many addresses, that `NULL` and the mark of a lost page are none of
them, and that a path has no newline in it. None bounds a number of threads, messages, calls,
pieces of output, or the clock.

The runs check the invariants' consequences, the proofs the inductive invariants themselves,
each of which was first checked as an invariant of the run.

**Slogger** (`SloggerProofs`). The invariant of interest is `Conservation`:
`accepted = file \o InHand \o Ring`. It is not inductive: that a store appends to the ring
needs room in the ring and `capacity = CAPACITY`, that a fetch pops a message needs the
slots in use to be filled, and that `LoggerOpen` may empty the file needs it to be empty.
`IInv` adds to it who holds the mutex (`LockInv`), how far main has come (`MainInv`), what
a producer inside `enqueue` relies on (`ProducerInv`), what the logging thread relies on
(`LoggerInv`), that the slots in use hold messages (`RingInv`), and `NoLostWakeup`. The
arithmetic of the circular queue is in three lemmas: `WrapCapacity` on the remainder,
`RingStore` (storing at the rear appends) and `RingTake` (taking at the front drops the
head). One lemma per conjunct then goes through the actions. From `Inductive` follow
`TypeCorrect`, `MessagesConserved`, `StopLosesNothing`, `ArrayIsLive`, `CondIsLive`,
`WakeupsKept`, `ReportsTruthful` and the action property `ExitFinal`. `Refinement` shows
`Spec => LogChannel!Spec` under the mapping at the end of `Slogger.tla`: stores, fetches,
writes and the changes of phase are steps of the channel, everything else stutters.

**Condwait** (`LoadThreadProofs`). `IInv` adds to the three safety properties that a wait that
has ended without an early wakeup ended at or after its deadline; that is what makes
`NeverTooLong` inductive, as the next deadline is counted from the last. The lemmas are on
division and remainder in the carry.

**LoadTest** (`LoadTestProofs`). `ProgramUsesSlogger` (`LoadSpec => Spec`) shows that every
behaviour of the program is one of `Slogger`, so `IInv` and its consequences hold of it
(`ProgramLosesNothing`). `NothingLate` and `EndedIsLast` need more: `StepInv` ties where main
is to what it has done to the logger and to how many messages it has sent, `LoaderInv` says
that a load thread is inside `slog_message` only where it logs and has ended when main has
left the joins, and `QuietInv` that nobody is inside `slog_message` once `shutdown` is set;
`LastInv` says that main's last message is stored only then. `LoadInductive` proves the
conjunction with the help of `MainInv`. `AccountedFor` speaks of the end of main alone;
`PlacedInv` (`NothingAstray`) says where a message is before: refused, stored, or still in the
hands of the thread that sends it, and then it is the last one of that thread.
`AllAccountedFor` adds that all threads have ended and that what is stored is in the file.

**Exec** and **ExecSync** (`ExecProofs`). `CommandIInv` holds of both ways to run a command,
and the theorems are about their alternation (`CommandSpec`). `OneCommand` counts the
references to the read end of the pipe, of which `fclose` by `exec_stop` removes one while a
read under way keeps the other: this is what decides whether a child that writes is killed by
the pipe. `BackgroundInStep` ties `fp`, the reader and the flag to where the caller is: a flag
that is cleared leaves the reader one write, whence `OneMore`. `LogInStep` follows the output: what
the log lacks is in the pipe or in the reader's hands, and a reader that leaves its loop with the
flag set has seen the end of the pipe, which is final; `ToTheEnd` adds that a reader that has ended
holds nothing. `ExecInStep` says that nothing is in
the pipe and nothing comes once `exec` has seen the end, whence `Finished`; `InPlace` needs only
that the size grows with every read, refused `realloc` or not. `RaceOnly` is an action
property: a reader that the `fclose` of `exec_stop` finds outside the window between the look at
the flag and the read stays outside for good, as the flag is cleared (`StaysSpared`). For a blocking
`Exec`, whose flag stays set, the window is everything before the end of the loop.

**LoadThread** (`LoadThreadProofs`). `UsesCondwait` (`ThreadSpec => Spec`) makes the invariant of
`Condwait` available. `ThreadIInv` adds `LoaderInStep`, by which the sum of all timeouts is the
number of rounds times the period; `DeadlineNear`, by which the deadline is ahead of the clock by
at most one period for each wait that was cut short and one for the wait under way; and
`AfterStop`, which is the same from the instant of `thload_stop` on. `OnSchedule` and
`StopsSoon` follow; the second is where the count of waits cut short is needed, as the deadline
is counted from the last deadline and not from the clock.

**Message** (`MessageProofs`). For any number of threads, `MessageIInv` follows the broken-down
time through the one object of `localtime`: whatever is in it was read since the first of the
calls that overlap with a thread's own began (`OldestKnown`, `ReadLately`), and a thread that logs
alone finds there what it put there (`ReadOwn`). `Recent` and `LoneStamp` follow, the second
with the arithmetic of seconds and milliseconds that come from two readings of the clock.

**PlayList** (`PlayListProofs`). `WellFormed` is stated with walks along `next` and `prv` and is
not inductive in that form. `ListIInv` says instead that there is one sequence without
repetition (`Linked(Order)`) that holds exactly the live nodes and in which each node's fields
lead to its neighbours, and that a freed node's fields are forgotten. That the walk, a recursive
function, yields this sequence is a lemma on sequences of nodes, shown by the least
counterexample in the order of the natural numbers, with the set of counterexamples written out:
the induction theorems with an operator parameter are not needed. For each operation one lemma says which
sequence it makes of which (append, drop the head, remove the k-th, swap two neighbours), and a
second that its page moves as in `PlaySeq`. `ListInductive`, `ListWellFormed`,
`CrashesAtTheEdges` (an action property: the only undefined dereferences are those in lists of
fewer than two entries or with a lost page), `SelectionMoves` and the refinement `ListIsSequence`
follow.

**Demo** (`DemoProofs`). With the lemmas on refinement the proof speaks of sequences only.
`DemoIInv` has what is true before each of the 28 calls: what is in the list in terms of what was in
the file (`ContentsInv`), where the selection and the page are (`PointerInv`), and which nodes
have been shown (`ShownInv`); `ReadInv` follows `readplaylist` line by line, with eviction, and
`CrashInv` confines a crash to two calls. `DemoInductive` gives `CrashesOnShortFiles` and, as an action
property, `SavedWithoutTwo`. `PagesShowAll` has the hypothesis
`MaxPlayListLen <= 4 * PageListLen + 2`: main turns the page a fixed number of times after removing
two entries, and 16 <= 22 in the code. Without it the demonstration would stop short of the end.

**PlayListFile** (`PlayListFileProofs`). What `fgets` makes of a file that holds a list is
`Lines(saved)`, and `FileIInv` follows a file through writing and reading. `SavingInv`: disk and
buffer together are the text of the entries written so far, so that the disk alone is a beginning
of the text of the list (`DiskInv`) wherever the program ends. `ReadingInv`: what has been read is
the first n lines, the list is the latest of them without their newlines, and what is unread is the
rest of the file; or the file ended within a line, and the list has the beginning of that line too.
The text of a list and its lines are folds over data (`FlattenSeq`), which the provers know nothing
of. `JoinedExists` and `FlattenIs` show that `FlattenSeq` is the function one would write down, and
`FlattenAppend` and `FlattenConcat` what one more sequence does to it; the inductions are over sets
of numbers and of sequences that are written out (`Induction`, `ListInduction`), as for `PlayList`.
`PartsJoin` says that the parts of a path make up the path and its newline, `PartIs` that `fgets`
would split it there, `EveryLineGood` that this holds of a whole list; `NextLine`, `TakenLine` and
`TakenCut` then say what one call of `fgets` takes of a file that ends anywhere. From
`FileInductive` follow `PiecesRead` for paths of any length, and with `ShortLines`, by which a list
of paths shorter than the buffer has one line for each, `SavedIsRead` and `CutSaveKept`.

**Only model-checked.**

- Liveness (`StopReturns` of `Slogger` and of `Exec`, `StoredIsWritten`, `CallsReturn`, `ReaderEnds`,
  `ExecReturns`, `MainExits`), as fairness and `ENABLED` are out of the prover's reach.
- What the three runs with an expected violation show.

## 6. Not modelled

- Blocks that are not compiled: `spwan.c` 252-265 and 270-461, `main.c` 153-192 (a
  demonstration of `Exec`, whose calls `Exec` has), the `UNIQUE` parts of `playlinklist.c`.
- `close_thread_log`: `load_thread` calls it only for a clubbed thread without a file, and a
  clubbed thread has a file or has returned. `exec_log` is declared in `spwan.h` and not
  defined.
- The text of messages: tags, colours, wording, the 2048 bytes into which `vsprintf` formats,
  and the `%s` that is given a thread id in "End of thread" (`threadload.c:114`, `125` and
  `spwan.c:185`): undefined, and in this build a print of the bytes found there. The
  macros of `common.h`.
- Memory of messages: a refused message is never freed (`slogger.c:68`), unconditionally.
- A log of a command that cannot be written to: `exec_run` does not look at what `fwrite`
  returns (`spwan.c:217`).
- A clock that is set back. `condwait.c:18` reads `CLOCK_REALTIME`; `NeverTooLong` and what is
  derived from it hold as long as it only runs forward.
- A signal handler that interrupts its own thread inside a function of the thread library: the
  handlers are threads of their own.
- A selection left dangling by an eviction or a removal: the model has it, no property is
  about it.
- A failing `malloc` of the queue's array, which is not tested (`slogger.c:219`), and failing
  `pthread_create`, `pipe` and `fork`.
- What a destroyed condition variable does when a handler that is still installed after
  `condwait_stop` signals it; the model admits the signal and says no more.
- What follows a failed open of the thermal statistics (`threadload.c:254`): undefined.
- The thresholds and readings of `thload_run`; the sleep of `thload_run_notused` as a time.
- The build files.

## 7. Plan

Done, in this order: `Slogger` with `LogChannel` and its proofs, `SloggerRestart`,
`Condwait` and its proofs, `PlayList` with `PlaySeq`, `Spawn` and `Exec`, `LoadTest` and its
proofs; then `PlayListFile`, `FileName`, `Demo`, `ExecSync`, `LoadThread` and `Message`; then the
proofs about `Exec` and `ExecSync`, `LoadThread`, `Message`, `AccountedFor`, `PlayList`, `Demo` and
`PlayListFile`, with which every safety property of a passing run is a theorem.

Next: a refinement for the file, the program across its runs as a list that survives, of which a
crash during a save may cut off the end, with `PlayListFile` shown to implement it from `FileIInv`.
