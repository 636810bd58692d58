-------------------------------- MODULE Slogger --------------------------------
(***************************************************************************)
(* The asynchronous logger of slogger.c: a circular queue guarded by one   *)
(* mutex and one condition variable, the callers of pushMessage, the       *)
(* logging thread, and the main thread that runs slog_start and slog_stop. *)
(*                                                                         *)
(* The steps of a thread are split wherever another thread can get in      *)
(* between: at each lock, wait, signal and unlock, and at each access to   *)
(* the queue that the code makes without holding the mutex (the write of   *)
(* shutdown in slog_stop, the re-read of size in enqueue, the set-up in    *)
(* slog_start and the free in slog_stop).                                  *)
(*                                                                         *)
(* Abstracted: the text of a message (a message is named by its caller and *)
(* its number) and console output.  Bounded: MaxMsgs.                      *)
(***************************************************************************)
EXTENDS Naturals, Sequences

CONSTANTS
  Producers,   \* the threads that call pushMessage
  Logger,      \* the logging thread
  Main,        \* the thread that calls slog_start and slog_stop
  NoOne,       \* the owner of a free mutex
  CAPACITY,    \* slots of the circular queue (2048 in the code)
  MaxMsgs,     \* bound: messages offered by each producer
  MayFail,     \* whether pushMessage's malloc and the thread's fopen may fail
  Garbage      \* what an uninitialized slot, or a variable before its assignment, holds

Message == Producers \X (1 .. MaxMsgs)

ASSUME ThreadsAssumption ==
  /\ Logger # Main
  /\ Logger \notin Producers /\ Main \notin Producers
  /\ NoOne \notin Producers \cup {Logger, Main}

ASSUME BoundsAssumption ==
  /\ CAPACITY \in Nat \ {0}
  /\ MaxMsgs \in Nat
  /\ MayFail \in BOOLEAN

ASSUME GarbageAssumption == Garbage \notin Message

VARIABLES
  \* struct Queue
  front, size, shutdown, data, slots, capacity, mutex, cond,
  \* the logging thread: where it is, qdata, and the file it writes
  lpc, qdata, file,
  \* the main thread
  mpc,
  \* the producers: where each one is, and how many messages it has offered
  ppc, offered,
  \* history: messages stored by enqueue in that order, and messages that
  \* enqueue refused for lack of room and because of shutdown
  accepted, overflowed, late

queueVars    == <<front, size, slots>>
lifeVars     == <<shutdown, data, capacity, cond>>
loggerVars   == <<lpc, qdata, file>>
producerVars == <<ppc, offered>>
history      == <<accepted, overflowed, late>>
vars == <<queueVars, lifeVars, mutex, loggerVars, mpc, producerVars, history>>

LoggerPC   == {"none", "fopen", "lock", "locked", "sleep", "wait", "write", "fclose", "end", "failed"}
MainPC     == {"off", "capacity", "malloc", "running", "stopping",
               "signal", "destroy", "join", "free", "stopped"}
ProducerPC == {"idle", "lock", "locked", "store", "signal", "report"}

TypeOK ==
  /\ front \in 0 .. CAPACITY - 1
  /\ size \in 0 .. CAPACITY
  /\ shutdown \in BOOLEAN
  /\ data \in {"null", "live", "freed"}
  /\ slots \in [0 .. CAPACITY - 1 -> Message \cup {Garbage}]
  /\ capacity \in {0, CAPACITY}
  /\ mutex \in Producers \cup {Logger, Main, NoOne}
  /\ cond \in {"live", "destroyed"}
  /\ lpc \in LoggerPC
  /\ qdata \in Message \cup {Garbage}
  /\ file \in Seq(Message)
  /\ mpc \in MainPC
  /\ ppc \in [Producers -> ProducerPC]
  /\ offered \in [Producers -> 0 .. MaxMsgs]
  /\ accepted \in Seq(Message)
  /\ overflowed \subseteq Message
  /\ late \subseteq Message

(* The static initializer of queue; no thread has been started.            *)
Init ==
  /\ front = 0 /\ size = 0
  /\ shutdown = FALSE
  /\ data = "null" /\ capacity = 0
  /\ slots = [i \in 0 .. CAPACITY - 1 |-> Garbage]
  /\ mutex = NoOne /\ cond = "live"
  /\ lpc = "none" /\ qdata = Garbage /\ file = <<>>
  /\ mpc = "off"
  /\ ppc = [p \in Producers |-> "idle"] /\ offered = [p \in Producers |-> 0]
  /\ accepted = <<>> /\ overflowed = {} /\ late = {}

--------------------------------------------------------------------------------
(* The mutex and the condition variable.                                   *)

Acquire(t) == mutex = NoOne /\ mutex' = t
Release    == mutex' = NoOne

\* pthread_cond_signal: only the logging thread ever waits.  It returns from
\* pthread_cond_wait once it has the mutex again; a signal that finds nobody
\* waiting is lost.
Signal == lpc' = IF lpc = "wait" THEN "lock" ELSE lpc

--------------------------------------------------------------------------------
(* pushMessage and enqueue, called by a producer.                          *)

Msg(p) == <<p, offered[p]>>

\* Mutant of Full: the test for room is off by one.
FullOffByOne == size > capacity

Full == size = capacity

\* main.c starts the threads that log once slog_start has returned.
Started == mpc \notin {"off", "capacity", "malloc"}

Goto(p, from, to) ==
  /\ ppc[p] = from
  /\ ppc' = [ppc EXCEPT ![p] = to]

\* The caller hands over a message; the malloc of its QueueData succeeds.
PushMessage(p) ==
  /\ Started
  /\ offered[p] < MaxMsgs
  /\ offered' = [offered EXCEPT ![p] = @ + 1]
  /\ Goto(p, "idle", "lock")
  /\ UNCHANGED <<queueVars, lifeVars, mutex, loggerVars, mpc, history>>

\* malloc fails: "Out of Memory" on stderr, and the message is lost.
PushOutOfMemory(p) ==
  /\ MayFail
  /\ Started
  /\ offered[p] < MaxMsgs
  /\ offered' = [offered EXCEPT ![p] = @ + 1]
  /\ Goto(p, "idle", "idle")
  /\ UNCHANGED <<queueVars, lifeVars, mutex, loggerVars, mpc, history>>

EnqueueLock(p) ==
  /\ Goto(p, "lock", "locked")
  /\ Acquire(p)
  /\ UNCHANGED <<queueVars, lifeVars, loggerVars, mpc, offered, history>>

\* Full or shut down: unlock and leave by the early return.
EnqueueRefuse(p) ==
  /\ Full \/ shutdown
  /\ Goto(p, "locked", "report")
  /\ Release
  /\ overflowed' = IF Full THEN overflowed \cup {Msg(p)} ELSE overflowed
  /\ late' = IF Full THEN late ELSE late \cup {Msg(p)}
  /\ UNCHANGED <<queueVars, lifeVars, loggerVars, mpc, offered, accepted>>

\* Mutant of EnqueueAdmit: shutdown is not tested.
EnqueueAdmitAlways(p) ==
  /\ ~Full
  /\ Goto(p, "locked", "store")
  /\ UNCHANGED <<queueVars, lifeVars, mutex, loggerVars, mpc, offered, history>>

EnqueueAdmit(p) ==
  /\ ~(Full \/ shutdown)
  /\ Goto(p, "locked", "store")
  /\ UNCHANGED <<queueVars, lifeVars, mutex, loggerVars, mpc, offered, history>>

\* Mutant of EnqueueStore: rear is computed from size alone.
EnqueueStoreAtSize(p) ==
  /\ Goto(p, "store", "signal")
  /\ slots' = [slots EXCEPT ![size % capacity] = Msg(p)]
  /\ size' = size + 1
  /\ accepted' = Append(accepted, Msg(p))
  /\ UNCHANGED <<front, lifeVars, mutex, loggerVars, mpc, offered, overflowed, late>>

EnqueueStore(p) ==
  /\ Goto(p, "store", "signal")
  /\ LET rear == (front + size) % capacity
     IN  slots' = [slots EXCEPT ![rear] = Msg(p)]
  /\ size' = size + 1
  /\ accepted' = Append(accepted, Msg(p))
  /\ UNCHANGED <<front, lifeVars, mutex, loggerVars, mpc, offered, overflowed, late>>

\* Mutant of EnqueueSignal: the logging thread is not signalled.
EnqueueNoSignal(p) ==
  /\ Goto(p, "signal", "idle")
  /\ Release
  /\ UNCHANGED <<queueVars, lifeVars, loggerVars, mpc, offered, history>>

EnqueueSignal(p) ==
  /\ Goto(p, "signal", "idle")
  /\ Signal
  /\ Release
  /\ UNCHANGED <<queueVars, lifeVars, qdata, file, mpc, offered, history>>

\* The early return looks at size and capacity once more, without the mutex,
\* to decide whether to print "Logger buffer overflow."
EnqueueReport(p) ==
  /\ Goto(p, "report", "idle")
  /\ UNCHANGED <<queueVars, lifeVars, mutex, loggerVars, mpc, offered, history>>

PrintsOverflow(p) == ppc[p] = "report" /\ Full

Producer(p) ==
  \/ EnqueueLock(p) \/ EnqueueRefuse(p) \/ EnqueueAdmit(p)
  \/ EnqueueStore(p) \/ EnqueueSignal(p) \/ EnqueueReport(p)

--------------------------------------------------------------------------------
(* logging_thread and dequeue.                                             *)

LoggerGoto(from, to) == lpc = from /\ lpc' = to

\* fopen with "w+" empties the file.
LoggerOpen ==
  /\ LoggerGoto("fopen", "lock")
  /\ file' = <<>>
  /\ UNCHANGED <<queueVars, lifeVars, mutex, qdata, mpc, producerVars, history>>

\* The file cannot be opened: the thread returns at once.
LoggerOpenFails ==
  /\ MayFail
  /\ LoggerGoto("fopen", "failed")
  /\ UNCHANGED <<queueVars, lifeVars, mutex, qdata, file, mpc, producerVars, history>>

\* Entering dequeue, or returning from pthread_cond_wait.
DequeueLock ==
  /\ LoggerGoto("lock", "locked")
  /\ Acquire(Logger)
  /\ UNCHANGED <<queueVars, lifeVars, qdata, file, mpc, producerVars, history>>

\* Empty and not shut down: decide to wait.  slog_stop may set shutdown
\* between this test and the wait.
DequeueEmpty ==
  /\ size = 0 /\ ~shutdown
  /\ LoggerGoto("locked", "sleep")
  /\ UNCHANGED <<queueVars, lifeVars, mutex, qdata, file, mpc, producerVars, history>>

\* pthread_cond_wait: start waiting and release the mutex in one step.
DequeueWait ==
  /\ LoggerGoto("sleep", "wait")
  /\ Release
  /\ UNCHANGED <<queueVars, lifeVars, qdata, file, mpc, producerVars, history>>

\* POSIX lets pthread_cond_wait return although nobody signalled.
SpuriousWakeup ==
  /\ LoggerGoto("wait", "lock")
  /\ UNCHANGED <<queueVars, lifeVars, mutex, qdata, file, mpc, producerVars, history>>

\* Mutant of DequeueNull: NULL at shutdown, whatever the queue still holds.
DequeueNullAtShutdown ==
  /\ shutdown
  /\ LoggerGoto("locked", "fclose")
  /\ Release
  /\ UNCHANGED <<queueVars, lifeVars, qdata, file, mpc, producerVars, history>>

\* Empty and shut down: dequeue returns NULL, which ends the loop.
DequeueNull ==
  /\ size = 0 /\ shutdown
  /\ LoggerGoto("locked", "fclose")
  /\ Release
  /\ UNCHANGED <<queueVars, lifeVars, qdata, file, mpc, producerVars, history>>

\* Mutant of DequeueTake: front is advanced before the slot is loaded.
DequeueTakeNext ==
  /\ size > 0
  /\ LoggerGoto("locked", "write")
  /\ front' = (front + 1) % capacity
  /\ qdata' = slots[front']
  /\ size' = size - 1
  /\ Release
  /\ UNCHANGED <<slots, lifeVars, file, mpc, producerVars, history>>

DequeueTake ==
  /\ size > 0
  /\ LoggerGoto("locked", "write")
  /\ qdata' = slots[front]
  /\ front' = (front + 1) % capacity
  /\ size' = size - 1
  /\ Release
  /\ UNCHANGED <<slots, lifeVars, file, mpc, producerVars, history>>

\* fwrite, fflush, and the two frees.
LoggerWrite ==
  /\ LoggerGoto("write", "lock")
  /\ file' = Append(file, qdata)
  /\ qdata' = Garbage
  /\ UNCHANGED <<queueVars, lifeVars, mutex, mpc, producerVars, history>>

LoggerClose ==
  /\ LoggerGoto("fclose", "end")
  /\ UNCHANGED <<queueVars, lifeVars, mutex, qdata, file, mpc, producerVars, history>>

LoggingThread ==
  \/ LoggerOpen \/ LoggerOpenFails
  \/ DequeueLock \/ DequeueEmpty \/ DequeueWait \/ DequeueNull \/ DequeueTake
  \/ LoggerWrite \/ LoggerClose

Exited == lpc \in {"end", "failed"}

--------------------------------------------------------------------------------
(* slog_start and slog_stop, called by the main thread.                    *)

MainGoto(from, to) == mpc = from /\ mpc' = to

\* The thread is created first and the queue set up after it.
SlogStartThread ==
  /\ MainGoto("off", "capacity")
  /\ lpc' = "fopen"
  /\ UNCHANGED <<queueVars, lifeVars, mutex, qdata, file, producerVars, history>>

SlogStartCapacity ==
  /\ MainGoto("capacity", "malloc")
  /\ capacity' = CAPACITY
  /\ UNCHANGED <<queueVars, shutdown, data, cond, mutex, loggerVars, producerVars, history>>

SlogStartMalloc ==
  /\ MainGoto("malloc", "running")
  /\ data' = "live"
  /\ slots' = [i \in 0 .. CAPACITY - 1 |-> Garbage]
  /\ UNCHANGED <<front, size, shutdown, capacity, cond, mutex, loggerVars, producerVars, history>>

\* The flag is set before the mutex is taken.
SlogStopShutdown ==
  /\ MainGoto("running", "stopping")
  /\ shutdown' = TRUE
  /\ UNCHANGED <<queueVars, data, capacity, cond, mutex, loggerVars, producerVars, history>>

SlogStopLock ==
  /\ MainGoto("stopping", "signal")
  /\ Acquire(Main)
  /\ UNCHANGED <<queueVars, lifeVars, loggerVars, producerVars, history>>

\* Mutant of SlogStopSignal: the logging thread is not woken.
SlogStopNoSignal ==
  /\ MainGoto("signal", "destroy")
  /\ UNCHANGED <<queueVars, lifeVars, mutex, loggerVars, producerVars, history>>

SlogStopSignal ==
  /\ MainGoto("signal", "destroy")
  /\ Signal
  /\ UNCHANGED <<queueVars, lifeVars, mutex, qdata, file, producerVars, history>>

\* pthread_cond_destroy, then the unlock.
SlogStopDestroy ==
  /\ MainGoto("destroy", "join")
  /\ cond' = "destroyed"
  /\ Release
  /\ UNCHANGED <<queueVars, shutdown, data, capacity, loggerVars, producerVars, history>>

\* Mutant of SlogStopJoin: slog_stop does not wait for the thread to finish.
SlogStopNoJoin ==
  /\ MainGoto("join", "free")
  /\ UNCHANGED <<queueVars, lifeVars, mutex, loggerVars, producerVars, history>>

SlogStopJoin ==
  /\ Exited
  /\ MainGoto("join", "free")
  /\ UNCHANGED <<queueVars, lifeVars, mutex, loggerVars, producerVars, history>>

SlogStopFree ==
  /\ MainGoto("free", "stopped")
  /\ data' = "freed"
  /\ UNCHANGED <<queueVars, shutdown, capacity, cond, mutex, loggerVars, producerVars, history>>

SlogStart == SlogStartThread \/ SlogStartCapacity \/ SlogStartMalloc

SlogStop ==
  \/ SlogStopLock \/ SlogStopSignal \/ SlogStopDestroy
  \/ SlogStopJoin \/ SlogStopFree

--------------------------------------------------------------------------------
(* The program comes to rest once the logger is stopped and every producer *)
(* has used up its bound.                                                  *)
Terminated ==
  /\ mpc = "stopped"
  /\ \A p \in Producers : ppc[p] = "idle" /\ offered[p] = MaxMsgs
  /\ UNCHANGED vars

Next ==
  \/ SlogStart \/ SlogStopShutdown \/ SlogStop
  \/ LoggingThread \/ SpuriousWakeup
  \/ \E p \in Producers : PushMessage(p) \/ PushOutOfMemory(p) \/ Producer(p)
  \/ Terminated

Spec == Init /\ [][Next]_vars

(* The scheduler runs every thread that can run.  Nothing obliges a caller *)
(* to log, main to call slog_stop, or a wait to wake up spuriously.        *)
Fairness ==
  /\ WF_vars(SlogStart) /\ WF_vars(SlogStop)
  /\ WF_vars(LoggingThread)
  /\ \A p \in Producers : WF_vars(Producer(p))

FairSpec == Spec /\ Fairness

--------------------------------------------------------------------------------
(* Properties.                                                             *)

\* What the queue holds, oldest first.
RingOf(s, f, n) == [i \in 1 .. n |-> s[(f + i - 1) % CAPACITY]]
Ring == RingOf(slots, front, size)

InHand == IF lpc = "write" THEN <<qdata>> ELSE <<>>

\* Every message that enqueue stored is, exactly once and in that order, in
\* the file, in the hands of the logging thread, or in the circular queue:
\* the wrap-around of front and rear never loses, repeats or reorders one.
Conservation == accepted = file \o InHand \o Ring

\* The array is used only between slog_start's malloc and slog_stop's free,
\* although enqueue and dequeue never test data: a producer about to store and
\* a logging thread about to load find it allocated.
DataLive ==
  /\ (\E p \in Producers : ppc[p] = "store") => data = "live"
  /\ lpc = "locked" /\ size > 0 => data = "live"

\* The condition variable is not signalled or waited on after slog_stop has
\* destroyed it, and nobody waits on it when it is destroyed.
CondLive ==
  /\ mpc \in {"signal", "destroy"} => cond = "live"
  /\ (\E p \in Producers : ppc[p] = "signal") => cond = "live"
  /\ lpc = "sleep" => cond = "live"
  /\ lpc = "wait" => cond = "live" /\ mpc # "destroy"

\* The logging thread never sleeps through work: while it waits with a message
\* in the queue some producer has its signal still to give, and while it waits
\* with shutdown set slog_stop has.
NoLostWakeup ==
  lpc = "wait" =>
    /\ size > 0 => \E p \in Producers : ppc[p] = "signal"
    /\ shutdown => mpc \in {"stopping", "signal"}

\* "Logger buffer overflow." is decided by a second look at size, made after
\* the mutex was released.  It is still never printed for a message that was
\* refused for another reason: a refusal because of shutdown found room, and
\* nothing is stored after that.
TruthfulReport == \A p \in Producers : PrintsOverflow(p) => Msg(p) \in overflowed

\* When slog_stop returns, everything enqueue ever stored is in the file,
\* unless the file could not be opened.
NothingLost == mpc = "stopped" /\ lpc = "end" => file = accepted

\* Once the logging thread has decided to leave, no producer that was on its
\* way in stores a message that nobody would write.
ExitIsFinal == [][(lpc \in {"fclose", "end"}) => UNCHANGED accepted]_vars

\* slog_stop returns: the wakeup of the logging thread is not lost although
\* shutdown is set outside the mutex, and the join ends.
StopReturns == mpc = "stopping" ~> mpc = "stopped"

\* A stored message reaches the file, whether or not anybody stops the logger,
\* unless the file cannot be opened.
StoredIsWritten ==
  \A m \in Message :
    (\E i \in DOMAIN accepted : accepted[i] = m)
      ~> (lpc = "failed" \/ \E i \in DOMAIN file : file[i] = m)

\* How far slog_start and slog_stop have got, and the logging thread, as the
\* callers of the logger see them.
Phase == CASE ~Started                                   -> "new"
           [] mpc = "running"                            -> "open"
           [] mpc = "stopping"                           -> "closing"
           [] mpc \in {"signal", "destroy", "join", "free"} -> "closed"
           [] mpc = "stopped"                            -> "gone"

Writer == CASE lpc \in {"none", "fopen"} -> "waiting"
            [] lpc \in {"fclose", "end"} -> "done"
            [] lpc = "failed"            -> "failed"
            [] OTHER                     -> "alive"

Channel == INSTANCE LogChannel WITH
  Capacity <- CAPACITY, pending <- Ring, writing <- InHand, phase <- Phase, writer <- Writer

\* The threads, the mutex and the circular queue together implement the bounded
\* channel of slogger.c's file comment: messages enqueued by producers, written
\* to a file by one thread, with a shutdown mechanism.
ImplementsChannel == Channel!Spec

--------------------------------------------------------------------------------
(* The inductive invariant that the proofs in SloggerProofs use.           *)

\* Who holds the mutex, from where each thread is.
LockInv ==
  /\ \A p \in Producers : mutex = p <=> ppc[p] \in {"locked", "store", "signal"}
  /\ mutex = Logger <=> lpc \in {"locked", "sleep"}
  /\ mutex = Main <=> mpc \in {"signal", "destroy"}

\* What slog_start and slog_stop have done so far, from where main is.
MainInv ==
  /\ capacity = IF mpc \in {"off", "capacity"} THEN 0 ELSE CAPACITY
  /\ data = IF ~Started THEN "null" ELSE IF mpc = "stopped" THEN "freed" ELSE "live"
  /\ shutdown <=> Started /\ mpc # "running"
  /\ cond = "destroyed" <=> mpc \in {"join", "free", "stopped"}
  /\ ~Started => size = 0 /\ \A p \in Producers : ppc[p] = "idle"
  /\ lpc = "none" <=> mpc = "off"
  /\ mpc \in {"free", "stopped"} => Exited

\* What a producer inside enqueue may rely on.
ProducerInv ==
  \A p \in Producers :
    /\ ppc[p] # "idle" => offered[p] \in 1 .. MaxMsgs
    /\ ppc[p] \in {"store", "signal"} => mpc \in {"running", "stopping"}
    /\ ppc[p] = "store" => ~Full /\ lpc \notin {"fclose", "end"}
    /\ ppc[p] = "report" /\ Msg(p) \notin overflowed =>
         /\ shutdown /\ ~Full
         /\ \A q \in Producers : ppc[q] # "store"

\* What the logging thread may rely on.
LoggerInv ==
  /\ lpc \in {"none", "fopen", "failed"} => file = <<>>
  /\ lpc = "sleep" =>
       size = 0 /\ mpc \notin {"signal", "destroy", "join", "free", "stopped"}
  /\ lpc = "wait" => mpc \notin {"destroy", "join", "free", "stopped"}
  /\ lpc \in {"fclose", "end"} => shutdown /\ size = 0
  /\ lpc = "write" => qdata \in Message

\* The slots in use hold messages, not what malloc left there.
RingInv == Ring \in Seq(Message)

IInv ==
  /\ TypeOK /\ LockInv /\ MainInv /\ ProducerInv /\ LoggerInv
  /\ RingInv /\ NoLostWakeup /\ Conservation
=============================================================================
