-------------------------------- MODULE Condwait --------------------------------
(***************************************************************************)
(* The timed wait of condwait.c: one thread that waits (main in main.c, a  *)
(* load thread in threadload.c), and callers of condwait_signal, which are *)
(* the SIGINT and SIGTSTP handler of main.c.  A handler runs on whatever   *)
(* thread the system picks and at any moment, before condwait_int and      *)
(* after condwait_stop too, so each one is a process of its own.           *)
(*                                                                         *)
(* External, as this build of the C library provides them: the clock, the  *)
(* mutex (of the default kind: an unlock frees it whoever holds it) and    *)
(* the condition variable (which may wake a waiter nobody signalled).      *)
(*                                                                         *)
(* Time is counted in ticks, Second ticks to the second.  Bounded: MaxTime *)
(* for the clock and for the deadlines, MaxSignals for the signals.        *)
(***************************************************************************)
EXTENDS Naturals

CONSTANTS
  Waiter,      \* the thread that owns the Condwait
  Handlers,    \* the activations of the signal handler that may be live at once
  NoOne,       \* the owner of a free mutex
  Second,      \* ticks in a second (10^9 nanoseconds in the code)
  Timeouts,    \* the <<timeInSec, timeInMs>> that callers pass, in seconds and ticks
  MaxTime,     \* bound: the last instant of the clock, and of any deadline
  MaxSignals   \* bound: how many signals arrive

ASSUME CondwaitAssumption ==
  /\ Waiter \notin Handlers
  /\ NoOne \notin Handlers \cup {Waiter}
  /\ Second \in Nat \ {0}
  /\ Timeouts \subseteq Nat \X Nat
  /\ MaxTime \in Nat /\ MaxSignals \in Nat

VARIABLES
  now,         \* CLOCK_REALTIME
  mutex, cond, timeout,   \* struct Condwait; timeout is a struct timespec
  wpc, result, \* where the waiter is, and what its last wait returned
  hpc,         \* where each handler is
  signals,     \* how many signals have arrived
  started,     \* history: when condwait_int read the clock
  requested,   \* history: the sum of the timeouts asked for since then
  called,      \* history: when the last condwait_wait was called, and its timeout
  woken        \* history: whether a wait has ended by a wakeup instead of its deadline

condwait  == <<mutex, cond, timeout>>
handlers  == <<hpc, signals>>
history   == <<started, requested, called, woken>>
vars == <<now, condwait, wpc, result, handlers, history>>

Signaled == "signaled"    \* pthread_cond_timedwait returned 0
TimedOut == "ETIMEDOUT"

WaiterPC  == {"off", "idle", "lock", "wait", "sleep", "relock", "unlock",
              "stop", "destroy", "leave", "stopped"}
HandlerPC == {"none", "unlock", "signal", "again"}

TypeOK ==
  /\ now \in 0 .. MaxTime
  /\ mutex \in {Waiter, NoOne}
  /\ cond \in {"none", "live", "destroyed"}
  /\ timeout \in [sec : Nat, nsec : 0 .. Second - 1]
  /\ wpc \in WaiterPC
  /\ result \in {"none", Signaled, TimedOut}
  /\ hpc \in [Handlers -> HandlerPC]
  /\ signals \in 0 .. MaxSignals
  /\ started \in 0 .. MaxTime
  /\ requested \in Nat
  /\ called \in [at : 0 .. MaxTime, for : Nat]
  /\ woken \in BOOLEAN

(* The static object of main.c, before condwait_int.                       *)
Init ==
  /\ now \in 0 .. MaxTime /\ now <= Second
  /\ mutex = NoOne /\ cond = "none"
  /\ timeout = [sec |-> 0, nsec |-> 0]
  /\ wpc = "off" /\ result = "none"
  /\ hpc = [h \in Handlers |-> "none"] /\ signals = 0
  /\ started = 0 /\ requested = 0 /\ called = [at |-> 0, for |-> 0]
  /\ woken = FALSE

--------------------------------------------------------------------------------
(* The clock, the mutex and the condition variable.                        *)

Ticks(t) == t.sec * Second + t.nsec

Tick ==
  /\ now < MaxTime
  /\ now' = now + 1
  /\ UNCHANGED <<condwait, wpc, result, handlers, history>>

\* An unlock of the default kind of mutex frees it, whoever locked it.
Unlock == mutex' = NoOne

Lock == mutex = NoOne /\ mutex' = Waiter

Goto(from, to) == wpc = from /\ wpc' = to

--------------------------------------------------------------------------------
(* condwait_int.                                                           *)

CondwaitInt ==
  /\ Goto("off", "idle")
  /\ mutex' = NoOne /\ cond' = "live"
  /\ timeout' = [sec |-> now \div Second, nsec |-> now % Second]
  /\ started' = now
  /\ UNCHANGED <<now, result, handlers, requested, called, woken>>

--------------------------------------------------------------------------------
(* condwait_wait.                                                          *)

\* Mutant of Deadline: no carry into the seconds.
DeadlineNoCarry(t, timeInSec, timeInMs) ==
  [sec |-> t.sec + timeInSec, nsec |-> (t.nsec + timeInMs) % Second]

\* Mutant of Deadline: the seconds are rounded up.
DeadlineRoundsUp(t, timeInSec, timeInMs) ==
  LET future_ns == t.nsec + timeInMs
  IN  [sec  |-> t.sec + timeInSec + (future_ns + Second - 1) \div Second,
       nsec |-> future_ns % Second]

\* The new deadline is the old one plus the timeout, with a carry from
\* nanoseconds to seconds; the clock is not read.
Deadline(t, timeInSec, timeInMs) ==
  LET future_ns == t.nsec + timeInMs
  IN  [sec  |-> t.sec + timeInSec + future_ns \div Second,
       nsec |-> future_ns % Second]

CondwaitWait(timeInSec, timeInMs) ==
  LET asked == timeInSec * Second + timeInMs
  IN  /\ Goto("idle", "lock")
      /\ Ticks(timeout) + asked <= MaxTime
      /\ timeout' = Deadline(timeout, timeInSec, timeInMs)
      /\ requested' = requested + asked
      /\ called' = [at |-> now, for |-> asked]
      /\ UNCHANGED <<now, mutex, cond, result, handlers, started, woken>>

WaitLock ==
  /\ Goto("lock", "wait")
  /\ Lock
  /\ UNCHANGED <<now, cond, timeout, result, handlers, history>>

\* pthread_cond_timedwait: sleep and release the mutex in one step.
WaitSleep ==
  /\ Goto("wait", "sleep")
  /\ Unlock
  /\ UNCHANGED <<now, cond, timeout, result, handlers, history>>

\* The deadline has come; at once if it already lay in the past.
WaitTimesOut ==
  /\ now >= Ticks(timeout)
  /\ Goto("sleep", "relock")
  /\ result' = TimedOut
  /\ UNCHANGED <<now, condwait, handlers, history>>

\* pthread_cond_timedwait returns 0 although nobody signalled.
SpuriousWakeup ==
  /\ Goto("sleep", "relock")
  /\ result' = Signaled
  /\ woken' = TRUE
  /\ UNCHANGED <<now, condwait, handlers, started, requested, called>>

\* pthread_cond_timedwait returns once it holds the mutex again.
WaitRelock ==
  /\ Goto("relock", "unlock")
  /\ Lock
  /\ UNCHANGED <<now, cond, timeout, result, handlers, history>>

\* Unlock, and return the result.
WaitUnlock ==
  /\ Goto("unlock", "idle")
  /\ Unlock
  /\ UNCHANGED <<now, cond, timeout, result, handlers, history>>

--------------------------------------------------------------------------------
(* condwait_stop.                                                          *)

CondwaitStop ==
  /\ Goto("idle", "stop")
  /\ UNCHANGED <<now, condwait, result, handlers, history>>

StopLock ==
  /\ Goto("stop", "destroy")
  /\ Lock
  /\ UNCHANGED <<now, cond, timeout, result, handlers, history>>

StopDestroy ==
  /\ Goto("destroy", "leave")
  /\ cond' = "destroyed"
  /\ UNCHANGED <<now, mutex, timeout, result, handlers, history>>

StopUnlock ==
  /\ Goto("leave", "stopped")
  /\ Unlock
  /\ UNCHANGED <<now, cond, timeout, result, handlers, history>>

--------------------------------------------------------------------------------
(* condwait_signal, called by intHandler.                                  *)

HandlerGoto(h, from, to) ==
  /\ hpc[h] = from
  /\ hpc' = [hpc EXCEPT ![h] = to]

IntHandler(h) ==
  /\ signals < MaxSignals
  /\ signals' = signals + 1
  /\ HandlerGoto(h, "none", "unlock")
  /\ UNCHANGED <<now, condwait, wpc, result, history>>

SignalUnlock(h) ==
  /\ HandlerGoto(h, "unlock", "signal")
  /\ Unlock
  /\ UNCHANGED <<now, cond, timeout, wpc, result, signals, history>>

\* pthread_cond_signal: it wakes the waiter if the waiter sleeps, and is lost
\* if it does not.
SignalWake(h) ==
  /\ HandlerGoto(h, "signal", "again")
  /\ wpc' = IF wpc = "sleep" THEN "relock" ELSE wpc
  /\ result' = IF wpc = "sleep" THEN Signaled ELSE result
  /\ woken' = (woken \/ wpc = "sleep")
  /\ UNCHANGED <<now, condwait, signals, started, requested, called>>

\* Mutant of SignalUnlockAgain: the mutex is locked again, as the comment above
\* condwait_signal has it.
SignalRelock(h) ==
  /\ HandlerGoto(h, "again", "none")
  /\ mutex = NoOne /\ mutex' = h
  /\ UNCHANGED <<now, cond, timeout, wpc, result, signals, history>>

\* The second unlock.
SignalUnlockAgain(h) ==
  /\ HandlerGoto(h, "again", "none")
  /\ Unlock
  /\ UNCHANGED <<now, cond, timeout, wpc, result, signals, history>>

--------------------------------------------------------------------------------

Wait ==
  \/ WaitLock \/ WaitSleep \/ WaitTimesOut \/ WaitRelock \/ WaitUnlock

Stop == StopLock \/ StopDestroy \/ StopUnlock

Handler(h) == SignalUnlock(h) \/ SignalWake(h) \/ SignalUnlockAgain(h)

\* The program may rest once the Condwait is stopped.
Terminated ==
  /\ wpc = "stopped" /\ now = MaxTime
  /\ \A h \in Handlers : hpc[h] = "none"
  /\ UNCHANGED vars

Next ==
  \/ Tick
  \/ CondwaitInt \/ CondwaitStop
  \/ \E t \in Timeouts : CondwaitWait(t[1], t[2])
  \/ Wait \/ SpuriousWakeup \/ Stop
  \/ \E h \in Handlers : IntHandler(h) \/ Handler(h)
  \/ Terminated

Spec == Init /\ [][Next]_vars

(* Time passes, and a thread or a handler that can run does run.  Nothing  *)
(* obliges a signal to arrive, a wait to wake up spuriously, or the program*)
(* to call condwait_wait or condwait_stop.                                 *)
Fairness ==
  /\ WF_vars(Tick)
  /\ WF_vars(Wait) /\ WF_vars(Stop)
  /\ \A h \in Handlers : WF_vars(Handler(h))

FairSpec == Spec /\ Fairness

--------------------------------------------------------------------------------
(* Properties.                                                             *)

\* The deadline never drifts: it is the instant of condwait_int plus all the
\* timeouts asked for since, however long the callers dallied in between and
\* however often nanoseconds carried into seconds.
DeadlineOnSchedule == wpc # "off" => Ticks(timeout) = started + requested

\* A wait that times out does so no sooner than the sum of all timeouts since
\* condwait_int: a load thread goes round its loop at most once per period on
\* average, also when a few rounds were late.
TimeoutNotEarly == wpc \in {"relock", "unlock"} /\ result = TimedOut
                     => now >= started + requested

\* As long as every wait ran into its deadline, no wait is set to last longer
\* than the timeout its caller gave: a late caller catches up, and only a wakeup
\* before the deadline can make the next wait too long.  (So could a clock that is
\* set back, which Tick never is.)
NeverTooLong == wpc \in {"lock", "wait", "sleep"} /\ ~woken
                  => Ticks(timeout) <= called.at + called.for

\* condwait_wait and condwait_stop return: whatever signals arrive, and at whatever
\* point, the deadline of a wait comes, and no handler keeps the mutex from either.
CallsReturn ==
  /\ wpc = "lock" ~> wpc = "idle"
  /\ wpc = "stop" ~> wpc = "stopped"

--------------------------------------------------------------------------------
(* The inductive invariant that the proofs in LoadThreadProofs use.        *)

IInv ==
  /\ TypeOK
  /\ DeadlineOnSchedule /\ TimeoutNotEarly /\ NeverTooLong
  /\ wpc = "off" => requested = 0
  /\ wpc \in {"relock", "unlock", "idle"} /\ ~woken => now >= Ticks(timeout)
=============================================================================
