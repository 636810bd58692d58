---------------------------- MODULE LoadThreadProofs ----------------------------
(***************************************************************************)
(* Proofs about Condwait, for any length of a second, any timeouts, any    *)
(* number of handlers and signals and any bound on the clock; and on top   *)
(* of them about LoadThread, for any period, any number of rounds and of   *)
(* waits cut short.                                                        *)
(***************************************************************************)
EXTENDS LoadThread, TLAPS

--------------------------------------------------------------------------------
(* The arithmetic of the deadline.                                         *)

Timespec == [sec : Nat, nsec : 0 .. Second - 1]

\* Division with remainder.
LEMMA Division ==
  ASSUME NEW n \in Nat \ {0}, NEW x \in Nat
  PROVE  /\ x \div n \in Nat
         /\ x % n \in 0 .. n - 1
         /\ x = (x \div n) * n + (x % n)
OBVIOUS

LEMMA Distribute ==
  ASSUME NEW n \in Nat, NEW a \in Nat, NEW b \in Nat
  PROVE  (a + b) * n = a * n + b * n /\ a * n \in Nat
OBVIOUS

LEMMA SecondPositive == Second \in Nat \ {0}
BY CondwaitAssumption

\* condwait_wait's carry is exact: the new deadline is a valid timespec that
\* lies the whole timeout after the old one.
LEMMA DeadlineExact ==
  ASSUME NEW t \in Timespec, NEW s \in Nat, NEW m \in Nat
  PROVE  /\ Deadline(t, s, m) \in Timespec
         /\ Ticks(Deadline(t, s, m)) = Ticks(t) + (s * Second + m)
         /\ Ticks(t) \in Nat
<1> DEFINE future == t.nsec + m
           q == future \div Second
           r == future % Second
<1>1. t.sec \in Nat /\ t.nsec \in Nat /\ future \in Nat
  BY SecondPositive DEF Timespec
<1>2. q \in Nat /\ r \in 0 .. Second - 1 /\ future = q * Second + r
  BY <1>1, Division, SecondPositive
<1> HIDE DEF q, r
<1>3. Deadline(t, s, m) = [sec |-> t.sec + s + q, nsec |-> r]
  BY DEF Deadline, q, r
<1>4. Deadline(t, s, m) \in Timespec
  BY <1>1, <1>2, <1>3 DEF Timespec
<1>5. (t.sec + s + q) * Second = t.sec * Second + s * Second + q * Second
  <2>1. t.sec + s \in Nat
    BY <1>1
  <2>2. (t.sec + s + q) * Second = (t.sec + s) * Second + q * Second
    BY <1>2, <2>1, Distribute, SecondPositive
  <2> QED BY <1>1, <2>2, Distribute, SecondPositive
<1>6. t.sec * Second \in Nat /\ s * Second \in Nat /\ q * Second \in Nat
  BY <1>1, <1>2, Distribute, SecondPositive
<1>7. Ticks(Deadline(t, s, m)) = (t.sec + s + q) * Second + r
  BY <1>3 DEF Ticks
<1>8. Ticks(t) = t.sec * Second + t.nsec
  BY DEF Ticks
<1> QED BY <1>1, <1>2, <1>4, <1>5, <1>6, <1>7, <1>8

\* condwait_int's reading of the clock is a valid timespec for that instant.
LEMMA ClockExact ==
  ASSUME NEW t \in Nat
  PROVE  /\ [sec |-> t \div Second, nsec |-> t % Second] \in Timespec
         /\ Ticks([sec |-> t \div Second, nsec |-> t % Second]) = t
BY Division, SecondPositive DEF Timespec, Ticks

--------------------------------------------------------------------------------
(* The inductive invariant.                                                *)

LEMMA InitIInv == Init => IInv
<1> SUFFICES ASSUME Init PROVE IInv
  OBVIOUS
<1>1. TypeOK
  <2>1. timeout \in [sec : Nat, nsec : 0 .. Second - 1]
    BY SecondPositive DEF Init
  <2>2. called \in [at : 0 .. MaxTime, for : Nat] /\ started \in 0 .. MaxTime
    BY CondwaitAssumption DEF Init
  <2>3. signals \in 0 .. MaxSignals /\ hpc \in [Handlers -> HandlerPC]
    BY CondwaitAssumption DEF Init, HandlerPC
  <2> QED BY <2>1, <2>2, <2>3 DEF Init, TypeOK, WaiterPC
<1> QED
  BY <1>1 DEF Init, IInv, DeadlineOnSchedule, TimeoutNotEarly, NeverTooLong

\* What condwait_int and condwait_wait do to the deadline.
LEMMA IntDeadline ==
  ASSUME now \in Nat, CondwaitInt
  PROVE  timeout' \in Timespec /\ Ticks(timeout') = now
<1>1. timeout' = [sec |-> now \div Second, nsec |-> now % Second]
  BY DEF CondwaitInt
<1> QED BY <1>1, ClockExact

LEMMA WaitDeadline ==
  ASSUME timeout \in Timespec, NEW s \in Nat, NEW m \in Nat, CondwaitWait(s, m)
  PROVE  /\ timeout' \in Timespec
         /\ Ticks(timeout') = Ticks(timeout) + (s * Second + m)
         /\ s * Second + m \in Nat
<1>1. timeout' = Deadline(timeout, s, m)
  BY DEF CondwaitWait
<1>2. s * Second \in Nat
  BY Distribute, SecondPositive
<1>3. /\ Deadline(timeout, s, m) \in Timespec
      /\ Ticks(Deadline(timeout, s, m)) = Ticks(timeout) + (s * Second + m)
  BY DeadlineExact, Zenon
<1> QED BY <1>1, <1>2, <1>3

LEMMA NextIInv == IInv /\ [Next]_vars => IInv'
<1> SUFFICES ASSUME IInv, [Next]_vars PROVE IInv'
  OBVIOUS
<1>0. /\ Second \in Nat \ {0} /\ MaxTime \in Nat /\ MaxSignals \in Nat
      /\ Ticks(timeout) \in Nat /\ timeout \in Timespec
  BY CondwaitAssumption, DeadlineExact DEF IInv, TypeOK, Timespec
<1> USE <1>0 DEF IInv, TypeOK, DeadlineOnSchedule, TimeoutNotEarly, NeverTooLong,
                 WaiterPC, HandlerPC, Goto, Lock, Unlock, HandlerGoto, Signaled, TimedOut,
                 vars, condwait, handlers, history
<1>1. CASE Tick
  BY <1>1 DEF Tick
<1>2. CASE CondwaitInt
  <2>1. timeout' \in Timespec /\ Ticks(timeout)' = now
    BY <1>2, IntDeadline
  <2> QED BY <1>2, <2>1 DEF CondwaitInt, Timespec
<1>3. CASE CondwaitStop
  BY <1>3 DEF CondwaitStop
<1>4. ASSUME NEW t \in Timeouts, CondwaitWait(t[1], t[2])
      PROVE  IInv'
  <2> DEFINE asked == t[1] * Second + t[2]
  <2>1. t[1] \in Nat /\ t[2] \in Nat
    BY CondwaitAssumption
  <2>2. /\ timeout' \in Timespec
        /\ Ticks(timeout)' = Ticks(timeout) + asked
        /\ asked \in Nat
    BY <1>0, <1>4, <2>1, WaitDeadline
  <2>3. /\ wpc = "idle" /\ wpc' = "lock"
        /\ requested' = requested + asked
        /\ called' = [at |-> now, for |-> asked]
        /\ UNCHANGED <<now, mutex, cond, result, handlers, started, woken>>
    BY <1>4 DEF CondwaitWait
  <2> HIDE DEF asked
  <2> QED BY <2>2, <2>3 DEF Timespec
<1>5. CASE WaitLock
  BY <1>5 DEF WaitLock, Ticks
<1>6. CASE WaitSleep
  BY <1>6 DEF WaitSleep, Ticks
<1>7. CASE WaitTimesOut
  BY <1>7 DEF WaitTimesOut, Ticks
<1>8. CASE WaitRelock
  BY <1>8 DEF WaitRelock, Ticks
<1>9. CASE WaitUnlock
  BY <1>9 DEF WaitUnlock, Ticks
<1>10. CASE SpuriousWakeup
  BY <1>10 DEF SpuriousWakeup, Ticks
<1>11. CASE StopLock
  BY <1>11 DEF StopLock, Ticks
<1>12. CASE StopDestroy
  BY <1>12 DEF StopDestroy, Ticks
<1>13. CASE StopUnlock
  BY <1>13 DEF StopUnlock, Ticks
<1>14. ASSUME NEW h \in Handlers, IntHandler(h) PROVE IInv'
  BY <1>14 DEF IntHandler, Ticks
<1>15. ASSUME NEW h \in Handlers, SignalUnlock(h) PROVE IInv'
  BY <1>15 DEF SignalUnlock, Ticks
<1>16. ASSUME NEW h \in Handlers, SignalWake(h) PROVE IInv'
  BY <1>16 DEF SignalWake, Ticks
<1>17. ASSUME NEW h \in Handlers, SignalUnlockAgain(h) PROVE IInv'
  BY <1>17 DEF SignalUnlockAgain, Ticks
<1>18. CASE UNCHANGED vars
  BY <1>18 DEF Ticks
<1> QED
  BY <1>1, <1>2, <1>3, <1>4, <1>5, <1>6, <1>7, <1>8, <1>9, <1>10, <1>11, <1>12,
     <1>13, <1>14, <1>15, <1>16, <1>17, <1>18
  DEF Next, Wait, Stop, Handler, Terminated

\* The waiter's place, its deadline and the history of what was asked of it stay
\* in step; the three theorems below follow.
THEOREM Inductive == Spec => []IInv
BY InitIInv, NextIInv, PTL DEF Spec

--------------------------------------------------------------------------------
(* The theorems about Condwait.                                            *)

\* The deadline never drifts from condwait_int's instant plus all timeouts asked
\* for, whatever carries there were from nanoseconds to seconds.
THEOREM Schedule == Spec => []DeadlineOnSchedule
<1>1. IInv => DeadlineOnSchedule
  BY DEF IInv
<1> QED BY <1>1, Inductive, PTL

\* No wait times out before the sum of all timeouts asked for has passed.
THEOREM NotEarly == Spec => []TimeoutNotEarly
<1>1. IInv => TimeoutNotEarly
  BY DEF IInv
<1> QED BY <1>1, Inductive, PTL

\* Until a wakeup ends a wait before its deadline, no wait is set to last longer
\* than its timeout.
THEOREM NotTooLong == Spec => []NeverTooLong
<1>1. IInv => NeverTooLong
  BY DEF IInv
<1> QED BY <1>1, Inductive, PTL

--------------------------------------------------------------------------------
(* A load thread uses its Condwait as condwait.c asks for.                 *)

LEMMA PeriodIsTimeout == Period \in Nat \ {0} /\ <<0, Period>> \in Timeouts
BY LoadThreadAssumption

LEMMA StepOfCondwait ==
  ASSUME [ThreadNext]_threadVars
  PROVE  [Next]_vars
<1> USE DEF Next
<1>1. CASE ThloadStart \/ ThloadStop \/ ThloadJoin
  BY <1>1 DEF ThloadStart, ThloadStop, ThloadJoin
<1>2. CASE LoaderPauses
  <2>1. CASE Paced
    <3>1. CondwaitWait(0, Period)
      BY <1>2, <2>1 DEF LoaderPauses
    <3>2. \E t \in Timeouts : CondwaitWait(t[1], t[2])
      <4>1. <<0, Period>>[1] = 0 /\ <<0, Period>>[2] = Period
        OBVIOUS
      <4> QED BY <3>1, <4>1, PeriodIsTimeout
    <3> QED BY <3>2
  <2>2. CASE ~Paced
    BY <1>2, <2>2 DEF LoaderPauses
  <2> QED BY <2>1, <2>2
<1>3. CASE LoaderOpens \/ LoaderOpenFails \/ LoaderTest \/ LoaderLogs
  BY <1>3 DEF LoaderOpens, LoaderOpenFails, LoaderTest, LoaderLogs
<1>4. CASE LoaderBegins \/ LoaderLeaves
  BY <1>4 DEF LoaderBegins, LoaderLeaves
<1>5. CASE LoaderResumes \/ LoaderLeft \/ LoaderSaysBye
  BY <1>5 DEF LoaderResumes, LoaderLeft, LoaderSaysBye
<1>6. CASE Waiting \/ Passing \/ WokenEarly
  BY <1>6 DEF Waiting, Passing, WokenEarly
<1>7. CASE ClockStops \/ UNCHANGED threadVars
  BY <1>7 DEF ClockStops, threadVars
<1> HIDE DEF Next
<1> QED BY <1>1, <1>2, <1>3, <1>4, <1>5, <1>6, <1>7 DEF ThreadNext, Loader

\* All that Condwait promises its callers holds for a load thread.
THEOREM UsesCondwait == ThreadSpec => Spec
<1>1. ThreadInit => Init
  BY DEF ThreadInit
<1>2. [ThreadNext]_threadVars => [Next]_vars
  BY StepOfCondwait
<1> QED BY <1>1, <1>2, PTL DEF ThreadSpec, Spec

--------------------------------------------------------------------------------
(* The inductive invariant.                                                *)

LEMMA OneMorePeriod ==
  ASSUME NEW n \in Nat
  PROVE  (n + 1) * Period = n * Period + Period /\ n * Period \in Nat /\ 0 * Period = 0
BY PeriodIsTimeout

LEMMA ThreadInitIInv == ThreadInit => ThreadIInv
<1> SUFFICES ASSUME ThreadInit PROVE ThreadIInv
  OBVIOUS
<1>1. IInv
  BY InitIInv DEF ThreadInit
<1>2. ThreadTypeOK
  BY DEF ThreadInit, ThreadTypeOK
<1>3. LoaderInStep /\ DeadlineNear /\ AfterStop
  BY DEF ThreadInit, Init, LoaderInStep, DeadlineNear, AfterStop
<1> QED BY <1>1, <1>2, <1>3 DEF ThreadIInv

\* What a step reads of Condwait.
LEMMA Clockwork ==
  ASSUME IInv, ThreadTypeOK
  PROVE  /\ now \in Nat /\ started \in Nat /\ requested \in Nat /\ Ticks(timeout) \in Nat
         /\ wakeups * Period \in Nat /\ rounds * Period \in Nat
         /\ Period \in Nat
BY DeadlineExact, PeriodIsTimeout, CondwaitAssumption
   DEF IInv, TypeOK, Timespec, ThreadTypeOK
\* The first deadline is now, and each round moves it by a period.
LEMMA Begins ==
  ASSUME IInv, CondwaitInt
  PROVE  /\ Ticks(timeout)' = now /\ requested = 0 /\ requested' = 0
         /\ wpc = "off" /\ wpc' = "idle" /\ UNCHANGED <<now, result>>
<1>1. now \in Nat /\ (wpc = "off" => requested = 0)
  BY CondwaitAssumption DEF IInv, TypeOK
<1> QED BY <1>1, IntDeadline DEF CondwaitInt, Goto

LEMMA PutsOff ==
  ASSUME IInv, CondwaitWait(0, Period)
  PROVE  /\ Ticks(timeout)' = Ticks(timeout) + Period
         /\ requested' = requested + Period
         /\ wpc = "idle" /\ wpc' = "lock" /\ UNCHANGED <<now, result, started>>
<1>1. 0 * Second + Period = Period /\ 0 \in Nat /\ Period \in Nat
  BY SecondPositive, PeriodIsTimeout
<1>2. timeout \in Timespec
  BY DEF IInv, TypeOK, Timespec
<1>3. Ticks(timeout)' = Ticks(timeout) + Period
  BY <1>1, <1>2, WaitDeadline
<1> QED BY <1>1, <1>3 DEF CondwaitWait, Goto

LEMMA ThreadTypes ==
  ASSUME ThreadIInv, [ThreadNext]_threadVars
  PROVE  ThreadTypeOK'
<1>0. now \in Nat
  BY Clockwork DEF ThreadIInv
<1> USE DEF ThreadIInv, ThreadTypeOK, struct, ghosts, LoaderGoto
<1>1. CASE ThloadStart
  BY <1>1 DEF ThloadStart
<1>2. CASE ThloadStop
  BY <1>2, <1>0 DEF ThloadStop
<1>3. CASE ThloadJoin
  BY <1>3 DEF ThloadJoin
<1>4. CASE LoaderOpens
  BY <1>4 DEF LoaderOpens
<1>5. CASE LoaderOpenFails
  BY <1>5 DEF LoaderOpenFails
<1>6. CASE LoaderBegins
  BY <1>6 DEF LoaderBegins, CondwaitInt, Goto
<1>7. CASE LoaderTest
  BY <1>7 DEF LoaderTest
<1>8. CASE LoaderLogs
  BY <1>8 DEF LoaderLogs
<1>9. CASE LoaderPauses
  BY <1>9 DEF LoaderPauses, CondwaitWait, Goto
<1>10. CASE LoaderResumes
  BY <1>10 DEF LoaderResumes
<1>11. CASE LoaderLeaves
  BY <1>11 DEF LoaderLeaves, CondwaitStop, Goto
<1>12. CASE LoaderLeft
  BY <1>12 DEF LoaderLeft
<1>13. CASE LoaderSaysBye
  BY <1>13 DEF LoaderSaysBye
<1>14. CASE Passing
  BY <1>14 DEF Passing, Tick
<1>15. CASE WokenEarly
  BY <1>15 DEF WokenEarly, SpuriousWakeup, Goto
<1>16. CASE Waiting /\ WaitLock
  BY <1>16 DEF Waiting, WaitLock, Goto, Lock, Unlock
<1>17. CASE Waiting /\ WaitSleep
  BY <1>17 DEF Waiting, WaitSleep, Goto, Lock, Unlock
<1>18. CASE Waiting /\ WaitTimesOut
  BY <1>18 DEF Waiting, WaitTimesOut, Goto
<1>19. CASE Waiting /\ WaitRelock
  BY <1>19 DEF Waiting, WaitRelock, Goto, Lock, Unlock
<1>20. CASE Waiting /\ WaitUnlock
  BY <1>20 DEF Waiting, WaitUnlock, Goto, Lock, Unlock
<1>21. CASE Waiting /\ StopLock
  BY <1>21 DEF Waiting, StopLock, Goto, Lock, Unlock
<1>22. CASE Waiting /\ StopDestroy
  BY <1>22 DEF Waiting, StopDestroy, Goto
<1>23. CASE Waiting /\ StopUnlock
  BY <1>23 DEF Waiting, StopUnlock, Goto, Lock, Unlock
<1>24. CASE UNCHANGED threadVars
  BY <1>24 DEF threadVars
<1> QED
  BY <1>1, <1>2, <1>3, <1>4, <1>5, <1>6, <1>7, <1>8, <1>9, <1>10, <1>11, <1>12,
     <1>13, <1>14, <1>15, <1>16, <1>17, <1>18, <1>19, <1>20, <1>21, <1>22, <1>23,
     <1>24
  DEF ThreadNext, Loader, Waiting, Wait, Stop, ClockStops

LEMMA ThreadKeepsStep ==
  ASSUME ThreadIInv, [ThreadNext]_threadVars
  PROVE  LoaderInStep'
<1>0. rounds \in Nat /\ wakeups \in Nat /\ requested \in Nat
  BY Clockwork DEF ThreadIInv, ThreadTypeOK
<1> USE <1>0 DEF ThreadIInv, LoaderInStep, Paced, struct, ghosts, LoaderGoto,
            vars, condwait, history
<1>1. CASE ThloadStart
  BY <1>1 DEF ThloadStart
<1>2. CASE ThloadStop
  BY <1>2 DEF ThloadStop
<1>3. CASE ThloadJoin
  BY <1>3 DEF ThloadJoin
<1>4. CASE LoaderOpens
  BY <1>4 DEF LoaderOpens
<1>5. CASE LoaderOpenFails
  BY <1>5 DEF LoaderOpenFails
<1>6. CASE LoaderBegins
  <2>1. rounds = 0 /\ rounds * Period = 0
    BY <1>6, OneMorePeriod DEF LoaderBegins
  <2> QED BY <1>6, <2>1, Begins DEF LoaderBegins
<1>7. CASE LoaderTest
  BY <1>7 DEF LoaderTest
<1>8. CASE LoaderLogs
  BY <1>8, OneMorePeriod DEF LoaderLogs
<1>9. CASE LoaderPauses
  BY <1>9, PutsOff, PeriodIsTimeout DEF LoaderPauses
<1>10. CASE LoaderResumes
  BY <1>10 DEF LoaderResumes
<1>11. CASE LoaderLeaves
  BY <1>11 DEF LoaderLeaves, CondwaitStop, Goto
<1>12. CASE LoaderLeft
  BY <1>12 DEF LoaderLeft
<1>13. CASE LoaderSaysBye
  BY <1>13 DEF LoaderSaysBye
<1>14. CASE Passing
  BY <1>14 DEF Passing, Tick
<1>15. CASE WokenEarly
  BY <1>15 DEF WokenEarly, SpuriousWakeup, Goto
<1>16. CASE Waiting /\ WaitLock
  BY <1>16 DEF Waiting, WaitLock, Goto, Lock, Unlock
<1>17. CASE Waiting /\ WaitSleep
  BY <1>17 DEF Waiting, WaitSleep, Goto, Lock, Unlock
<1>18. CASE Waiting /\ WaitTimesOut
  BY <1>18 DEF Waiting, WaitTimesOut, Goto
<1>19. CASE Waiting /\ WaitRelock
  BY <1>19 DEF Waiting, WaitRelock, Goto, Lock, Unlock
<1>20. CASE Waiting /\ WaitUnlock
  BY <1>20 DEF Waiting, WaitUnlock, Goto, Lock, Unlock
<1>21. CASE Waiting /\ StopLock
  BY <1>21 DEF Waiting, StopLock, Goto, Lock, Unlock
<1>22. CASE Waiting /\ StopDestroy
  BY <1>22 DEF Waiting, StopDestroy, Goto
<1>23. CASE Waiting /\ StopUnlock
  BY <1>23 DEF Waiting, StopUnlock, Goto, Lock, Unlock
<1>24. CASE UNCHANGED threadVars
  BY <1>24 DEF threadVars
<1> QED
  BY <1>1, <1>2, <1>3, <1>4, <1>5, <1>6, <1>7, <1>8, <1>9, <1>10, <1>11, <1>12,
     <1>13, <1>14, <1>15, <1>16, <1>17, <1>18, <1>19, <1>20, <1>21, <1>22, <1>23,
     <1>24
  DEF ThreadNext, Loader, Waiting, Wait, Stop, ClockStops

LEMMA ThreadKeepsNear ==
  ASSUME ThreadIInv, [ThreadNext]_threadVars
  PROVE  DeadlineNear'
<1>0. /\ now \in Nat /\ started \in Nat /\ requested \in Nat /\ Ticks(timeout) \in Nat
      /\ wakeups * Period \in Nat /\ rounds \in Nat /\ wakeups \in Nat /\ Period \in Nat
  BY Clockwork DEF ThreadIInv, ThreadTypeOK
<1> USE <1>0 DEF ThreadIInv, DeadlineNear, LoaderInStep, Paced, struct, ghosts, LoaderGoto,
            vars, condwait, history
<1>1. CASE ThloadStart
  BY <1>1 DEF ThloadStart
<1>2. CASE ThloadStop
  BY <1>2 DEF ThloadStop
<1>3. CASE ThloadJoin
  BY <1>3 DEF ThloadJoin
<1>4. CASE LoaderOpens
  BY <1>4 DEF LoaderOpens
<1>5. CASE LoaderOpenFails
  BY <1>5 DEF LoaderOpenFails
<1>6. CASE LoaderBegins
  <2>1. rounds = 0 /\ UNCHANGED rounds
    BY <1>6 DEF LoaderBegins
  <2> QED BY <1>6, <2>1, Begins DEF LoaderBegins
<1>7. CASE LoaderTest
  BY <1>7 DEF LoaderTest
<1>8. CASE LoaderLogs
  BY <1>8 DEF LoaderLogs
<1>9. CASE LoaderPauses
  <2>1. CASE Paced
    BY <1>9, <2>1, PutsOff DEF LoaderPauses
  <2>2. CASE ~Paced
    BY <1>9, <2>2 DEF LoaderPauses
  <2> QED BY <2>1, <2>2
<1>10. CASE LoaderResumes
  BY <1>10 DEF LoaderResumes
<1>11. CASE LoaderLeaves
  BY <1>11 DEF LoaderLeaves, CondwaitStop, Goto
<1>12. CASE LoaderLeft
  BY <1>12 DEF LoaderLeft
<1>13. CASE LoaderSaysBye
  BY <1>13 DEF LoaderSaysBye
<1>14. CASE Passing
  BY <1>14 DEF Passing, Tick
<1>15. CASE WokenEarly
  <2>1. wakeups' * Period = wakeups * Period + Period
    BY <1>15, OneMorePeriod DEF WokenEarly
  <2> QED BY <1>15, <2>1 DEF WokenEarly, SpuriousWakeup, Goto, Signaled, TimedOut
<1>16. CASE Waiting /\ WaitLock
  BY <1>16 DEF Waiting, WaitLock, Goto, Lock, Unlock
<1>17. CASE Waiting /\ WaitSleep
  BY <1>17 DEF Waiting, WaitSleep, Goto, Lock, Unlock
<1>18. CASE Waiting /\ WaitTimesOut
  <2>1. now >= Ticks(timeout) /\ Ticks(timeout) = started + requested
    BY <1>18 DEF WaitTimesOut, Goto, IInv, DeadlineOnSchedule
  <2> QED BY <1>18, <2>1 DEF Waiting, WaitTimesOut, Goto
<1>19. CASE Waiting /\ WaitRelock
  BY <1>19 DEF Waiting, WaitRelock, Goto, Lock, Unlock
<1>20. CASE Waiting /\ WaitUnlock
  BY <1>20 DEF Waiting, WaitUnlock, Goto, Lock, Unlock
<1>21. CASE Waiting /\ StopLock
  BY <1>21 DEF Waiting, StopLock, Goto, Lock, Unlock
<1>22. CASE Waiting /\ StopDestroy
  BY <1>22 DEF Waiting, StopDestroy, Goto
<1>23. CASE Waiting /\ StopUnlock
  BY <1>23 DEF Waiting, StopUnlock, Goto, Lock, Unlock
<1>24. CASE UNCHANGED threadVars
  BY <1>24 DEF threadVars
<1> QED
  BY <1>1, <1>2, <1>3, <1>4, <1>5, <1>6, <1>7, <1>8, <1>9, <1>10, <1>11, <1>12,
     <1>13, <1>14, <1>15, <1>16, <1>17, <1>18, <1>19, <1>20, <1>21, <1>22, <1>23,
     <1>24
  DEF ThreadNext, Loader, Waiting, Wait, Stop, ClockStops

LEMMA ThreadKeepsStopping ==
  ASSUME ThreadIInv, [ThreadNext]_threadVars
  PROVE  AfterStop'
<1>0. /\ now \in Nat /\ Ticks(timeout) \in Nat
      /\ wakeups * Period \in Nat /\ rounds \in Nat /\ wakeups \in Nat /\ Period \in Nat
      /\ stopped \in [at : Nat, rounds : Nat]
  BY Clockwork DEF ThreadIInv, ThreadTypeOK
<1> USE <1>0 DEF ThreadIInv, AfterStop, DeadlineNear, LoaderInStep, Paced, struct, ghosts,
            LoaderGoto, vars, condwait, history
<1>1. CASE ThloadStart
  BY <1>1 DEF ThloadStart
<1>2. CASE ThloadStop
  <2>1. /\ stopped'.at = now /\ stopped'.rounds = rounds
        /\ UNCHANGED <<now, timeout, wpc, lpc, run, rounds, wakeups>> /\ ~keeprunning'
    BY <1>2 DEF ThloadStop
  <2>2. wpc \in {"lock", "wait", "sleep"}
          => Ticks(timeout) <= now + wakeups * Period + Period
    <3>1. wpc \in {"lock", "wait", "sleep"} => Paced /\ lpc = "paused"
      BY DEF ThreadTypeOK
    <3> QED BY <3>1
  <2> QED BY <2>1, <2>2
<1>3. CASE ThloadJoin
  BY <1>3 DEF ThloadJoin
<1>4. CASE LoaderOpens
  BY <1>4 DEF LoaderOpens
<1>5. CASE LoaderOpenFails
  BY <1>5 DEF LoaderOpenFails
<1>6. CASE LoaderBegins
  BY <1>6 DEF LoaderBegins, CondwaitInt, Goto
<1>7. CASE LoaderTest
  BY <1>7 DEF LoaderTest
<1>8. CASE LoaderLogs
  BY <1>8 DEF LoaderLogs
<1>9. CASE LoaderPauses
  <2>1. CASE Paced
    <3>1. /\ Ticks(timeout)' = Ticks(timeout) + Period /\ lpc = "pause"
          /\ UNCHANGED <<mainpc, keeprunning, stopped, wakeups, rounds>> /\ lpc' = "paused"
      BY <1>9, <2>1, PutsOff DEF LoaderPauses
    <3>2. mainpc \in {"join", "joined"} => Ticks(timeout) <= stopped.at + wakeups * Period
      BY <2>1, <3>1
    <3> QED BY <3>1, <3>2
  <2>2. CASE ~Paced
    BY <1>9, <2>2 DEF LoaderPauses
  <2> QED BY <2>1, <2>2
<1>10. CASE LoaderResumes
  BY <1>10 DEF LoaderResumes
<1>11. CASE LoaderLeaves
  BY <1>11 DEF LoaderLeaves, CondwaitStop, Goto
<1>12. CASE LoaderLeft
  BY <1>12 DEF LoaderLeft
<1>13. CASE LoaderSaysBye
  BY <1>13 DEF LoaderSaysBye
<1>14. CASE Passing
  BY <1>14 DEF Passing, Tick
<1>15. CASE WokenEarly
  BY <1>15 DEF WokenEarly, SpuriousWakeup, Goto
<1>16. CASE Waiting /\ WaitLock
  BY <1>16 DEF Waiting, WaitLock, Goto, Lock, Unlock
<1>17. CASE Waiting /\ WaitSleep
  BY <1>17 DEF Waiting, WaitSleep, Goto, Lock, Unlock
<1>18. CASE Waiting /\ WaitTimesOut
  BY <1>18 DEF Waiting, WaitTimesOut, Goto
<1>19. CASE Waiting /\ WaitRelock
  BY <1>19 DEF Waiting, WaitRelock, Goto, Lock, Unlock
<1>20. CASE Waiting /\ WaitUnlock
  BY <1>20 DEF Waiting, WaitUnlock, Goto, Lock, Unlock
<1>21. CASE Waiting /\ StopLock
  BY <1>21 DEF Waiting, StopLock, Goto, Lock, Unlock
<1>22. CASE Waiting /\ StopDestroy
  BY <1>22 DEF Waiting, StopDestroy, Goto
<1>23. CASE Waiting /\ StopUnlock
  BY <1>23 DEF Waiting, StopUnlock, Goto, Lock, Unlock
<1>24. CASE UNCHANGED threadVars
  BY <1>24 DEF threadVars
<1> QED
  BY <1>1, <1>2, <1>3, <1>4, <1>5, <1>6, <1>7, <1>8, <1>9, <1>10, <1>11, <1>12,
     <1>13, <1>14, <1>15, <1>16, <1>17, <1>18, <1>19, <1>20, <1>21, <1>22, <1>23,
     <1>24
  DEF ThreadNext, Loader, Waiting, Wait, Stop, ClockStops

LEMMA ThreadNextIInv ==
  ASSUME ThreadIInv, [ThreadNext]_threadVars
  PROVE  ThreadIInv'
<1>1. IInv'
  BY StepOfCondwait, NextIInv DEF ThreadIInv
<1> QED
  BY <1>1, ThreadTypes, ThreadKeepsStep, ThreadKeepsNear, ThreadKeepsStopping DEF ThreadIInv

\* The thread's rounds, its deadline and the clock stay in step.
THEOREM ThreadInductive == ThreadSpec => []ThreadIInv
<1>1. ThreadIInv /\ [ThreadNext]_threadVars => ThreadIInv'
  BY ThreadNextIInv
<1> QED BY <1>1, ThreadInitIInv, PTL DEF ThreadSpec

--------------------------------------------------------------------------------
(* The theorems about LoadThread.                                          *)

\* The rounds of thload_run and thload_run1 keep to the schedule begun at
\* condwait_int, whatever was late, for any period and any number of rounds.
THEOREM OnSchedule == ThreadSpec => []RoundsOnSchedule
<1>1. ThreadIInv => RoundsOnSchedule
  BY DEF ThreadIInv, LoaderInStep, DeadlineNear, IInv, DeadlineOnSchedule, RoundsOnSchedule
<1> QED BY <1>1, ThreadInductive, PTL

\* thload_stop: at most one more round and one more period, or as many more periods
\* as waits were cut short.
THEOREM StopsSoon == ThreadSpec => []StopsWithinAPeriod
<1>1. ThreadIInv => StopsWithinAPeriod
  <2> SUFFICES ASSUME ThreadIInv PROVE StopsWithinAPeriod
    OBVIOUS
  <2>1. (wakeups + 1) * Period = wakeups * Period + Period /\ wakeups * Period \in Nat
    BY OneMorePeriod DEF ThreadIInv, ThreadTypeOK
  <2>2. stopped.at \in Nat /\ stopped.rounds \in Nat /\ rounds \in Nat /\ Period \in Nat
        /\ Ticks(timeout) \in Nat
    BY Clockwork DEF ThreadIInv, ThreadTypeOK
  <2> QED BY <2>1, <2>2 DEF ThreadIInv, AfterStop, StopsWithinAPeriod
<1> QED BY <1>1, ThreadInductive, PTL
=============================================================================
