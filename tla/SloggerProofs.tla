----------------------------- MODULE SloggerProofs -----------------------------
(***************************************************************************)
(* Proofs about Slogger for any number of producers, any capacity and any  *)
(* number of messages.                                                     *)
(***************************************************************************)
EXTENDS Slogger, SequenceTheorems, TLAPS

--------------------------------------------------------------------------------
(* The circular queue.                                                     *)

\* An index that has run at most once around the array.
LEMMA WrapAround ==
  ASSUME NEW n \in Nat \ {0}, NEW x \in 0 .. 2 * n - 1
  PROVE  x % n = IF x < n THEN x ELSE x - n
<1>1. CASE x < n
  BY <1>1
<1>2. CASE ~(x < n)
  <2>1. x - n \in 0 .. n - 1
    BY <1>2
  <2>2. x % n = (x - n) % n
    BY <1>2
  <2> QED BY <2>1, <2>2, <1>2
<1> QED BY <1>1, <1>2

LEMMA CapacityPositive == CAPACITY \in Nat \ {0}
BY BoundsAssumption

LEMMA WrapCapacity ==
  \A x \in 0 .. 2 * CAPACITY - 1 :
    /\ x % CAPACITY \in 0 .. CAPACITY - 1
    /\ x % CAPACITY = IF x < CAPACITY THEN x ELSE x - CAPACITY
<1>1. CAPACITY \in Nat \ {0}
  BY CapacityPositive
<1>2. \A x \in 0 .. 2 * CAPACITY - 1 :
        x % CAPACITY = IF x < CAPACITY THEN x ELSE x - CAPACITY
  BY <1>1, WrapAround
<1>3. \A x \in 0 .. 2 * CAPACITY - 1 : x % CAPACITY \in 0 .. CAPACITY - 1
  BY <1>1
<1> QED BY <1>2, <1>3

\* Storing at rear appends to what the queue holds.
LEMMA RingStore ==
  ASSUME NEW S, NEW s \in [0 .. CAPACITY - 1 -> S],
         NEW f \in 0 .. CAPACITY - 1, NEW n \in 0 .. CAPACITY - 1, NEW m
  PROVE  RingOf([s EXCEPT ![(f + n) % CAPACITY] = m], f, n + 1)
           = Append(RingOf(s, f, n), m)
<1> DEFINE rear == (f + n) % CAPACITY
           at(i) == (f + i - 1) % CAPACITY
           t == [s EXCEPT ![rear] = m]
<1>1. f + n \in 0 .. 2 * CAPACITY - 1
  BY CapacityPositive
<1>2. rear \in 0 .. CAPACITY - 1 /\ rear = at(n + 1)
  BY <1>1, WrapCapacity, CapacityPositive
<1>3. ASSUME NEW i \in 1 .. n
      PROVE  at(i) \in 0 .. CAPACITY - 1 /\ at(i) # rear
  <2> DEFINE x == f + i - 1
             y == f + n
  <2>1. /\ x \in 0 .. 2 * CAPACITY - 1 /\ y \in 0 .. 2 * CAPACITY - 1
        /\ x < y /\ y - x < CAPACITY
    BY CapacityPositive
  <2> HIDE DEF x, y
  <2>2. x % CAPACITY = IF x < CAPACITY THEN x ELSE x - CAPACITY
    BY <2>1, WrapCapacity
  <2>3. y % CAPACITY = IF y < CAPACITY THEN y ELSE y - CAPACITY
    BY <2>1, WrapCapacity
  <2>4. x % CAPACITY \in 0 .. CAPACITY - 1 /\ x % CAPACITY # y % CAPACITY
    BY <2>1, <2>2, <2>3, CapacityPositive
  <2> QED BY <2>4 DEF x, y
<1> HIDE DEF at, rear
<1>4. \A i \in 1 .. n : t[at(i)] = s[at(i)]
  BY <1>3
<1>5. t[at(n + 1)] = m
  BY <1>2
<1>6. [i \in 1 .. n + 1 |-> t[at(i)]] = Append([i \in 1 .. n |-> s[at(i)]], m)
  BY <1>4, <1>5
<1> QED BY <1>6 DEF RingOf, at, rear

\* Loading at front takes the oldest element.
LEMMA RingTake ==
  ASSUME NEW S, NEW s \in [0 .. CAPACITY - 1 -> S],
         NEW f \in 0 .. CAPACITY - 1, NEW n \in 1 .. CAPACITY
  PROVE  RingOf(s, f, n) = <<s[f]>> \o RingOf(s, (f + 1) % CAPACITY, n - 1)
<1> DEFINE at(g, i) == (g + i - 1) % CAPACITY
           next == (f + 1) % CAPACITY
<1>1. f + 1 \in 0 .. 2 * CAPACITY - 1
  BY CapacityPositive
<1>2. next = IF f + 1 < CAPACITY THEN f + 1 ELSE f + 1 - CAPACITY
  BY <1>1, WrapCapacity, CapacityPositive
<1>3. ASSUME NEW i \in 1 .. n - 1
      PROVE  at(next, i) = at(f, i + 1)
  <2> DEFINE x == next + i - 1
             y == f + i
  <2> HIDE DEF next
  <2>1. /\ x \in 0 .. 2 * CAPACITY - 1 /\ y \in 0 .. 2 * CAPACITY - 1
        /\ x = IF f + 1 < CAPACITY THEN y ELSE y - CAPACITY
        /\ f + 1 < CAPACITY \/ f + 1 = CAPACITY
    BY <1>2, CapacityPositive
  <2>2. at(next, i) = x % CAPACITY
    OBVIOUS
  <2>3. at(f, i + 1) = y % CAPACITY
    <3>1. f + (i + 1) - 1 = y
      OBVIOUS
    <3> QED BY <3>1
  <2>4. y >= CAPACITY \/ f + 1 < CAPACITY
    BY CapacityPositive
  <2> HIDE DEF x, y, at
  <2>5. x % CAPACITY = IF x < CAPACITY THEN x ELSE x - CAPACITY
    BY <2>1, WrapCapacity
  <2>6. y % CAPACITY = IF y < CAPACITY THEN y ELSE y - CAPACITY
    BY <2>1, WrapCapacity
  <2> QED BY <2>1, <2>2, <2>3, <2>4, <2>5, <2>6, CapacityPositive
<1>4. at(f, 1) = f
  <2>1. f + 1 - 1 = f /\ f \in 0 .. 2 * CAPACITY - 1 /\ f < CAPACITY
    BY CapacityPositive
  <2> QED BY <2>1, WrapCapacity, CapacityPositive
<1> HIDE DEF at, next
<1>5. [i \in 1 .. n |-> s[at(f, i)]] = <<s[f]>> \o [i \in 1 .. n - 1 |-> s[at(next, i)]]
  BY <1>3, <1>4
<1> QED BY <1>5 DEF RingOf, at, next

\* What the three kinds of step do to the contents of the queue.
LEMMA RingUnchanged == UNCHANGED queueVars => Ring' = Ring
BY DEF queueVars, Ring

LEMMA RingAppends ==
  ASSUME IInv, NEW p \in Producers, EnqueueStore(p)
  PROVE  Ring' = Append(Ring, Msg(p)) /\ Msg(p) \in Message
<1>1. capacity = CAPACITY /\ size \in 0 .. CAPACITY - 1
  <2>1. ppc[p] = "store"
    BY DEF EnqueueStore, Goto
  <2> QED BY <2>1, BoundsAssumption DEF IInv, TypeOK, MainInv, ProducerInv, Full
<1>2. Ring' = RingOf([slots EXCEPT ![(front + size) % CAPACITY] = Msg(p)], front, size + 1)
  BY <1>1 DEF EnqueueStore, Ring
<1>3. Ring' = Append(Ring, Msg(p))
  BY <1>1, <1>2, RingStore DEF IInv, TypeOK, Ring
<1>4. Msg(p) \in Message
  BY DEF IInv, ProducerInv, EnqueueStore, Goto, Msg, Message
<1> QED BY <1>3, <1>4

LEMMA RingPops ==
  ASSUME IInv, DequeueTake
  PROVE  Ring = <<qdata'>> \o Ring' /\ qdata' \in Message
<1>1. capacity = CAPACITY /\ size \in 1 .. CAPACITY
  BY BoundsAssumption DEF IInv, TypeOK, MainInv, Started, DequeueTake
<1>2. Ring' = RingOf(slots, (front + 1) % CAPACITY, size - 1)
  BY <1>1 DEF DequeueTake, Ring
<1>3. Ring = <<slots[front]>> \o Ring'
  BY <1>1, <1>2, RingTake DEF IInv, TypeOK, Ring
<1>4. Ring[1] = slots[front]
  BY <1>3, <1>2 DEF RingOf
<1>5. Ring[1] \in Message
  BY <1>1 DEF IInv, RingInv, Ring, RingOf
<1> QED BY <1>3, <1>4, <1>5 DEF DequeueTake

\* Regrouping sequences of messages.
LEMMA Regroup ==
  /\ \A s, t, u \in Seq(Message) : (s \o t) \o u = s \o (t \o u)
  /\ \A s, t \in Seq(Message), m \in Message :
       Append(s \o t, m) = s \o Append(t, m)
<1>1. \A s, t, u \in Seq(Message) : (s \o t) \o u = s \o (t \o u)
  BY ConcatAssociative
<1>2. ASSUME NEW s \in Seq(Message), NEW t \in Seq(Message), NEW m \in Message
      PROVE  Append(s \o t, m) = s \o Append(t, m)
  <2>1. Append(t, m) = t \o <<m>> /\ <<m>> \in Seq(Message)
    BY AppendIsConcat
  <2>2. s \o t \in Seq(Message)
    BY ConcatProperties
  <2>3. Append(s \o t, m) = (s \o t) \o <<m>>
    BY <2>2, AppendIsConcat
  <2> QED BY <1>1, <2>1, <2>3
<1> QED BY <1>1, <1>2

LEMMA RingEmpty == /\ size = 0 => Ring = <<>>
                   /\ size' = 0 => Ring' = <<>>
BY DEF Ring, RingOf

LEMMA RingTail ==
  ASSUME IInv, DequeueTake
  PROVE  Ring' \in Seq(Message)
<1>1. Ring \in Seq(Message)
  BY DEF IInv, RingInv
<1>2. size \in 1 .. CAPACITY /\ size' = size - 1
  BY CapacityPositive DEF IInv, TypeOK, DequeueTake
<1>3. Ring' = [i \in 1 .. size - 1 |-> Ring'[i]]
  BY <1>2 DEF Ring, RingOf
<1>4. Ring = <<qdata'>> \o Ring'
  BY RingPops
<1>5. \A i \in 1 .. size - 1 : Ring'[i] = Ring[i + 1]
  BY <1>2, <1>3, <1>4
<1>6. Len(Ring) = size
  BY <1>1, <1>2 DEF Ring, RingOf
<1>7. \A i \in 1 .. size - 1 : Ring'[i] \in Message
  BY <1>1, <1>2, <1>5, <1>6
<1> QED BY <1>2, <1>3, <1>7

--------------------------------------------------------------------------------
(* Every step preserves each part of the inductive invariant.              *)

\* Mutual exclusion: the owner of the mutex can be told from where the threads are.
LEMMA LockStep == IInv /\ [Next]_vars => LockInv'
<1> SUFFICES ASSUME IInv, [Next]_vars PROVE LockInv'
  OBVIOUS
<1> USE ThreadsAssumption DEF IInv, TypeOK, LockInv, vars, queueVars, lifeVars, loggerVars, producerVars, history,
           Goto, LoggerGoto, MainGoto, Acquire, Release, Signal
<1>1. CASE SlogStartThread
  BY <1>1 DEF SlogStartThread, MainInv
<1>2. CASE SlogStartCapacity
  BY <1>2 DEF SlogStartCapacity
<1>3. CASE SlogStartMalloc
  BY <1>3 DEF SlogStartMalloc
<1>4. CASE SlogStopShutdown
  BY <1>4 DEF SlogStopShutdown
<1>5. CASE SlogStopLock
  BY <1>5 DEF SlogStopLock
<1>6. CASE SlogStopSignal
  BY <1>6 DEF SlogStopSignal
<1>7. CASE SlogStopDestroy
  BY <1>7 DEF SlogStopDestroy
<1>8. CASE SlogStopJoin
  BY <1>8 DEF SlogStopJoin
<1>9. CASE SlogStopFree
  BY <1>9 DEF SlogStopFree
<1>10. CASE LoggerOpen
  BY <1>10 DEF LoggerOpen
<1>11. CASE LoggerOpenFails
  BY <1>11 DEF LoggerOpenFails
<1>12. CASE DequeueLock
  BY <1>12 DEF DequeueLock
<1>13. CASE DequeueEmpty
  BY <1>13 DEF DequeueEmpty
<1>14. CASE DequeueWait
  BY <1>14 DEF DequeueWait
<1>15. CASE DequeueNull
  BY <1>15 DEF DequeueNull
<1>16. CASE DequeueTake
  BY <1>16 DEF DequeueTake
<1>17. CASE LoggerWrite
  BY <1>17 DEF LoggerWrite
<1>18. CASE LoggerClose
  BY <1>18 DEF LoggerClose
<1>19. CASE SpuriousWakeup
  BY <1>19 DEF SpuriousWakeup
<1>20. ASSUME NEW p \in Producers, PushMessage(p)
      PROVE  LockInv'
  BY <1>20 DEF PushMessage
<1>21. ASSUME NEW p \in Producers, PushOutOfMemory(p)
      PROVE  LockInv'
  BY <1>21 DEF PushOutOfMemory
<1>22. ASSUME NEW p \in Producers, EnqueueLock(p)
      PROVE  LockInv'
  BY <1>22 DEF EnqueueLock
<1>23. ASSUME NEW p \in Producers, EnqueueRefuse(p)
      PROVE  LockInv'
  BY <1>23 DEF EnqueueRefuse
<1>24. ASSUME NEW p \in Producers, EnqueueAdmit(p)
      PROVE  LockInv'
  BY <1>24 DEF EnqueueAdmit
<1>25. ASSUME NEW p \in Producers, EnqueueStore(p)
      PROVE  LockInv'
  BY <1>25 DEF EnqueueStore
<1>26. ASSUME NEW p \in Producers, EnqueueSignal(p)
      PROVE  LockInv'
  BY <1>26 DEF EnqueueSignal
<1>27. ASSUME NEW p \in Producers, EnqueueReport(p)
      PROVE  LockInv'
  BY <1>27 DEF EnqueueReport
<1>28. CASE UNCHANGED vars
  BY <1>28
<1> QED
  BY <1>1, <1>2, <1>3, <1>4, <1>5, <1>6, <1>7, <1>8, <1>9, <1>10,
     <1>11, <1>12, <1>13, <1>14, <1>15, <1>16, <1>17, <1>18, <1>19,
     <1>20, <1>21, <1>22, <1>23, <1>24, <1>25, <1>26, <1>27, <1>28
  DEF Next, Terminated, SlogStart, SlogStop, LoggingThread, Producer

\* What main has set up and torn down.
LEMMA MainStep == IInv /\ [Next]_vars => MainInv'
<1> SUFFICES ASSUME IInv, [Next]_vars PROVE MainInv'
  OBVIOUS
<1> USE BoundsAssumption DEF IInv, TypeOK, LockInv, MainInv, ProducerInv, Started, Exited, LoggerPC, MainPC,
           vars, queueVars, lifeVars, loggerVars, producerVars, history,
           Goto, LoggerGoto, MainGoto, Acquire, Release, Signal
<1>1. CASE SlogStartThread
  BY <1>1 DEF SlogStartThread
<1>2. CASE SlogStartCapacity
  BY <1>2 DEF SlogStartCapacity
<1>3. CASE SlogStartMalloc
  BY <1>3 DEF SlogStartMalloc
<1>4. CASE SlogStopShutdown
  BY <1>4 DEF SlogStopShutdown
<1>5. CASE SlogStopLock
  BY <1>5 DEF SlogStopLock
<1>6. CASE SlogStopSignal
  BY <1>6 DEF SlogStopSignal
<1>7. CASE SlogStopDestroy
  BY <1>7 DEF SlogStopDestroy
<1>8. CASE SlogStopJoin
  BY <1>8 DEF SlogStopJoin
<1>9. CASE SlogStopFree
  BY <1>9 DEF SlogStopFree
<1>10. CASE LoggerOpen
  BY <1>10 DEF LoggerOpen
<1>11. CASE LoggerOpenFails
  BY <1>11 DEF LoggerOpenFails
<1>12. CASE DequeueLock
  BY <1>12 DEF DequeueLock
<1>13. CASE DequeueEmpty
  BY <1>13 DEF DequeueEmpty
<1>14. CASE DequeueWait
  BY <1>14 DEF DequeueWait
<1>15. CASE DequeueNull
  BY <1>15 DEF DequeueNull
<1>16. CASE DequeueTake
  BY <1>16 DEF DequeueTake
<1>17. CASE LoggerWrite
  BY <1>17 DEF LoggerWrite
<1>18. CASE LoggerClose
  BY <1>18 DEF LoggerClose
<1>19. CASE SpuriousWakeup
  BY <1>19 DEF SpuriousWakeup
<1>20. ASSUME NEW p \in Producers, PushMessage(p)
      PROVE  MainInv'
  BY <1>20 DEF PushMessage
<1>21. ASSUME NEW p \in Producers, PushOutOfMemory(p)
      PROVE  MainInv'
  BY <1>21 DEF PushOutOfMemory
<1>22. ASSUME NEW p \in Producers, EnqueueLock(p)
      PROVE  MainInv'
  BY <1>22 DEF EnqueueLock
<1>23. ASSUME NEW p \in Producers, EnqueueRefuse(p)
      PROVE  MainInv'
  BY <1>23 DEF EnqueueRefuse
<1>24. ASSUME NEW p \in Producers, EnqueueAdmit(p)
      PROVE  MainInv'
  BY <1>24 DEF EnqueueAdmit
<1>25. ASSUME NEW p \in Producers, EnqueueStore(p)
      PROVE  MainInv'
  BY <1>25 DEF EnqueueStore
<1>26. ASSUME NEW p \in Producers, EnqueueSignal(p)
      PROVE  MainInv'
  BY <1>26 DEF EnqueueSignal
<1>27. ASSUME NEW p \in Producers, EnqueueReport(p)
      PROVE  MainInv'
  BY <1>27 DEF EnqueueReport
<1>28. CASE UNCHANGED vars
  BY <1>28
<1> QED
  BY <1>1, <1>2, <1>3, <1>4, <1>5, <1>6, <1>7, <1>8, <1>9, <1>10,
     <1>11, <1>12, <1>13, <1>14, <1>15, <1>16, <1>17, <1>18, <1>19,
     <1>20, <1>21, <1>22, <1>23, <1>24, <1>25, <1>26, <1>27, <1>28
  DEF Next, Terminated, SlogStart, SlogStop, LoggingThread, Producer

\* What the steps of other threads leave a producer inside enqueue to rely on.
LEMMA ProducerStep == IInv /\ [Next]_vars => ProducerInv'
<1> SUFFICES ASSUME IInv, [Next]_vars PROVE ProducerInv'
  OBVIOUS
<1> USE ThreadsAssumption, BoundsAssumption DEF IInv, TypeOK, LockInv, MainInv, ProducerInv, LoggerInv, Started, Full, Msg,
           vars, queueVars, lifeVars, loggerVars, producerVars, history,
           Goto, LoggerGoto, MainGoto, Acquire, Release, Signal
<1>1. CASE SlogStartThread
  BY <1>1 DEF SlogStartThread
<1>2. CASE SlogStartCapacity
  BY <1>2 DEF SlogStartCapacity
<1>3. CASE SlogStartMalloc
  BY <1>3 DEF SlogStartMalloc
<1>4. CASE SlogStopShutdown
  BY <1>4 DEF SlogStopShutdown
<1>5. CASE SlogStopLock
  BY <1>5 DEF SlogStopLock
<1>6. CASE SlogStopSignal
  BY <1>6 DEF SlogStopSignal
<1>7. CASE SlogStopDestroy
  BY <1>7 DEF SlogStopDestroy
<1>8. CASE SlogStopJoin
  BY <1>8 DEF SlogStopJoin
<1>9. CASE SlogStopFree
  BY <1>9 DEF SlogStopFree
<1>10. CASE LoggerOpen
  BY <1>10 DEF LoggerOpen
<1>11. CASE LoggerOpenFails
  BY <1>11 DEF LoggerOpenFails
<1>12. CASE DequeueLock
  BY <1>12 DEF DequeueLock
<1>13. CASE DequeueEmpty
  BY <1>13 DEF DequeueEmpty
<1>14. CASE DequeueWait
  BY <1>14 DEF DequeueWait
<1>15. CASE DequeueNull
  BY <1>15 DEF DequeueNull
<1>16. CASE DequeueTake
  BY <1>16 DEF DequeueTake
<1>17. CASE LoggerWrite
  BY <1>17 DEF LoggerWrite
<1>18. CASE LoggerClose
  BY <1>18 DEF LoggerClose
<1>19. CASE SpuriousWakeup
  BY <1>19 DEF SpuriousWakeup
<1>20. ASSUME NEW p \in Producers, PushMessage(p)
      PROVE  ProducerInv'
  BY <1>20 DEF PushMessage
<1>21. ASSUME NEW p \in Producers, PushOutOfMemory(p)
      PROVE  ProducerInv'
  BY <1>21 DEF PushOutOfMemory
<1>22. ASSUME NEW p \in Producers, EnqueueLock(p)
      PROVE  ProducerInv'
  BY <1>22 DEF EnqueueLock
<1>23. ASSUME NEW p \in Producers, EnqueueRefuse(p)
      PROVE  ProducerInv'
  BY <1>23 DEF EnqueueRefuse
<1>24. ASSUME NEW p \in Producers, EnqueueAdmit(p)
      PROVE  ProducerInv'
  BY <1>24 DEF EnqueueAdmit
<1>25. ASSUME NEW p \in Producers, EnqueueStore(p)
      PROVE  ProducerInv'
  BY <1>25 DEF EnqueueStore
<1>26. ASSUME NEW p \in Producers, EnqueueSignal(p)
      PROVE  ProducerInv'
  BY <1>26 DEF EnqueueSignal
<1>27. ASSUME NEW p \in Producers, EnqueueReport(p)
      PROVE  ProducerInv'
  BY <1>27 DEF EnqueueReport
<1>28. CASE UNCHANGED vars
  BY <1>28
<1> QED
  BY <1>1, <1>2, <1>3, <1>4, <1>5, <1>6, <1>7, <1>8, <1>9, <1>10,
     <1>11, <1>12, <1>13, <1>14, <1>15, <1>16, <1>17, <1>18, <1>19,
     <1>20, <1>21, <1>22, <1>23, <1>24, <1>25, <1>26, <1>27, <1>28
  DEF Next, Terminated, SlogStart, SlogStop, LoggingThread, Producer

\* What the logging thread may rely on, a sleeping one included.
LEMMA LoggerStep == IInv /\ [Next]_vars => LoggerInv'
<1> SUFFICES ASSUME IInv, [Next]_vars PROVE LoggerInv'
  OBVIOUS
<1> USE ThreadsAssumption DEF IInv, TypeOK, LockInv, MainInv, ProducerInv, LoggerInv, Started,
           vars, queueVars, lifeVars, loggerVars, producerVars, history,
           Goto, LoggerGoto, MainGoto, Acquire, Release, Signal
<1>1. CASE SlogStartThread
  BY <1>1 DEF SlogStartThread
<1>2. CASE SlogStartCapacity
  BY <1>2 DEF SlogStartCapacity
<1>3. CASE SlogStartMalloc
  BY <1>3 DEF SlogStartMalloc
<1>4. CASE SlogStopShutdown
  BY <1>4 DEF SlogStopShutdown
<1>5. CASE SlogStopLock
  BY <1>5 DEF SlogStopLock
<1>6. CASE SlogStopSignal
  BY <1>6 DEF SlogStopSignal
<1>7. CASE SlogStopDestroy
  BY <1>7 DEF SlogStopDestroy
<1>8. CASE SlogStopJoin
  BY <1>8 DEF SlogStopJoin
<1>9. CASE SlogStopFree
  BY <1>9 DEF SlogStopFree
<1>10. CASE LoggerOpen
  BY <1>10 DEF LoggerOpen
<1>11. CASE LoggerOpenFails
  BY <1>11 DEF LoggerOpenFails
<1>12. CASE DequeueLock
  BY <1>12 DEF DequeueLock
<1>13. CASE DequeueEmpty
  BY <1>13 DEF DequeueEmpty
<1>14. CASE DequeueWait
  BY <1>14 DEF DequeueWait
<1>15. CASE DequeueNull
  BY <1>15 DEF DequeueNull
<1>16. CASE DequeueTake
  BY <1>16, RingPops DEF DequeueTake
<1>17. CASE LoggerWrite
  BY <1>17 DEF LoggerWrite
<1>18. CASE LoggerClose
  BY <1>18 DEF LoggerClose
<1>19. CASE SpuriousWakeup
  BY <1>19 DEF SpuriousWakeup
<1>20. ASSUME NEW p \in Producers, PushMessage(p)
      PROVE  LoggerInv'
  BY <1>20 DEF PushMessage
<1>21. ASSUME NEW p \in Producers, PushOutOfMemory(p)
      PROVE  LoggerInv'
  BY <1>21 DEF PushOutOfMemory
<1>22. ASSUME NEW p \in Producers, EnqueueLock(p)
      PROVE  LoggerInv'
  BY <1>22 DEF EnqueueLock
<1>23. ASSUME NEW p \in Producers, EnqueueRefuse(p)
      PROVE  LoggerInv'
  BY <1>23 DEF EnqueueRefuse
<1>24. ASSUME NEW p \in Producers, EnqueueAdmit(p)
      PROVE  LoggerInv'
  BY <1>24 DEF EnqueueAdmit
<1>25. ASSUME NEW p \in Producers, EnqueueStore(p)
      PROVE  LoggerInv'
  BY <1>25 DEF EnqueueStore
<1>26. ASSUME NEW p \in Producers, EnqueueSignal(p)
      PROVE  LoggerInv'
  BY <1>26 DEF EnqueueSignal
<1>27. ASSUME NEW p \in Producers, EnqueueReport(p)
      PROVE  LoggerInv'
  BY <1>27 DEF EnqueueReport
<1>28. CASE UNCHANGED vars
  BY <1>28
<1> QED
  BY <1>1, <1>2, <1>3, <1>4, <1>5, <1>6, <1>7, <1>8, <1>9, <1>10,
     <1>11, <1>12, <1>13, <1>14, <1>15, <1>16, <1>17, <1>18, <1>19,
     <1>20, <1>21, <1>22, <1>23, <1>24, <1>25, <1>26, <1>27, <1>28
  DEF Next, Terminated, SlogStart, SlogStop, LoggingThread, Producer

\* No wakeup of the logging thread gets lost.
LEMMA WakeupStep == IInv /\ [Next]_vars => NoLostWakeup'
<1> SUFFICES ASSUME IInv, [Next]_vars PROVE NoLostWakeup'
  OBVIOUS
<1> USE ThreadsAssumption DEF IInv, TypeOK, LockInv, MainInv, ProducerInv, LoggerInv, NoLostWakeup, Started,
           vars, queueVars, lifeVars, loggerVars, producerVars, history,
           Goto, LoggerGoto, MainGoto, Acquire, Release, Signal
<1>1. CASE SlogStartThread
  BY <1>1 DEF SlogStartThread
<1>2. CASE SlogStartCapacity
  BY <1>2 DEF SlogStartCapacity
<1>3. CASE SlogStartMalloc
  BY <1>3 DEF SlogStartMalloc
<1>4. CASE SlogStopShutdown
  BY <1>4 DEF SlogStopShutdown
<1>5. CASE SlogStopLock
  BY <1>5 DEF SlogStopLock
<1>6. CASE SlogStopSignal
  BY <1>6 DEF SlogStopSignal
<1>7. CASE SlogStopDestroy
  BY <1>7 DEF SlogStopDestroy
<1>8. CASE SlogStopJoin
  BY <1>8 DEF SlogStopJoin
<1>9. CASE SlogStopFree
  BY <1>9 DEF SlogStopFree
<1>10. CASE LoggerOpen
  BY <1>10 DEF LoggerOpen
<1>11. CASE LoggerOpenFails
  BY <1>11 DEF LoggerOpenFails
<1>12. CASE DequeueLock
  BY <1>12 DEF DequeueLock
<1>13. CASE DequeueEmpty
  BY <1>13 DEF DequeueEmpty
<1>14. CASE DequeueWait
  BY <1>14 DEF DequeueWait, MainPC
<1>15. CASE DequeueNull
  BY <1>15 DEF DequeueNull
<1>16. CASE DequeueTake
  BY <1>16 DEF DequeueTake
<1>17. CASE LoggerWrite
  BY <1>17 DEF LoggerWrite
<1>18. CASE LoggerClose
  BY <1>18 DEF LoggerClose
<1>19. CASE SpuriousWakeup
  BY <1>19 DEF SpuriousWakeup
<1>20. ASSUME NEW p \in Producers, PushMessage(p)
      PROVE  NoLostWakeup'
  BY <1>20 DEF PushMessage
<1>21. ASSUME NEW p \in Producers, PushOutOfMemory(p)
      PROVE  NoLostWakeup'
  BY <1>21 DEF PushOutOfMemory
<1>22. ASSUME NEW p \in Producers, EnqueueLock(p)
      PROVE  NoLostWakeup'
  BY <1>22 DEF EnqueueLock
<1>23. ASSUME NEW p \in Producers, EnqueueRefuse(p)
      PROVE  NoLostWakeup'
  BY <1>23 DEF EnqueueRefuse
<1>24. ASSUME NEW p \in Producers, EnqueueAdmit(p)
      PROVE  NoLostWakeup'
  BY <1>24 DEF EnqueueAdmit
<1>25. ASSUME NEW p \in Producers, EnqueueStore(p)
      PROVE  NoLostWakeup'
  BY <1>25 DEF EnqueueStore
<1>26. ASSUME NEW p \in Producers, EnqueueSignal(p)
      PROVE  NoLostWakeup'
  BY <1>26 DEF EnqueueSignal
<1>27. ASSUME NEW p \in Producers, EnqueueReport(p)
      PROVE  NoLostWakeup'
  BY <1>27 DEF EnqueueReport
<1>28. CASE UNCHANGED vars
  BY <1>28
<1> QED
  BY <1>1, <1>2, <1>3, <1>4, <1>5, <1>6, <1>7, <1>8, <1>9, <1>10,
     <1>11, <1>12, <1>13, <1>14, <1>15, <1>16, <1>17, <1>18, <1>19,
     <1>20, <1>21, <1>22, <1>23, <1>24, <1>25, <1>26, <1>27, <1>28
  DEF Next, Terminated, SlogStart, SlogStop, LoggingThread, Producer

\* Every variable keeps its type.
LEMMA TypeStep == IInv /\ [Next]_vars => TypeOK'
<1> SUFFICES ASSUME IInv, [Next]_vars PROVE TypeOK'
  OBVIOUS
<1> USE CapacityPositive, BoundsAssumption DEF IInv, TypeOK, LockInv, MainInv, ProducerInv, LoggerInv, LoggerPC, MainPC, ProducerPC,
           vars, queueVars, lifeVars, loggerVars, producerVars, history,
           Goto, LoggerGoto, MainGoto, Acquire, Release, Signal
<1>1. CASE SlogStartThread
  BY <1>1 DEF SlogStartThread
<1>2. CASE SlogStartCapacity
  BY <1>2 DEF SlogStartCapacity
<1>3. CASE SlogStartMalloc
  BY <1>3 DEF SlogStartMalloc
<1>4. CASE SlogStopShutdown
  BY <1>4 DEF SlogStopShutdown
<1>5. CASE SlogStopLock
  BY <1>5 DEF SlogStopLock
<1>6. CASE SlogStopSignal
  BY <1>6 DEF SlogStopSignal
<1>7. CASE SlogStopDestroy
  BY <1>7 DEF SlogStopDestroy
<1>8. CASE SlogStopJoin
  BY <1>8 DEF SlogStopJoin
<1>9. CASE SlogStopFree
  BY <1>9 DEF SlogStopFree
<1>10. CASE LoggerOpen
  BY <1>10 DEF LoggerOpen
<1>11. CASE LoggerOpenFails
  BY <1>11 DEF LoggerOpenFails
<1>12. CASE DequeueLock
  BY <1>12 DEF DequeueLock
<1>13. CASE DequeueEmpty
  BY <1>13 DEF DequeueEmpty
<1>14. CASE DequeueWait
  BY <1>14 DEF DequeueWait
<1>15. CASE DequeueNull
  BY <1>15 DEF DequeueNull
<1>16. CASE DequeueTake
  <2>1. (front + 1) % CAPACITY \in 0 .. CAPACITY - 1
    BY CapacityPositive
  <2> QED BY <1>16, <2>1, RingPops DEF DequeueTake, LoggerPC, Started
<1>17. CASE LoggerWrite
  BY <1>17 DEF LoggerWrite
<1>18. CASE LoggerClose
  BY <1>18 DEF LoggerClose
<1>19. CASE SpuriousWakeup
  BY <1>19 DEF SpuriousWakeup
<1>20. ASSUME NEW p \in Producers, PushMessage(p)
      PROVE  TypeOK'
  BY <1>20 DEF PushMessage
<1>21. ASSUME NEW p \in Producers, PushOutOfMemory(p)
      PROVE  TypeOK'
  BY <1>21 DEF PushOutOfMemory
<1>22. ASSUME NEW p \in Producers, EnqueueLock(p)
      PROVE  TypeOK'
  BY <1>22 DEF EnqueueLock
<1>23. ASSUME NEW p \in Producers, EnqueueRefuse(p)
      PROVE  TypeOK'
  <2>1. Msg(p) \in Message
    BY <1>23 DEF EnqueueRefuse, Msg, Message
  <2> QED BY <1>23, <2>1 DEF EnqueueRefuse, ProducerPC
<1>24. ASSUME NEW p \in Producers, EnqueueAdmit(p)
      PROVE  TypeOK'
  BY <1>24 DEF EnqueueAdmit
<1>25. ASSUME NEW p \in Producers, EnqueueStore(p)
      PROVE  TypeOK'
  <2>1. size' \in 0 .. CAPACITY /\ (front + size) % CAPACITY \in 0 .. CAPACITY - 1
    BY <1>25, CapacityPositive DEF EnqueueStore, Full
  <2>2a. Msg(p) \in Message
    BY <1>25 DEF EnqueueStore, Msg, Message
  <2>2. Msg(p) \in Message /\ accepted' \in Seq(Message)
    BY <1>25, <2>2a DEF EnqueueStore
  <2>3. ppc' \in [Producers -> ProducerPC]
    BY <1>25 DEF EnqueueStore, ProducerPC
  <2>4. slots' \in [0 .. CAPACITY - 1 -> Message \cup {Garbage}]
    BY <1>25, <2>2 DEF EnqueueStore
  <2> QED BY <1>25, <2>1, <2>2, <2>3, <2>4 DEF EnqueueStore
<1>26. ASSUME NEW p \in Producers, EnqueueSignal(p)
      PROVE  TypeOK'
  BY <1>26 DEF EnqueueSignal
<1>27. ASSUME NEW p \in Producers, EnqueueReport(p)
      PROVE  TypeOK'
  BY <1>27 DEF EnqueueReport
<1>28. CASE UNCHANGED vars
  BY <1>28
<1> QED
  BY <1>1, <1>2, <1>3, <1>4, <1>5, <1>6, <1>7, <1>8, <1>9, <1>10,
     <1>11, <1>12, <1>13, <1>14, <1>15, <1>16, <1>17, <1>18, <1>19,
     <1>20, <1>21, <1>22, <1>23, <1>24, <1>25, <1>26, <1>27, <1>28
  DEF Next, Terminated, SlogStart, SlogStop, LoggingThread, Producer


\* The steps that change what the queue, the logging thread's hand, the file
\* or the history of stored messages hold; every other step leaves them alone.
LEMMA QuietSteps ==
  ASSUME IInv, [Next]_vars
  PROVE  \/ SlogStartMalloc \/ LoggerOpen \/ DequeueTake \/ LoggerWrite
         \/ \E p \in Producers : EnqueueStore(p)
         \/ UNCHANGED <<queueVars, accepted, file, InHand>>
<1> DEFINE Quiet == UNCHANGED <<queueVars, accepted, file, InHand>>
<1>1. \/ SlogStartThread \/ SlogStartCapacity \/ SlogStopShutdown \/ SlogStop
      \/ LoggerOpenFails \/ DequeueLock \/ DequeueEmpty \/ DequeueWait \/ DequeueNull
      \/ LoggerClose \/ SpuriousWakeup \/ UNCHANGED vars
      => Quiet
  BY DEF IInv, MainInv, vars, queueVars, lifeVars, loggerVars, producerVars, history,
         LoggerGoto, MainGoto, InHand, Signal,
         SlogStartThread, SlogStartCapacity, SlogStopShutdown, SlogStop, SlogStopLock,
         SlogStopSignal, SlogStopDestroy, SlogStopJoin, SlogStopFree,
         LoggerOpenFails, DequeueLock, DequeueEmpty, DequeueWait, DequeueNull,
         LoggerClose, SpuriousWakeup
<1>2. ASSUME NEW p \in Producers,
             \/ PushMessage(p) \/ PushOutOfMemory(p) \/ EnqueueLock(p) \/ EnqueueRefuse(p)
             \/ EnqueueAdmit(p) \/ EnqueueSignal(p) \/ EnqueueReport(p)
      PROVE  Quiet
  BY <1>2 DEF queueVars, lifeVars, loggerVars, producerVars, history,
              Goto, InHand, Signal, PushMessage, PushOutOfMemory, EnqueueLock,
              EnqueueRefuse, EnqueueAdmit, EnqueueSignal, EnqueueReport
<1> HIDE DEF Quiet
<1>3. \/ SlogStartMalloc \/ LoggerOpen \/ DequeueTake \/ LoggerWrite
      \/ \E p \in Producers : EnqueueStore(p)
      \/ Quiet
  BY <1>1, <1>2 DEF Next, Terminated, SlogStart, LoggingThread, Producer
<1> QED BY <1>3 DEF Quiet

\* The slots in use keep holding messages.
LEMMA RingStep == IInv /\ [Next]_vars => RingInv'
<1> SUFFICES ASSUME IInv, [Next]_vars PROVE RingInv'
  OBVIOUS
<1>1. CASE SlogStartMalloc
  BY <1>1, RingEmpty DEF SlogStartMalloc, IInv, MainInv, MainGoto, Started, RingInv
<1>2. CASE DequeueTake
  <2>1. Ring' \in Seq(Message)
    BY <1>2, RingTail
  <2> QED BY <2>1 DEF RingInv
<1>3. ASSUME NEW p \in Producers, EnqueueStore(p) PROVE RingInv'
  BY <1>3, RingAppends DEF IInv, RingInv
<1>4. CASE LoggerOpen \/ LoggerWrite \/ UNCHANGED <<queueVars, accepted, file, InHand>>
  BY <1>4, RingUnchanged DEF LoggerOpen, LoggerWrite, IInv, RingInv
<1> QED BY <1>1, <1>2, <1>3, <1>4, QuietSteps

\* No step loses, repeats or reorders a stored message.
LEMMA ConservationStep == IInv /\ [Next]_vars => Conservation'
<1> SUFFICES ASSUME IInv, [Next]_vars PROVE Conservation'
  OBVIOUS
<1>0. /\ accepted = file \o InHand \o Ring
      /\ accepted \in Seq(Message) /\ file \in Seq(Message)
      /\ InHand \in Seq(Message) /\ Ring \in Seq(Message)
  BY DEF IInv, TypeOK, LoggerInv, RingInv, Conservation, InHand
<1>1. CASE SlogStartMalloc
  <2>1. Ring = <<>> /\ Ring' = <<>>
    BY <1>1, RingEmpty DEF SlogStartMalloc, IInv, MainInv, MainGoto, Started
  <2>2. UNCHANGED <<accepted, file, InHand>>
    BY <1>1 DEF SlogStartMalloc, loggerVars, history, InHand
  <2> QED BY <1>0, <2>1, <2>2 DEF Conservation
<1>2. CASE LoggerOpen
  <2>1. file = <<>> /\ file' = <<>> /\ InHand = <<>> /\ InHand' = <<>>
    BY <1>2 DEF LoggerOpen, LoggerGoto, InHand, IInv, LoggerInv
  <2>2. UNCHANGED <<accepted, Ring>>
    BY <1>2, RingUnchanged DEF LoggerOpen, history
  <2> QED BY <1>0, <2>1, <2>2 DEF Conservation
<1>3. CASE DequeueTake
  <2>1. Ring = <<qdata'>> \o Ring' /\ qdata' \in Message /\ Ring' \in Seq(Message)
    BY <1>3, RingPops, RingTail
  <2>2. InHand = <<>> /\ InHand' = <<qdata'>>
    BY <1>3 DEF DequeueTake, LoggerGoto, InHand
  <2>3. UNCHANGED <<accepted, file>>
    BY <1>3 DEF DequeueTake, history
  <2> DEFINE hand == <<qdata'>>
  <2>4. file \o <<>> = file /\ hand \in Seq(Message)
    BY <1>0, <2>1, ConcatEmptySeq
  <2> HIDE DEF hand
  <2>5. file \o (hand \o Ring') = (file \o hand) \o Ring'
    <3>1. file \in Seq(Message) /\ hand \in Seq(Message) /\ Ring' \in Seq(Message)
      BY <1>0, <2>1, <2>4
    <3> QED BY <3>1, Regroup, Zenon
  <2> QED BY <1>0, <2>1, <2>2, <2>3, <2>4, <2>5 DEF Conservation, hand
<1>4. CASE LoggerWrite
  <2>1. InHand = <<qdata>> /\ InHand' = <<>> /\ qdata \in Message
    BY <1>4 DEF LoggerWrite, LoggerGoto, InHand, IInv, LoggerInv
  <2>2. UNCHANGED <<accepted, Ring>>
    BY <1>4, RingUnchanged DEF LoggerWrite, history
  <2>3. file' = file \o <<qdata>> /\ file' \in Seq(Message)
    BY <1>0, <1>4, <2>1 DEF LoggerWrite
  <2>4. file' \o <<>> = file'
    BY <2>3, ConcatEmptySeq
  <2> QED BY <1>0, <2>1, <2>2, <2>3, <2>4 DEF Conservation
<1>5. ASSUME NEW p \in Producers, EnqueueStore(p) PROVE Conservation'
  <2>1. Ring' = Append(Ring, Msg(p)) /\ Msg(p) \in Message
    BY <1>5, RingAppends
  <2>2. accepted' = Append(accepted, Msg(p)) /\ UNCHANGED <<file, InHand>>
    BY <1>5 DEF EnqueueStore, loggerVars, InHand
  <2> DEFINE written == file \o InHand
  <2>3. written \in Seq(Message)
    BY <1>0
  <2> HIDE DEF written
  <2>4. Append(written \o Ring, Msg(p)) = written \o Append(Ring, Msg(p))
    BY <1>0, <2>1, <2>3, Regroup
  <2> QED BY <1>0, <2>1, <2>2, <2>4 DEF Conservation, written
<1>6. CASE UNCHANGED <<queueVars, accepted, file, InHand>>
  BY <1>0, <1>6, RingUnchanged DEF Conservation
<1> QED BY <1>1, <1>2, <1>3, <1>4, <1>5, <1>6, QuietSteps

--------------------------------------------------------------------------------
(* The theorems.                                                           *)

\* The static initializer establishes the inductive invariant.
LEMMA InitIInv == Init => IInv
<1> SUFFICES ASSUME Init PROVE IInv
  OBVIOUS
<1> USE DEF Init
<1>1. TypeOK
  BY CapacityPositive, BoundsAssumption DEF TypeOK, LoggerPC, MainPC, ProducerPC
<1>2. LockInv
  BY ThreadsAssumption DEF LockInv
<1>3. MainInv /\ ProducerInv /\ LoggerInv /\ NoLostWakeup
  BY DEF MainInv, ProducerInv, LoggerInv, NoLostWakeup, Started
<1>4. Ring = <<>> /\ InHand = <<>>
  BY RingEmpty DEF InHand
<1>5. RingInv /\ Conservation
  BY <1>4 DEF RingInv, Conservation
<1> QED BY <1>1, <1>2, <1>3, <1>5 DEF IInv

\* The inductive invariant: it ties each thread's place in the code to the
\* owner of the mutex, to what slog_start and slog_stop have done, and to the
\* contents of the queue.  Every safety theorem below follows from it.
THEOREM Inductive == Spec => []IInv
<1>1. IInv /\ [Next]_vars => IInv'
  BY LockStep, MainStep, ProducerStep, LoggerStep, WakeupStep, TypeStep,
     RingStep, ConservationStep DEF IInv
<1> QED BY <1>1, InitIInv, PTL DEF Spec

\* Every variable of the logger keeps its type; front and size in particular
\* stay within the array.
THEOREM TypeCorrect == Spec => []TypeOK
<1>1. IInv => TypeOK
  BY DEF IInv
<1> QED BY <1>1, Inductive, PTL

\* Stored messages are in the file, in the logging thread's hand or in the
\* queue, once each and in the order enqueue stored them.
THEOREM MessagesConserved == Spec => []Conservation
<1>1. IInv => Conservation
  BY DEF IInv
<1> QED BY <1>1, Inductive, PTL

\* When slog_stop returns, everything stored is in the file unless the file
\* could not be opened.
THEOREM StopLosesNothing == Spec => []NothingLost
<1>1. IInv => NothingLost
  <2> SUFFICES ASSUME IInv, lpc = "end" PROVE file = accepted
    BY DEF NothingLost
  <2>1. size = 0 /\ InHand = <<>> /\ file \in Seq(Message)
    BY DEF IInv, TypeOK, LoggerInv, InHand
  <2>2. Ring = <<>>
    BY <2>1, RingEmpty
  <2> QED BY <2>1, <2>2, ConcatEmptySeq DEF IInv, Conservation
<1> QED BY <1>1, Inductive, PTL

\* enqueue and dequeue never touch the array outside its lifetime.
THEOREM ArrayIsLive == Spec => []DataLive
<1>1. IInv => DataLive
  BY DEF IInv, TypeOK, MainInv, ProducerInv, LoggerInv, DataLive, Started, MainPC, Exited
<1> QED BY <1>1, Inductive, PTL

\* The condition variable is never used after pthread_cond_destroy.
THEOREM CondIsLive == Spec => []CondLive
<1>1. IInv => CondLive
  BY DEF IInv, TypeOK, MainInv, ProducerInv, LoggerInv, CondLive, MainPC
<1> QED BY <1>1, Inductive, PTL

\* The logging thread never sleeps through a message or through shutdown.
THEOREM WakeupsKept == Spec => []NoLostWakeup
<1>1. IInv => NoLostWakeup
  BY DEF IInv
<1> QED BY <1>1, Inductive, PTL

\* The overflow message, decided without the mutex, is printed for overflows only.
THEOREM ReportsTruthful == Spec => []TruthfulReport
<1>1. IInv => TruthfulReport
  BY DEF IInv, ProducerInv, TruthfulReport, PrintsOverflow
<1> QED BY <1>1, Inductive, PTL

\* Nothing is stored once the logging thread has decided to leave.
THEOREM ExitFinal == Spec => ExitIsFinal
<1>1. IInv /\ [Next]_vars => [(lpc \in {"fclose", "end"}) => UNCHANGED accepted]_vars
  <2> SUFFICES ASSUME IInv, [Next]_vars, lpc \in {"fclose", "end"} PROVE UNCHANGED accepted
    OBVIOUS
  <2>1. ASSUME NEW p \in Producers, EnqueueStore(p) PROVE FALSE
    BY <2>1 DEF IInv, ProducerInv, EnqueueStore, Goto
  <2> QED
    BY <2>1, QuietSteps DEF SlogStartMalloc, LoggerOpen, DequeueTake, LoggerWrite, history
<1> QED BY <1>1, Inductive, PTL DEF Spec, ExitIsFinal

--------------------------------------------------------------------------------
(* The logger implements LogChannel.                                       *)

\* What the queue holds is as long as size says.
LEMMA RingLength == IInv => Len(Ring) = size /\ (Ring = <<>> <=> size = 0)
<1> SUFFICES ASSUME IInv PROVE Len(Ring) = size /\ (Ring = <<>> <=> size = 0)
  OBVIOUS
<1>1. size \in Nat
  BY CapacityPositive DEF IInv, TypeOK
<1>2. Ring \in Seq(Message) /\ Len(Ring) = size
  BY <1>1 DEF IInv, RingInv, Ring, RingOf
<1> QED BY <1>1, <1>2, EmptySeq

\* The static initializer is an initial state of the channel.
LEMMA RefinementInit == Init => Channel!Init
<1> SUFFICES ASSUME Init PROVE Channel!Init
  OBVIOUS
<1>1. Ring = <<>> /\ InHand = <<>>
  BY RingEmpty DEF Init, InHand
<1> QED BY <1>1 DEF Init, Channel!Init, Phase, Writer, Started

\* Every step of a producer is a step of the channel or leaves it alone.
LEMMA RefinementProducer ==
  ASSUME IInv, NEW p \in Producers,
         PushMessage(p) \/ PushOutOfMemory(p) \/ Producer(p)
  PROVE  Channel!Next \/ UNCHANGED Channel!vars
<1> DEFINE Quiet == UNCHANGED <<Ring, InHand, file, overflowed, late, Phase, Writer>>
<1>1. ASSUME \/ PushMessage(p) \/ PushOutOfMemory(p) \/ EnqueueLock(p)
             \/ EnqueueAdmit(p) \/ EnqueueReport(p)
      PROVE  Quiet
  BY <1>1, RingUnchanged
  DEF lifeVars, loggerVars, producerVars, history, InHand, Phase, Writer, Started,
      PushMessage, PushOutOfMemory, EnqueueLock, EnqueueAdmit, EnqueueReport
<1>2. ASSUME EnqueueSignal(p) PROVE Quiet
  BY <1>2, RingUnchanged
  DEF history, InHand, Phase, Writer, Started, EnqueueSignal, Signal
<1>3. ASSUME EnqueueRefuse(p) PROVE Channel!Next
  <2>1. Msg(p) \in Message
    BY <1>3 DEF IInv, ProducerInv, EnqueueRefuse, Goto, Msg, Message
  <2>2. UNCHANGED <<Ring, InHand, file, Phase, Writer>>
    BY <1>3, RingUnchanged DEF EnqueueRefuse, loggerVars, InHand, Phase, Writer, Started
  <2>3. CASE Full
    <3>1. Len(Ring) = CAPACITY
      <4>1. mpc \notin {"off", "capacity"}
        BY <1>3 DEF IInv, MainInv, Started, EnqueueRefuse, Goto
      <4> QED BY <2>3, <4>1, RingLength DEF IInv, MainInv, Full
    <3>2. Channel!Overflow(Msg(p))
      BY <1>3, <2>2, <2>3, <3>1 DEF Channel!Overflow, EnqueueRefuse
    <3> QED BY <2>1, <3>2 DEF Channel!Next
  <2>4. CASE ~Full
    <3>1. Phase \in {"closing", "closed", "gone"}
      BY <1>3, <2>4 DEF EnqueueRefuse, IInv, TypeOK, MainInv, MainPC, Phase, Started
    <3>2. Channel!TooLate(Msg(p))
      BY <1>3, <2>2, <2>4, <3>1 DEF Channel!TooLate, EnqueueRefuse
    <3> QED BY <2>1, <3>2 DEF Channel!Next
  <2> QED BY <2>3, <2>4
<1>4. ASSUME EnqueueStore(p) PROVE Channel!Next
  <2>1. Ring' = Append(Ring, Msg(p)) /\ Msg(p) \in Message
    BY <1>4, RingAppends
  <2>2. UNCHANGED <<InHand, file, overflowed, late, Phase, Writer>>
    BY <1>4 DEF EnqueueStore, loggerVars, InHand, Phase, Writer, Started
  <2>3. mpc \in {"running", "stopping"} /\ lpc \notin {"fclose", "end"} /\ size # capacity
    BY <1>4 DEF IInv, ProducerInv, EnqueueStore, Goto, Full
  <2>4. Phase \in {"open", "closing"} /\ Writer # "done"
    BY <2>3 DEF Phase, Writer, Started
  <2>5. Len(Ring) < CAPACITY
    BY <2>3, RingLength, CapacityPositive DEF IInv, TypeOK, MainInv
  <2>6. Channel!Accept(Msg(p))
    BY <2>1, <2>2, <2>4, <2>5 DEF Channel!Accept
  <2> QED BY <2>1, <2>6 DEF Channel!Next
<1> QED BY <1>1, <1>2, <1>3, <1>4 DEF Producer, Channel!vars

\* So is every step of the logging thread.
LEMMA RefinementLogger ==
  ASSUME IInv, LoggingThread \/ SpuriousWakeup
  PROVE  Channel!Next \/ UNCHANGED Channel!vars
<1> DEFINE Quiet == UNCHANGED <<Ring, InHand, file, overflowed, late, Phase, Writer>>
<1>1. ASSUME \/ DequeueLock \/ DequeueEmpty \/ DequeueWait \/ LoggerClose \/ SpuriousWakeup
      PROVE  Quiet
  BY <1>1, RingUnchanged
  DEF history, LoggerGoto, InHand, Phase, Writer, Started,
      DequeueLock, DequeueEmpty, DequeueWait, LoggerClose, SpuriousWakeup
<1>2. ASSUME LoggerOpen PROVE Channel!StartWriting
  BY <1>2, RingUnchanged
  DEF LoggerOpen, LoggerGoto, history, IInv, LoggerInv, InHand, Phase, Writer, Started,
      Channel!StartWriting
<1>3. ASSUME LoggerOpenFails PROVE Channel!GiveUp
  BY <1>3, RingUnchanged
  DEF LoggerOpenFails, LoggerGoto, history, InHand, Phase, Writer, Started, Channel!GiveUp
<1>4. ASSUME DequeueNull PROVE Channel!Finish
  <2>1. Ring = <<>>
    BY <1>4, RingEmpty DEF DequeueNull
  <2>2. Phase \in {"closing", "closed"}
    BY <1>4 DEF DequeueNull, LoggerGoto, IInv, TypeOK, MainInv, MainPC, Exited, Phase, Started
  <2> QED
    BY <1>4, <2>1, <2>2, RingUnchanged
    DEF DequeueNull, LoggerGoto, history, InHand, Phase, Writer, Started, Channel!Finish
<1>5. ASSUME DequeueTake PROVE Channel!Fetch
  <2>1. Ring = <<qdata'>> \o Ring' /\ qdata' \in Message /\ Ring' \in Seq(Message)
    BY <1>5, RingPops, RingTail
  <2>2. Ring # <<>> /\ Head(Ring) = qdata' /\ Tail(Ring) = Ring'
    BY <2>1
  <2>3. /\ Writer = "alive" /\ Writer' = "alive"
        /\ InHand = <<>> /\ InHand' = <<qdata'>>
    BY <1>5 DEF DequeueTake, LoggerGoto, InHand, Writer
  <2>4. UNCHANGED <<file, overflowed, late, Phase>>
    BY <1>5 DEF DequeueTake, history, Phase, Started
  <2> QED BY <2>2, <2>3, <2>4 DEF Channel!Fetch
<1>6. ASSUME LoggerWrite PROVE Channel!Write
  <2>1. InHand = <<qdata>> /\ InHand' = <<>> /\ qdata \in Message
    BY <1>6 DEF LoggerWrite, LoggerGoto, InHand, IInv, LoggerInv
  <2>2. file' = file \o <<qdata>>
    BY <1>6, <2>1 DEF LoggerWrite, IInv, TypeOK
  <2>3. UNCHANGED <<Ring, overflowed, late, Phase, Writer>>
    BY <1>6, RingUnchanged DEF LoggerWrite, LoggerGoto, history, Phase, Writer, Started
  <2> QED BY <2>1, <2>2, <2>3 DEF Channel!Write
<1> QED
  BY <1>1, <1>2, <1>3, <1>4, <1>5, <1>6 DEF LoggingThread, Channel!Next, Channel!vars

\* And every step of the main thread.
LEMMA RefinementMain ==
  ASSUME IInv, SlogStart \/ SlogStopShutdown \/ SlogStop
  PROVE  Channel!Next \/ UNCHANGED Channel!vars
<1> DEFINE Quiet == UNCHANGED <<Ring, InHand, file, overflowed, late, Phase, Writer>>
<1>1. ASSUME SlogStartThread \/ SlogStartCapacity PROVE Quiet
  BY <1>1, RingUnchanged
  DEF SlogStartThread, SlogStartCapacity, MainGoto, IInv, MainInv, history, loggerVars,
      InHand, Phase, Writer, Started
<1>2. ASSUME SlogStartMalloc PROVE Channel!Open
  <2>1. Ring = <<>> /\ Ring' = <<>>
    BY <1>2, RingEmpty DEF SlogStartMalloc, IInv, MainInv, MainGoto, Started
  <2> QED
    BY <1>2, <2>1
    DEF SlogStartMalloc, MainGoto, history, loggerVars, InHand, Phase, Writer, Started,
        Channel!Open
<1>3. ASSUME SlogStopShutdown PROVE Channel!Close
  BY <1>3, RingUnchanged
  DEF SlogStopShutdown, MainGoto, history, loggerVars, InHand, Phase, Writer, Started,
      Channel!Close
<1>4. ASSUME SlogStopLock PROVE Channel!Seal
  BY <1>4, RingUnchanged
  DEF SlogStopLock, MainGoto, history, loggerVars, InHand, Phase, Writer, Started,
      Channel!Seal
<1>5. ASSUME SlogStopSignal \/ SlogStopDestroy \/ SlogStopJoin PROVE Quiet
  BY <1>5, RingUnchanged
  DEF SlogStopSignal, Signal, SlogStopDestroy, SlogStopJoin, MainGoto, history, loggerVars,
      InHand, Phase, Writer, Started
<1>6. ASSUME SlogStopFree PROVE Channel!Retire
  BY <1>6, RingUnchanged
  DEF SlogStopFree, MainGoto, history, loggerVars, IInv, MainInv, Exited,
      InHand, Phase, Writer, Started, Channel!Retire
<1> QED
  BY <1>1, <1>2, <1>3, <1>4, <1>5, <1>6 DEF SlogStart, SlogStop, Channel!Next, Channel!vars

\* The threads, the mutex, the condition variable and the circular queue
\* together implement a bounded first-in first-out channel to the log file.
THEOREM Refinement == Spec => ImplementsChannel
<1>1. IInv /\ [Next]_vars => [Channel!Next]_(Channel!vars)
  <2> SUFFICES ASSUME IInv, [Next]_vars
               PROVE  Channel!Next \/ UNCHANGED Channel!vars
    OBVIOUS
  <2>1. CASE UNCHANGED vars
    BY <2>1, RingUnchanged
    DEF vars, queueVars, loggerVars, history, InHand, Phase, Writer, Started, Channel!vars
  <2> QED
    BY <2>1, RefinementProducer, RefinementLogger, RefinementMain DEF Next, Terminated
<1> QED BY <1>1, RefinementInit, Inductive, PTL DEF Spec, Channel!Spec, ImplementsChannel
================================================================================
