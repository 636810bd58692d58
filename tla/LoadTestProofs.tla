---------------------------- MODULE LoadTestProofs ----------------------------
(***************************************************************************)
(* Proofs about LoadTest for any number of load threads.  That every       *)
(* behaviour of the program is one of Slogger brings in what is proved in  *)
(* SloggerProofs.                                                          *)
(***************************************************************************)
EXTENDS LoadTest, SloggerProofs

--------------------------------------------------------------------------------
(* Steps of the program are steps of the logger.                           *)

LEMMA Threads == Caller \in Producers /\ Loaders \subseteq Producers
BY LoadTestAssumption

LEMMA StepsOfSlogger == [LoadNext]_allVars => [Next]_vars
<1> SUFFICES ASSUME [LoadNext]_allVars PROVE [Next]_vars
  OBVIOUS
<1>1. CASE MainThread
  <2>1. CASE MainStartsSlogger \/ MainStopsSlogger
    BY <2>1 DEF MainStartsSlogger, MainStopsSlogger, Next
  <2>2. CASE MainLogs
    BY <2>2, Threads DEF MainLogs, SlogMessage, Next
  <2>3. CASE MainWait \/ ThloadJoin \/ \E l \in Loaders : ThloadStart(l) \/ ThloadStop(l)
    BY <2>3 DEF MainWait, ThloadJoin, ThloadStart, ThloadStop
  <2> QED BY <1>1, <2>1, <2>2, <2>3 DEF MainThread
<1>2. ASSUME NEW l \in Loaders, LoadThread(l) PROVE [Next]_vars
  <2>1. CASE LoaderLogs(l) \/ LoaderSaysBye(l)
    BY <2>1, Threads DEF LoaderLogs, LoaderSaysBye, SlogMessage, Next
  <2>2. CASE ~(LoaderLogs(l) \/ LoaderSaysBye(l))
    BY <1>2, <2>2 DEF LoadThread, LoaderOpens, LoaderOpenFails, LoaderNoDevice,
       LoaderTest, LoaderWaits, LoaderEnds
  <2> QED BY <2>1, <2>2
<1>3. CASE Logging
  BY <1>3 DEF Logging, Next
<1>4. CASE Exit \/ UNCHANGED allVars
  BY <1>4 DEF Exit, allVars
<1> QED BY <1>1, <1>2, <1>3, <1>4 DEF LoadNext

\* Every behaviour of the program is one of the logger, with the load threads
\* and main as its producers: main and thload_stop keep to slogger.c's protocol.
THEOREM ProgramUsesSlogger == LoadSpec => Spec
<1>1. LoadInit => Init
  BY DEF LoadInit
<1> QED BY <1>1, StepsOfSlogger, PTL DEF LoadSpec, Spec

--------------------------------------------------------------------------------
(* What the parts of a step leave alone.                                   *)

\* A call of slog_message begins.
LEMMA CallSteps ==
  ASSUME NEW p \in Producers, SlogMessage(p), TypeOK
  PROVE  /\ \A q \in Producers : q # p => ppc'[q] = ppc[q] /\ offered'[q] = offered[q]
         /\ offered'[p] = offered[p] + 1
         /\ ppc'[p] \in {"idle", "lock"}
         /\ UNCHANGED <<mpc, shutdown, accepted, late>>
BY DEF SlogMessage, PushMessage, PushOutOfMemory, Goto, TypeOK, lifeVars, history

\* The threads inside slogger.c go on.
LEMMA LoggingSteps ==
  ASSUME Logging, TypeOK
  PROVE  /\ UNCHANGED <<mpc, shutdown, offered>>
         /\ \A q \in Producers : ppc[q] = "idle" => ppc'[q] = "idle"
         /\ \A q \in Producers : ppc[q] = "signal" => ppc'[q] \in {"signal", "idle"}
         /\ \/ UNCHANGED accepted
            \/ \E q \in Producers : /\ ppc[q] = "store"
                                    /\ ppc' = [ppc EXCEPT ![q] = "signal"]
                                    /\ accepted' = Append(accepted, Msg(q))
         /\ late' # late => shutdown /\ \E q \in Producers : ppc[q] = "locked"
<1>1. CASE LoggingThread \/ SpuriousWakeup
  BY <1>1 DEF LoggingThread, SpuriousWakeup, LoggerOpen, LoggerOpenFails, DequeueLock,
     DequeueEmpty, DequeueWait, DequeueNull, DequeueTake, LoggerWrite, LoggerClose,
     lifeVars, producerVars, history
<1>2. ASSUME NEW p \in Producers, Producer(p)
      PROVE  /\ UNCHANGED <<mpc, shutdown, offered>>
             /\ \A q \in Producers : ppc[q] = "idle" => ppc'[q] = "idle"
             /\ \A q \in Producers : ppc[q] = "signal" => ppc'[q] \in {"signal", "idle"}
             /\ \/ UNCHANGED accepted
                \/ /\ ppc[p] = "store"
                   /\ ppc' = [ppc EXCEPT ![p] = "signal"]
                   /\ accepted' = Append(accepted, Msg(p))
             /\ late' # late => shutdown /\ ppc[p] = "locked"
  <2>1. CASE EnqueueLock(p) \/ EnqueueAdmit(p) \/ EnqueueSignal(p) \/ EnqueueReport(p)
    BY <2>1 DEF EnqueueLock, EnqueueAdmit, EnqueueSignal, EnqueueReport, Goto, TypeOK,
       lifeVars, history
  <2>2. CASE EnqueueRefuse(p)
    BY <2>2 DEF EnqueueRefuse, Goto, TypeOK, lifeVars
  <2>3. CASE EnqueueStore(p)
    BY <2>3 DEF EnqueueStore, Goto, TypeOK, lifeVars
  <2> QED BY <1>2, <2>1, <2>2, <2>3 DEF Producer
<1> QED BY <1>1, <1>2 DEF Logging

--------------------------------------------------------------------------------
(* The invariant.                                                          *)

LEMMA LoadInit_LoadIInv == LoadInit => LoadIInv
<1> SUFFICES ASSUME LoadInit PROVE LoadIInv
  OBVIOUS
<1>1. Init /\ TypeOK
  BY InitIInv DEF LoadInit, IInv
<1>2. LoadTypeOK
  BY <1>1 DEF LoadInit, LoadTypeOK, Step, LoaderPC
<1>3. StepInv /\ LoaderInv /\ QuietInv /\ LastInv /\ EndedIsLast
  BY <1>1, Threads DEF LoadInit, Init, StepInv, LoaderInv, QuietInv, NothingLate, LastInv, EndedIsLast
<1> QED BY <1>2, <1>3 DEF LoadIInv

LEMMA LoadTypeStep == LoadIInv /\ TypeOK' /\ [LoadNext]_allVars => LoadTypeOK'
<1> SUFFICES ASSUME LoadIInv, TypeOK', [LoadNext]_allVars PROVE LoadTypeOK'
  OBVIOUS
<1> USE DEF LoadIInv, LoadTypeOK
<1>1. CASE MainThread
  BY <1>1 DEF MainThread, MainAt, Step, LoaderPC, MainStartsSlogger, MainLogs, ThloadStart,
     MainWait, ThloadStop, ThloadJoin, MainStopsSlogger
<1>2. ASSUME NEW l \in Loaders, LoadThread(l) PROVE LoadTypeOK'
  BY <1>2 DEF LoadThread, LoaderGoto, LoaderPC, LoaderOpens, LoaderOpenFails, LoaderNoDevice,
     LoaderTest, LoaderLogs, LoaderWaits, LoaderSaysBye, LoaderEnds
<1>3. CASE Logging \/ Exit \/ UNCHANGED allVars
  BY <1>3 DEF Logging, Exit, allVars, loadVars
<1> QED BY <1>1, <1>2, <1>3 DEF LoadNext

LEMMA StepInvStep == LoadIInv /\ [LoadNext]_allVars => StepInv'
<1> SUFFICES ASSUME LoadIInv, [LoadNext]_allVars PROVE StepInv'
  OBVIOUS
<1> USE Threads DEF LoadIInv, LoadTypeOK, StepInv
<1>1. CASE MainThread
  <2>1. CASE MainStartsSlogger
    BY <2>1 DEF MainStartsSlogger, MainAt, SlogStart, SlogStartThread, SlogStartCapacity,
       SlogStartMalloc, MainGoto, producerVars
  <2>2. CASE MainLogs
    BY <2>2, CallSteps DEF MainLogs, MainAt
  <2>3. CASE MainWait \/ ThloadJoin \/ \E l \in Loaders : ThloadStart(l) \/ ThloadStop(l)
    BY <2>3 DEF MainWait, ThloadJoin, ThloadStart, ThloadStop, MainAt, vars, producerVars
  <2>4. CASE MainStopsSlogger
    BY <2>4 DEF MainStopsSlogger, MainAt, SlogStopShutdown, SlogStop, SlogStopLock,
       SlogStopSignal, SlogStopDestroy, SlogStopJoin, SlogStopFree, MainGoto
  <2> QED BY <1>1, <2>1, <2>2, <2>3, <2>4 DEF MainThread
<1>2. ASSUME NEW l \in Loaders, LoadThread(l) PROVE StepInv'
  <2>1. Caller # l
    BY LoadTestAssumption
  <2>2. UNCHANGED step
    BY <1>2 DEF LoadThread, LoaderGoto, LoaderOpens, LoaderOpenFails, LoaderNoDevice,
       LoaderTest, LoaderLogs, LoaderWaits, LoaderSaysBye, LoaderEnds
  <2>3. UNCHANGED <<mpc, offered[Caller]>>
    <3>1. CASE LoaderLogs(l) \/ LoaderSaysBye(l)
      BY <3>1, <2>1, CallSteps DEF LoaderLogs, LoaderSaysBye
    <3>2. CASE ~(LoaderLogs(l) \/ LoaderSaysBye(l))
      BY <1>2, <3>2 DEF LoadThread, LoaderOpens, LoaderOpenFails, LoaderNoDevice,
         LoaderTest, LoaderWaits, LoaderEnds, vars, producerVars
    <3> QED BY <3>1, <3>2
  <2> QED BY <2>2, <2>3
<1>3. CASE Logging
  BY <1>3, LoggingSteps DEF Logging, loadVars
<1>4. CASE Exit \/ UNCHANGED allVars
  BY <1>4 DEF Exit, allVars, loadVars, vars, producerVars
<1> QED BY <1>1, <1>2, <1>3, <1>4 DEF LoadNext

LEMMA LoaderInvStep == LoadIInv /\ [LoadNext]_allVars => LoaderInv'
<1> SUFFICES ASSUME LoadIInv, [LoadNext]_allVars PROVE LoaderInv'
  OBVIOUS
<1> USE Threads, LoadTestAssumption DEF LoadIInv, LoadTypeOK, LoaderInv, LoadersEnded
<1>1. CASE MainThread
  <2>1. CASE MainStartsSlogger
    BY <2>1 DEF MainStartsSlogger, MainAt, SlogStart, SlogStartThread, SlogStartCapacity,
       SlogStartMalloc, producerVars
  <2>2. CASE MainLogs
    BY <2>2, CallSteps DEF MainLogs, MainAt
  <2>3. CASE MainWait \/ \E l \in Loaders : ThloadStart(l) \/ ThloadStop(l)
    BY <2>3 DEF MainWait, ThloadStart, ThloadStop, MainAt, vars, producerVars
  <2>4. CASE ThloadJoin
    BY <2>4 DEF ThloadJoin, MainAt, vars, producerVars
  <2>5. CASE MainStopsSlogger
    BY <2>5 DEF MainStopsSlogger, MainAt, SlogStopShutdown, SlogStop, SlogStopLock,
       SlogStopSignal, SlogStopDestroy, SlogStopJoin, SlogStopFree, producerVars
  <2> QED BY <1>1, <2>1, <2>2, <2>3, <2>4, <2>5 DEF MainThread
<1>2. ASSUME NEW l \in Loaders, LoadThread(l) PROVE LoaderInv'
  <2>1. CASE LoaderLogs(l) \/ LoaderSaysBye(l)
    BY <2>1, CallSteps DEF LoaderLogs, LoaderSaysBye, LoaderGoto
  <2>2. CASE ~(LoaderLogs(l) \/ LoaderSaysBye(l))
    BY <1>2, <2>2 DEF LoadThread, LoaderGoto, LoaderOpens, LoaderOpenFails, LoaderNoDevice,
       LoaderTest, LoaderWaits, LoaderEnds, Returned, vars, producerVars
  <2> QED BY <2>1, <2>2
<1>3. CASE Logging
  BY <1>3, LoggingSteps DEF Logging, loadVars
<1>4. CASE Exit \/ UNCHANGED allVars
  BY <1>4 DEF Exit, allVars, loadVars, vars, producerVars
<1> QED BY <1>1, <1>2, <1>3, <1>4 DEF LoadNext

\* Once main has sent its last message only the logger still moves.
LEMMA OnlyLoggerMoves ==
  ASSUME LoadIInv, [LoadNext]_allVars, step \in {"close", "exit"}
  PROVE  /\ MainStopsSlogger \/ Logging \/ UNCHANGED allVars
         /\ \A l \in Loaders : ppc[l] = "idle"
         /\ step' \in {"close", "exit"}
<1>1. /\ \A l \in Loaders : tpc[l] = "ended"
      /\ \A l \in Loaders : ppc[l] = "idle"
  BY DEF LoadIInv, LoaderInv, LoadersEnded
<1>2. ASSUME NEW l \in Loaders, LoadThread(l) PROVE FALSE
  BY <1>1, <1>2 DEF LoadThread, LoaderGoto, LoaderOpens, LoaderOpenFails, LoaderNoDevice,
     LoaderTest, LoaderLogs, LoaderWaits, LoaderSaysBye, LoaderEnds
<1>3. MainThread => MainStopsSlogger
  BY DEF MainThread, MainAt, MainStartsSlogger, MainLogs, ThloadStart, MainWait, ThloadStop,
     ThloadJoin
<1>4. MainStopsSlogger \/ Logging \/ UNCHANGED allVars
  BY <1>2, <1>3 DEF LoadNext, Exit
<1>5. step' \in {"close", "exit"}
  BY <1>4 DEF MainStopsSlogger, MainAt, Logging, allVars, loadVars
<1> QED BY <1>1, <1>4, <1>5

LEMMA QuietInvStep == LoadIInv /\ MainInv /\ [LoadNext]_allVars => QuietInv'
<1> SUFFICES ASSUME LoadIInv, MainInv, [LoadNext]_allVars PROVE QuietInv'
  OBVIOUS
<1>0. LoadTypeOK /\ StepInv /\ LoaderInv /\ QuietInv /\ TypeOK
  BY DEF LoadIInv, LoadTypeOK
<1>1. CASE step \in {"close", "exit"}
  <2>1. CASE MainStopsSlogger
    <3>1. \A p \in Producers : ppc[p] = "idle"
      BY <1>1, <2>1, OnlyLoggerMoves, LoadTestAssumption DEF MainStopsSlogger, Returned
    <3> QED BY <1>0, <2>1, <3>1 DEF MainStopsSlogger, SlogStopShutdown, SlogStop, SlogStopLock,
       SlogStopSignal, SlogStopDestroy, SlogStopJoin, SlogStopFree, producerVars, history,
       QuietInv, NothingLate
  <2>2. CASE Logging
    BY <1>0, <2>2, LoggingSteps DEF QuietInv, NothingLate
  <2>3. CASE UNCHANGED allVars
    BY <1>0, <2>3 DEF QuietInv, NothingLate, allVars, vars, lifeVars, producerVars, history
  <2> QED BY <1>1, <2>1, <2>2, <2>3, OnlyLoggerMoves
<1>2. CASE step \notin {"close", "exit"}
  <2>1. ~shutdown
    BY <1>0, <1>2 DEF LoadTypeOK, Step, StepInv, MainInv, Started
  <2>2. ~MainStopsSlogger
    BY <1>2 DEF MainStopsSlogger, MainAt
  <2>3. UNCHANGED <<shutdown, late>>
    <3>1. CASE MainThread
      BY <1>0, <2>2, <3>1, CallSteps, Threads DEF MainThread, MainStartsSlogger, MainLogs, ThloadStart,
         MainWait, ThloadStop, ThloadJoin, SlogStart, SlogStartThread, SlogStartCapacity,
         SlogStartMalloc, vars, lifeVars, history
    <3>2. ASSUME NEW l \in Loaders, LoadThread(l) PROVE UNCHANGED <<shutdown, late>>
      BY <1>0, <3>2, CallSteps, Threads DEF LoadThread, LoaderOpens, LoaderOpenFails, LoaderNoDevice,
         LoaderTest, LoaderLogs, LoaderWaits, LoaderSaysBye, LoaderEnds, vars, lifeVars, history
    <3>3. CASE Logging
      BY <1>0, <2>1, <3>3, LoggingSteps
    <3> QED BY <3>1, <3>2, <3>3 DEF LoadNext, Exit, allVars, vars, lifeVars, history
  <2> QED BY <1>0, <2>1, <2>3 DEF QuietInv, NothingLate
<1> QED BY <1>1, <1>2

\* Either no message is stored, or one is, by a thread that is in enqueue.
LEMMA Stores ==
  ASSUME LoadIInv, [LoadNext]_allVars
  PROVE  UNCHANGED accepted \/ Logging
<1>0. TypeOK
  BY DEF LoadIInv, LoadTypeOK
<1>1. CASE MainThread
  BY <1>0, <1>1, CallSteps, Threads DEF MainThread, MainStartsSlogger, MainLogs, ThloadStart,
     MainWait, ThloadStop, ThloadJoin, MainStopsSlogger, SlogStart, SlogStartThread,
     SlogStartCapacity, SlogStartMalloc, SlogStopShutdown, SlogStop, SlogStopLock, SlogStopSignal,
     SlogStopDestroy, SlogStopJoin, SlogStopFree, vars, history
<1>2. ASSUME NEW l \in Loaders, LoadThread(l) PROVE UNCHANGED accepted
  BY <1>0, <1>2, CallSteps, Threads DEF LoadThread, LoaderOpens, LoaderOpenFails, LoaderNoDevice,
     LoaderTest, LoaderLogs, LoaderWaits, LoaderSaysBye, LoaderEnds, vars, history
<1> QED BY <1>1, <1>2 DEF LoadNext, Exit, allVars, vars, history

LEMMA LastInvStep == LoadIInv /\ [LoadNext]_allVars => LastInv' /\ EndedIsLast'
<1> SUFFICES ASSUME LoadIInv, [LoadNext]_allVars PROVE LastInv' /\ EndedIsLast'
  OBVIOUS
<1>0. LoadTypeOK /\ TypeOK /\ StepInv /\ LastInv /\ EndedIsLast
  BY DEF LoadIInv, LoadTypeOK
<1> DEFINE Sent == \E i \in DOMAIN accepted : accepted[i] = <<Caller, 3>>
<1>1. CASE UNCHANGED accepted
  <2>1. EndedIsLast'
    BY <1>0, <1>1 DEF EndedIsLast
  <2>2. CASE Sent
    <3>1. step \in {"close", "exit"} /\ ppc[Caller] \in {"signal", "idle"}
      BY <1>0, <2>2 DEF LastInv
    <3>2. ppc'[Caller] \in {"signal", "idle"}
      <4>1. CASE MainStopsSlogger
        BY <3>1, <4>1 DEF MainStopsSlogger, SlogStopShutdown, SlogStop, SlogStopLock,
           SlogStopSignal, SlogStopDestroy, SlogStopJoin, SlogStopFree, producerVars
      <4>2. CASE Logging
        BY <1>0, <3>1, <4>2, LoggingSteps, Threads
      <4>3. CASE UNCHANGED allVars
        BY <3>1, <4>3 DEF allVars, vars, producerVars
      <4> QED BY <3>1, <4>1, <4>2, <4>3, OnlyLoggerMoves
    <3> QED BY <2>1, <3>1, <3>2, OnlyLoggerMoves DEF LastInv
  <2>3. CASE ~Sent
    BY <1>1, <2>1, <2>3 DEF LastInv
  <2> QED BY <2>2, <2>3
<1>2. CASE Logging /\ accepted' # accepted
  <2>1. PICK q \in Producers : /\ ppc[q] = "store"
                               /\ ppc' = [ppc EXCEPT ![q] = "signal"]
                               /\ accepted' = Append(accepted, Msg(q))
    BY <1>0, <1>2, LoggingSteps
  <2>2. ~Sent
    <3>1. SUFFICES ASSUME Sent PROVE FALSE
      OBVIOUS
    <3>2. step \in {"close", "exit"} /\ ppc[Caller] # "store"
      BY <1>0, <3>1 DEF LastInv
    <3> QED BY <2>1, <3>2, OnlyLoggerMoves, LoadTestAssumption
  <2>3. /\ accepted \in Seq(Message)
        /\ DOMAIN accepted' = 1 .. Len(accepted) + 1
        /\ Len(accepted') = Len(accepted) + 1
        /\ \A i \in 1 .. Len(accepted) : accepted'[i] = accepted[i]
        /\ accepted'[Len(accepted) + 1] = Msg(q)
    BY <1>0, <2>1 DEF TypeOK
  <2>4. ASSUME NEW i \in DOMAIN accepted', accepted'[i] = <<Caller, 3>>
        PROVE  i = Len(accepted') /\ Msg(q) = <<Caller, 3>>
    <3>1. Len(accepted) \in Nat /\ DOMAIN accepted = 1 .. Len(accepted)
      BY <2>3
    <3>2. i \notin 1 .. Len(accepted)
      BY <2>2, <2>3, <2>4, <3>1
    <3> HIDE DEF Sent
    <3>3. i = Len(accepted) + 1
      BY <2>3, <2>4, <3>1, <3>2
    <3> QED BY <2>3, <2>4, <3>3
  <2>5. EndedIsLast'
    BY <2>4 DEF EndedIsLast
  <2>6. ASSUME Msg(q) = <<Caller, 3>>
        PROVE  step' \in {"close", "exit"} /\ ppc'[Caller] = "signal"
    <3>1. q = Caller /\ offered[Caller] = 3
      BY <2>6 DEF Msg
    <3>2. step \in {"close", "exit"}
      BY <1>0, <3>1 DEF LoadTypeOK, Step, StepInv
    <3> QED BY <1>0, <2>1, <3>1, <3>2, OnlyLoggerMoves, Threads DEF TypeOK
  <2> QED BY <2>4, <2>5, <2>6 DEF LastInv
<1> QED BY <1>1, <1>2, Stores

--------------------------------------------------------------------------------
(* Theorems.                                                               *)

\* The conjunction is inductive relative to Slogger's own invariant, which the
\* program has because its behaviours are behaviours of Slogger.
THEOREM LoadInductive == LoadSpec => []LoadIInv
<1>1. LoadIInv /\ IInv /\ IInv' /\ [LoadNext]_allVars => LoadIInv'
  <2>1. IInv => MainInv /\ TypeOK
    BY DEF IInv
  <2>2. IInv' => TypeOK'
    BY DEF IInv
  <2> QED BY <2>1, <2>2, LoadTypeStep, StepInvStep, LoaderInvStep, QuietInvStep, LastInvStep
          DEF LoadIInv
<1> QED BY <1>1, LoadInit_LoadIInv, ProgramUsesSlogger, Inductive, PTL DEF LoadSpec

\* Whatever the number of load threads, none of their messages, and none of
\* main's, meets a logger that is being shut down.
THEOREM NeverLate == LoadSpec => []NothingLate
<1>1. LoadIInv => NothingLate
  BY DEF LoadIInv, QuietInv
<1> QED BY <1>1, LoadInductive, PTL

\* "GPU001 ended" is the last message the logger ever accepts.
THEOREM LastWord == LoadSpec => []EndedIsLast
<1>1. LoadIInv => EndedIsLast
  BY DEF LoadIInv
<1> QED BY <1>1, LoadInductive, PTL

\* What slogger.c promises holds of the program: when slog_stop has returned,
\* every accepted message of every thread is in the file.
THEOREM ProgramLosesNothing == LoadSpec => []NothingLost
BY ProgramUsesSlogger, StopLosesNothing, PTL

--------------------------------------------------------------------------------
(* Every message is accounted for.                                         *)

\* A step after which every message is where it was, or further on.
LEMMA PlacedKept ==
  ASSUME PlacedInv, lpc' # "failed", offered' = offered,
         overflowed \subseteq overflowed', late \subseteq late',
         \A k \in DOMAIN accepted : k \in DOMAIN accepted' /\ accepted'[k] = accepted[k],
         \A p \in Producers : ppc[p] \in {"lock", "locked", "store"} =>
            \/ ppc'[p] \in {"lock", "locked", "store"}
            \/ Msg(p) \in overflowed' \cup late'
            \/ \E k \in DOMAIN accepted' : accepted'[k] = Msg(p)
  PROVE  PlacedInv'
<1> SUFFICES ASSUME ~MayFail, NEW p \in Producers, NEW i \in 1 .. offered[p] PROVE Placed(p, i)'
  BY DEF PlacedInv
<1>1. Placed(p, i)
  BY DEF PlacedInv
<1>2. CASE <<p, i>> \in overflowed \cup late
  BY <1>2 DEF Placed
<1>3. CASE \E k \in DOMAIN accepted : accepted[k] = <<p, i>>
  BY <1>3 DEF Placed
<1>4. CASE i = offered[p] /\ ppc[p] \in {"lock", "locked", "store"}
  BY <1>4 DEF Placed, Msg
<1> QED BY <1>1, <1>2, <1>3, <1>4 DEF Placed

LEMMA PlacedStep == TypeOK /\ PlacedInv /\ [Next]_vars => PlacedInv'
<1> SUFFICES ASSUME TypeOK, PlacedInv, ~MayFail, [Next]_vars PROVE PlacedInv'
  BY DEF PlacedInv
<1>0. lpc # "failed"
  BY DEF PlacedInv
<1>1. CASE SlogStart \/ SlogStopShutdown \/ SlogStop \/ Terminated \/ UNCHANGED vars
  <2>1. lpc' # "failed" /\ UNCHANGED <<ppc, offered, accepted, overflowed, late>>
    BY <1>0, <1>1 DEF SlogStart, SlogStartThread, SlogStartCapacity, SlogStartMalloc,
       SlogStopShutdown, SlogStop, SlogStopLock, SlogStopSignal, SlogStopDestroy, SlogStopJoin,
       SlogStopFree, Terminated, Signal, vars, loggerVars, producerVars, history
  <2> QED BY <2>1, PlacedKept
<1>2. CASE LoggingThread \/ SpuriousWakeup
  <2>1. lpc' # "failed" /\ UNCHANGED <<ppc, offered, accepted, overflowed, late>>
    BY <1>0, <1>2 DEF LoggingThread, SpuriousWakeup, LoggerOpen, LoggerOpenFails, DequeueLock,
       DequeueEmpty, DequeueWait, DequeueNull, DequeueTake, LoggerWrite, LoggerClose, LoggerGoto,
       producerVars, history
  <2> QED BY <2>1, PlacedKept
<1>3. ASSUME NEW q \in Producers, PushMessage(q) PROVE PlacedInv'
  <2>1. /\ offered'[q] = offered[q] + 1 /\ ppc[q] = "idle" /\ ppc'[q] = "lock"
        /\ \A p \in Producers \ {q} : offered'[p] = offered[p] /\ ppc'[p] = ppc[p]
        /\ UNCHANGED <<lpc, accepted, overflowed, late>>
    BY <1>3 DEF PushMessage, Goto, TypeOK, loggerVars, history
  <2>2. ASSUME NEW p \in Producers, NEW i \in 1 .. offered'[p] PROVE Placed(p, i)'
    <3>1. CASE p = q /\ i = offered'[q]
      BY <2>1, <3>1 DEF Placed
    <3>2. CASE ~(p = q /\ i = offered'[q])
      <4>1. i \in 1 .. offered[p]
        BY <2>1, <3>2 DEF TypeOK
      <4>2. Placed(p, i)
        BY <4>1 DEF PlacedInv
      <4> QED BY <2>1, <4>2 DEF Placed
    <3> QED BY <3>1, <3>2
  <2> QED BY <1>0, <2>1, <2>2 DEF PlacedInv
<1>4. ASSUME NEW q \in Producers, PushOutOfMemory(q) PROVE PlacedInv'
  BY <1>4 DEF PushOutOfMemory
<1>5. ASSUME NEW q \in Producers,
             EnqueueLock(q) \/ EnqueueAdmit(q) \/ EnqueueSignal(q) \/ EnqueueReport(q)
      PROVE  PlacedInv'
  <2>1. /\ lpc' # "failed" /\ UNCHANGED <<offered, accepted, overflowed, late>>
        /\ \A p \in Producers : ppc[p] \in {"lock", "locked", "store"} =>
             ppc'[p] \in {"lock", "locked", "store"}
    BY <1>0, <1>5 DEF EnqueueLock, EnqueueAdmit, EnqueueSignal, EnqueueReport, Goto, TypeOK,
       Signal, loggerVars, history
  <2> QED BY <2>1, PlacedKept
<1>6. ASSUME NEW q \in Producers, EnqueueRefuse(q) PROVE PlacedInv'
  <2>1. /\ lpc' # "failed" /\ UNCHANGED <<offered, accepted>>
        /\ overflowed \subseteq overflowed' /\ late \subseteq late'
        /\ Msg(q) \in overflowed' \cup late'
        /\ \A p \in Producers \ {q} : ppc'[p] = ppc[p]
    BY <1>0, <1>6 DEF EnqueueRefuse, Goto, TypeOK, loggerVars
  <2> QED BY <2>1, PlacedKept
<1>7. ASSUME NEW q \in Producers, EnqueueStore(q) PROVE PlacedInv'
  <2>1. /\ lpc' # "failed" /\ UNCHANGED <<offered, overflowed, late>>
        /\ accepted' = Append(accepted, Msg(q)) /\ accepted \in Seq(Message)
        /\ \A p \in Producers \ {q} : ppc'[p] = ppc[p]
    BY <1>0, <1>7 DEF EnqueueStore, Goto, TypeOK, loggerVars
  <2>2. /\ \A k \in DOMAIN accepted : k \in DOMAIN accepted' /\ accepted'[k] = accepted[k]
        /\ \E k \in DOMAIN accepted' : accepted'[k] = Msg(q)
    BY <2>1
  <2> QED BY <2>1, <2>2, PlacedKept
<1> QED BY <1>1, <1>2, <1>3, <1>4, <1>5, <1>6, <1>7 DEF Next, Producer

\* Unless an allocation fails, no message that any thread ever sends goes astray:
\* it is refused, stored, or still with its sender.
THEOREM NothingAstray == Spec => []PlacedInv
<1>1. Init => PlacedInv
  BY DEF Init, PlacedInv
<1>2. IInv => TypeOK
  BY DEF IInv
<1> QED BY <1>1, <1>2, PlacedStep, Inductive, PTL DEF Spec

\* When main has come to its end, whatever the number of load threads, every
\* message that any thread sent is in the file or was refused for lack of room.
THEOREM AllAccountedFor == LoadSpec => []AccountedFor
<1>1. LoadIInv /\ IInv /\ PlacedInv /\ NothingLost => AccountedFor
  <2> SUFFICES ASSUME LoadIInv, IInv, PlacedInv, NothingLost, ~MayFail, step = "exit",
                      NEW p \in Producers, NEW i \in 1 .. offered[p]
               PROVE  <<p, i>> \in overflowed \/ \E k \in DOMAIN file : file[k] = <<p, i>>
    BY DEF AccountedFor
  <2>1. mpc = "stopped"
    BY DEF LoadIInv, StepInv
  <2>2. lpc = "end" /\ shutdown
    BY <2>1 DEF IInv, MainInv, Exited, Started, PlacedInv
  <2>3. file = accepted
    BY <2>1, <2>2 DEF NothingLost
  <2>4. ppc[p] = "idle" /\ late = {}
    BY <2>2 DEF LoadIInv, QuietInv, NothingLate
  <2>5. Placed(p, i)
    BY DEF PlacedInv
  <2> QED BY <2>3, <2>4, <2>5 DEF Placed
<1> QED BY <1>1, LoadInductive, Inductive, NothingAstray, ProgramUsesSlogger, ProgramLosesNothing, PTL
=============================================================================
