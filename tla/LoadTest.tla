-------------------------------- MODULE LoadTest --------------------------------
(***************************************************************************)
(* The program of main.c: main starts the logger of Slogger.tla, logs,     *)
(* starts the load threads of threadload.c, waits, stops and joins them,   *)
(* logs again and stops the logger.  Every behaviour of it is one of       *)
(* Slogger in which the producers are the load threads and main itself.    *)
(*                                                                         *)
(* The timed waits are those of Condwait.tla, of which only this matters   *)
(* here: each returns, and main's may be cut short by a signal.            *)
(*                                                                         *)
(* Abstracted: what is logged; the formatting of slog_message, whose own   *)
(* malloc fails like pushMessage's; the log file of a load thread, which   *)
(* thload_run does not write.  main.c uses thload_run; close_thread_log is *)
(* never reached from it.  Bounded: MaxMsgs, from Slogger.                 *)
(***************************************************************************)
EXTENDS Slogger

CONSTANTS
  Loaders,   \* the load threads (NOOFTHREADLOAD of them)
  Caller     \* main, as a caller of slog_message

ASSUME LoadTestAssumption ==
  /\ Caller \notin Loaders
  /\ Producers = Loaders \cup {Caller}
  /\ MaxMsgs >= 3   \* main logs three messages

VARIABLES
  step,         \* where main is
  keeprunning,  \* the flag of each ThLoader
  tpc,          \* where each load thread is
  undefined     \* whether a load thread used a FILE that it could not open

loadVars == <<step, keeprunning, tpc, undefined>>
allVars  == <<vars, loadVars>>

Step == {"start", "started", "validated", "loaders", "wait", "stop", "join",
             "ended", "close", "exit"}
LoaderPC == {"none", "open", "test", "log", "wait", "bye", "close", "ended"}

LoadTypeOK ==
  /\ TypeOK
  /\ step \in Step
  /\ keeprunning \in [Loaders -> BOOLEAN]
  /\ tpc \in [Loaders -> LoaderPC]
  /\ undefined \in BOOLEAN

LoadInit ==
  /\ Init
  /\ step = "start"
  /\ keeprunning = [l \in Loaders |-> FALSE]
  /\ tpc = [l \in Loaders |-> "none"]
  /\ undefined = FALSE

\* One call of slog_message has returned, and another may begin.
SlogMessage(p) == ppc[p] = "idle" /\ (PushMessage(p) \/ PushOutOfMemory(p))

Returned(p) == ppc[p] = "idle"

--------------------------------------------------------------------------------
(* main.                                                                   *)

MainAt(from, to) == ~undefined /\ step = from /\ step' = to

MainStartsSlogger ==
  /\ SlogStart
  /\ MainAt("start", IF mpc' = "running" THEN "started" ELSE "start")
  /\ UNCHANGED <<keeprunning, tpc, undefined>>

\* "GPU001 started", "Gear and lanes ..." and, at the end, "GPU001 ended".
MainLogs ==
  /\ \/ MainAt("started", "validated")
     \/ MainAt("validated", IF Loaders = {} THEN "wait" ELSE "loaders")
     \/ MainAt("ended", "close")
  /\ SlogMessage(Caller)
  /\ UNCHANGED <<keeprunning, tpc, undefined>>

\* The loaders are alike, so that the order in which they are started or
\* stopped is left open.
ThloadStart(l) ==
  /\ Returned(Caller)
  /\ tpc[l] = "none"
  /\ keeprunning' = [keeprunning EXCEPT ![l] = TRUE]
  /\ tpc' = [tpc EXCEPT ![l] = "open"]
  /\ MainAt("loaders", IF \E k \in Loaders \ {l} : tpc[k] = "none" THEN "loaders" ELSE "wait")
  /\ UNCHANGED <<vars, undefined>>

\* Five seconds, or until SIGINT or SIGTSTP.
MainWait ==
  /\ Returned(Caller)
  /\ MainAt("wait", IF Loaders = {} THEN "ended" ELSE "stop")
  /\ UNCHANGED <<vars, keeprunning, tpc, undefined>>

ThloadStop(l) ==
  /\ keeprunning[l]
  /\ keeprunning' = [keeprunning EXCEPT ![l] = FALSE]
  /\ MainAt("stop", "join")
  /\ UNCHANGED <<vars, tpc, undefined>>

\* Mutant of ThloadJoin: thload_stop only clears the flag.
ThloadNoJoin ==
  /\ MainAt("join", IF \E k \in Loaders : keeprunning[k] THEN "stop" ELSE "ended")
  /\ UNCHANGED <<vars, keeprunning, tpc, undefined>>

\* Only the loader being stopped has its flag cleared and may still run.
ThloadJoin ==
  /\ \A l \in Loaders : ~keeprunning[l] => tpc[l] = "ended"
  /\ MainAt("join", IF \E k \in Loaders : keeprunning[k] THEN "stop" ELSE "ended")
  /\ UNCHANGED <<vars, keeprunning, tpc, undefined>>

MainStopsSlogger ==
  /\ Returned(Caller)
  /\ SlogStopShutdown \/ SlogStop
  /\ MainAt("close", IF mpc' = "stopped" THEN "exit" ELSE "close")
  /\ UNCHANGED <<keeprunning, tpc, undefined>>

MainThread ==
  \/ MainStartsSlogger \/ MainLogs \/ MainWait \/ ThloadJoin \/ MainStopsSlogger
  \/ \E l \in Loaders : ThloadStart(l) \/ ThloadStop(l)

--------------------------------------------------------------------------------
(* load_thread and thload_run.                                             *)

LoaderGoto(l, from, to) ==
  /\ ~undefined
  /\ tpc[l] = from
  /\ tpc' = [tpc EXCEPT ![l] = to]
  /\ UNCHANGED <<step, keeprunning>>

LoaderOpens(l) ==
  /\ LoaderGoto(l, "open", "test")
  /\ UNCHANGED <<vars, undefined>>

\* The thread's own log file cannot be opened: it returns at once.
LoaderOpenFails(l) ==
  /\ LoaderGoto(l, "open", "ended")
  /\ UNCHANGED <<vars, undefined>>

\* The thermal statistics cannot be opened: setvbuf of NULL.
LoaderNoDevice(l) ==
  /\ LoaderGoto(l, "open", "ended")
  /\ undefined' = TRUE
  /\ UNCHANGED vars

\* Another round, which the bound on messages may put off, or the end.
LoaderTest(l) ==
  /\ keeprunning[l] => offered[l] + 1 < MaxMsgs
  /\ LoaderGoto(l, "test", IF keeprunning[l] THEN "log" ELSE "bye")
  /\ UNCHANGED <<vars, undefined>>

LoaderLogs(l) ==
  /\ LoaderGoto(l, "log", "wait")
  /\ SlogMessage(l)
  /\ UNCHANGED undefined

LoaderWaits(l) ==
  /\ Returned(l)
  /\ LoaderGoto(l, "wait", "test")
  /\ UNCHANGED <<vars, undefined>>

\* "End of thread".
LoaderSaysBye(l) ==
  /\ LoaderGoto(l, "bye", "close")
  /\ SlogMessage(l)
  /\ UNCHANGED undefined

LoaderEnds(l) ==
  /\ Returned(l)
  /\ LoaderGoto(l, "close", "ended")
  /\ UNCHANGED <<vars, undefined>>

LoadThread(l) ==
  \/ LoaderOpens(l) \/ LoaderOpenFails(l) \/ LoaderNoDevice(l)
  \/ LoaderTest(l) \/ LoaderLogs(l) \/ LoaderWaits(l)
  \/ LoaderSaysBye(l) \/ LoaderEnds(l)

--------------------------------------------------------------------------------

\* The threads inside slogger.c.
Logging ==
  /\ ~undefined
  /\ LoggingThread \/ SpuriousWakeup \/ \E p \in Producers : Producer(p)
  /\ UNCHANGED loadVars

\* The process is gone.
Exit ==
  /\ undefined \/ step = "exit"
  /\ UNCHANGED allVars

LoadNext ==
  \/ MainThread
  \/ \E l \in Loaders : LoadThread(l)
  \/ Logging
  \/ Exit

LoadSpec == LoadInit /\ [][LoadNext]_allVars

(* Every thread that can run does, and every timed wait ends.  The mutex   *)
(* is not promised to the thread that has waited longest, so that nothing  *)
(* weaker than strong fairness gets a thread into it past a logging thread *)
(* that wakes up spuriously over and over.                                 *)
LoadFairness ==
  /\ WF_allVars(MainThread)
  /\ \A l \in Loaders : WF_allVars(LoadThread(l))
  /\ WF_allVars(~undefined /\ LoggingThread /\ UNCHANGED loadVars)
  /\ \A p \in Producers :
       /\ WF_allVars(~undefined /\ Producer(p) /\ UNCHANGED loadVars)
       /\ SF_allVars(~undefined /\ EnqueueLock(p) /\ UNCHANGED loadVars)

FairLoadSpec == LoadSpec /\ LoadFairness

--------------------------------------------------------------------------------
(* Properties.                                                             *)

\* Nothing that this program logs is refused because the logger is being shut
\* down: the threads that log are joined first.
NothingLate == late = {}

\* "GPU001 ended" is the last line of the log, unless it was refused or there
\* was no memory for it.
EndedIsLast ==
  \A i \in DOMAIN accepted : accepted[i] = <<Caller, 3>> => i = Len(accepted)

\* When main has come to its end, every message that any thread sent is in the
\* file or was refused for lack of room, if no allocation failed.
AccountedFor ==
  ~MayFail /\ step = "exit" =>
    \A p \in Producers : \A i \in 1 .. offered[p] :
      <<p, i>> \in overflowed \/ \E k \in DOMAIN file : file[k] = <<p, i>>

\* main comes to its end: the joins return, and so does slog_stop.
MainExits == <>(step = "exit" \/ undefined)

--------------------------------------------------------------------------------
(* The inductive invariant that the proofs in LoadTestProofs use, on top   *)
(* of Slogger's own.                                                       *)

LoadersEnded == \A l \in Loaders : tpc[l] = "ended"

\* How far main has got with the logger, and how many messages it has sent.
StepInv ==
  /\ step = "start" => mpc \in {"off", "capacity", "malloc"} /\ offered[Caller] = 0
  /\ step \in {"started", "validated", "loaders", "wait", "stop", "join", "ended"}
       => mpc = "running"
  /\ step = "close" => mpc \notin {"off", "capacity", "malloc", "stopped"}
  /\ step = "exit" => mpc = "stopped"
  /\ step = "started" => offered[Caller] = 0
  /\ step = "validated" => offered[Caller] = 1
  /\ step \in {"loaders", "wait", "stop", "join", "ended"} => offered[Caller] = 2

\* A load thread is inside slog_message only where it logs, and main leaves it
\* behind only when it has ended.
LoaderInv ==
  /\ \A l \in Loaders : tpc[l] \notin {"wait", "close"} => ppc[l] = "idle"
  /\ step \in {"ended", "close", "exit"} => LoadersEnded

\* Nobody is inside slog_message once shutdown is set.
QuietInv ==
  /\ shutdown => \A p \in Producers : ppc[p] = "idle"
  /\ NothingLate

\* main's last message is stored by main's last call.
LastInv ==
  (\E i \in DOMAIN accepted : accepted[i] = <<Caller, 3>>)
    => step \in {"close", "exit"} /\ ppc[Caller] \in {"signal", "idle"}

LoadIInv == LoadTypeOK /\ StepInv /\ LoaderInv /\ QuietInv /\ LastInv /\ EndedIsLast

\* Where a message that was sent is, unless an allocation has failed: refused,
\* stored, or still with the thread that sends it, as its last one.
Placed(p, i) ==
  \/ <<p, i>> \in overflowed \cup late
  \/ \E k \in DOMAIN accepted : accepted[k] = <<p, i>>
  \/ i = offered[p] /\ ppc[p] \in {"lock", "locked", "store"}

PlacedInv ==
  ~MayFail => lpc # "failed" /\ \A p \in Producers : \A i \in 1 .. offered[p] : Placed(p, i)
=============================================================================
