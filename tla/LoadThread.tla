------------------------------- MODULE LoadThread -------------------------------
(***************************************************************************)
(* One load thread of threadload.c in time: thload_start and thload_stop,  *)
(* load_thread and its three loops.  thload_run and thload_run1 pace       *)
(* themselves with a Condwait of their own, that of Condwait.tla, which    *)
(* nobody signals; thload_run_notused sleeps, for a time that is not       *)
(* modelled.                                                               *)
(*                                                                         *)
(* Abstracted: what is logged, and where: LoadTest has the queue behind    *)
(* slog_message; a file of the thread's own, which it has if its ThLoader  *)
(* names one or is clubbed, is known by whether it could be opened.  The   *)
(* thermal statistics can be opened: LoadTest has the failure.             *)
(* Bounded: MaxRounds; MaxWakeups, for the waits cut short.                *)
(***************************************************************************)
EXTENDS Condwait

CONSTANTS
  Period,      \* ticks from round to round
  MaxRounds,   \* bound
  MaxWakeups   \* bound

ASSUME LoadThreadAssumption == Period \in Nat \ {0} /\ <<0, Period>> \in Timeouts

VARIABLES
  run,          \* the loop of this ThLoader
  keeprunning,  \* struct ThLoader
  mainpc, lpc,  \* the caller of thload_start and thload_stop, and the thread
  rounds,       \* messages logged
  wakeups,      \* history: waits that ended before their deadline
  stopped       \* history: when the flag was cleared, and the rounds by then

struct == <<run, keeprunning>>
ghosts == <<rounds, wakeups, stopped>>
threadVars == <<vars, struct, mainpc, lpc, ghosts>>

ThreadInit ==
  /\ Init
  /\ run \in {"thload_run", "thload_run1", "thload_run_notused"}
  /\ keeprunning = FALSE
  /\ mainpc = "start" /\ lpc = "none"
  /\ rounds = 0 /\ wakeups = 0 /\ stopped = [at |-> 0, rounds |-> 0]

Paced == run # "thload_run_notused"

--------------------------------------------------------------------------------
(* thload_start and thload_stop.                                           *)

ThloadStart ==
  /\ mainpc = "start" /\ mainpc' = "running"
  /\ keeprunning' = TRUE
  /\ lpc' = "open"
  /\ UNCHANGED <<vars, run, ghosts>>

ThloadStop ==
  /\ mainpc = "running" /\ mainpc' = "join"
  /\ keeprunning' = FALSE
  /\ stopped' = [at |-> now, rounds |-> rounds]
  /\ UNCHANGED <<vars, run, lpc, rounds, wakeups>>

ThloadJoin ==
  /\ mainpc = "join" /\ mainpc' = "joined"
  /\ lpc = "ended"
  /\ UNCHANGED <<vars, struct, lpc, ghosts>>

--------------------------------------------------------------------------------
(* load_thread.                                                            *)

LoaderGoto(from, to) == lpc = from /\ lpc' = to

LoaderOpens ==
  /\ LoaderGoto("open", "init")
  /\ UNCHANGED <<vars, struct, mainpc, ghosts>>

\* A thread with a file of its own returns at once.
LoaderOpenFails ==
  /\ LoaderGoto("open", "ended")
  /\ UNCHANGED <<vars, struct, mainpc, ghosts>>

\* The last message, and the file is closed.
LoaderSaysBye ==
  /\ LoaderGoto("bye", "ended")
  /\ UNCHANGED <<vars, struct, mainpc, ghosts>>

--------------------------------------------------------------------------------
(* thload_run, thload_run1 and thload_run_notused.                         *)

LoaderBegins ==
  /\ LoaderGoto("init", "test")
  /\ IF Paced THEN CondwaitInt ELSE UNCHANGED vars
  /\ UNCHANGED <<struct, mainpc, ghosts>>

\* A round is within the bounds on rounds and on the clock.
Room == rounds < MaxRounds /\ (Paced => Ticks(timeout) + Period <= MaxTime)

LoaderTest ==
  /\ keeprunning => Room
  /\ LoaderGoto("test", IF keeprunning THEN "log" ELSE "leave")
  /\ UNCHANGED <<vars, struct, mainpc, ghosts>>

\* To its own file, or to the logger.
LoaderLogs ==
  /\ LoaderGoto("log", "pause")
  /\ rounds' = rounds + 1
  /\ UNCHANGED <<vars, struct, mainpc, wakeups, stopped>>

LoaderPauses ==
  /\ LoaderGoto("pause", "paused")
  /\ IF Paced THEN CondwaitWait(0, Period) ELSE UNCHANGED vars
  /\ UNCHANGED <<struct, mainpc, ghosts>>

LoaderResumes ==
  /\ Paced => wpc = "idle"
  /\ LoaderGoto("paused", "test")
  /\ UNCHANGED <<vars, struct, mainpc, ghosts>>

LoaderLeaves ==
  /\ LoaderGoto("leave", IF Paced THEN "leaving" ELSE "bye")
  /\ IF Paced THEN CondwaitStop ELSE UNCHANGED vars
  /\ UNCHANGED <<struct, mainpc, ghosts>>

LoaderLeft ==
  /\ wpc = "stopped"
  /\ LoaderGoto("leaving", "bye")
  /\ UNCHANGED <<vars, struct, mainpc, ghosts>>

Loader ==
  \/ LoaderOpens \/ LoaderOpenFails \/ LoaderBegins
  \/ LoaderTest \/ LoaderLogs \/ LoaderPauses \/ LoaderResumes
  \/ LoaderLeaves \/ LoaderLeft \/ LoaderSaysBye

--------------------------------------------------------------------------------

\* Inside condwait.c, and the clock.
Waiting == (Wait \/ Stop) /\ UNCHANGED <<struct, mainpc, lpc, ghosts>>

Passing == Tick /\ UNCHANGED <<struct, mainpc, lpc, ghosts>>

WokenEarly ==
  /\ SpuriousWakeup
  /\ wakeups < MaxWakeups
  /\ wakeups' = wakeups + 1
  /\ UNCHANGED <<struct, mainpc, lpc, rounds, stopped>>

\* The clock has come to its bound.
ClockStops == now = MaxTime /\ UNCHANGED threadVars

ThreadNext ==
  \/ ThloadStart \/ ThloadStop \/ ThloadJoin
  \/ Loader \/ Waiting \/ Passing \/ WokenEarly
  \/ ClockStops

ThreadSpec == ThreadInit /\ [][ThreadNext]_threadVars

--------------------------------------------------------------------------------
(* Properties.                                                             *)

\* Rounds keep to the schedule begun at condwait_int.  A round that was late or
\* woken early does not shift those after it, and one that follows a timeout
\* comes no sooner than all the periods before it add up to.
RoundsOnSchedule ==
  Paced /\ lpc \in {"test", "log"} =>
    /\ Ticks(timeout) = started + rounds * Period
    /\ rounds > 0 /\ result = TimedOut => now >= started + rounds * Period

\* A thread that was told to stop logs at most once more and is not put to sleep
\* past one period from then; each wait that was cut short before may have put
\* off that moment by another period, as its deadline still counts.
StopsWithinAPeriod ==
  mainpc \in {"join", "joined"} =>
    /\ rounds <= stopped.rounds + 1
    /\ wpc \in {"lock", "wait", "sleep"}
         => Ticks(timeout) <= stopped.at + (wakeups + 1) * Period
--------------------------------------------------------------------------------
(* The inductive invariant that the proofs in LoadThreadProofs use; IInv is *)
(* that of Condwait.                                                       *)

ThreadTypeOK ==
  /\ run \in {"thload_run", "thload_run1", "thload_run_notused"}
  /\ keeprunning \in BOOLEAN
  /\ mainpc \in {"start", "running", "join", "joined"}
  /\ lpc \in {"none", "open", "init", "test", "log", "pause", "paused", "leave",
              "leaving", "bye", "ended"}
  /\ rounds \in Nat /\ wakeups \in Nat
  /\ stopped \in [at : Nat, rounds : Nat]

\* Where the thread is tells where it is in condwait.c, and how many of its rounds
\* its Condwait knows of.
LoaderInStep ==
  /\ ~Paced => wpc = "off"
  /\ Paced =>
       /\ lpc \in {"none", "open", "init"} => wpc = "off"
       /\ lpc \in {"test", "log", "pause", "leave"} => wpc = "idle"
       /\ lpc = "paused" => wpc \in {"lock", "wait", "sleep", "relock", "unlock", "idle"}
       /\ lpc \in {"leaving", "bye", "ended"}
            => wpc \in {"off", "stop", "destroy", "leave", "stopped"}
  /\ lpc \in {"none", "open", "init"} => rounds = 0
  /\ mainpc = "start" <=> lpc = "none"
  /\ Paced /\ lpc \in {"test", "log", "paused"} => requested = rounds * Period
  /\ Paced /\ lpc = "pause" => requested + Period = rounds * Period

\* The deadline is ahead of the clock by at most a period for each wait that was
\* cut short, and by the period of the wait under way; one that a timeout ended
\* has come.
DeadlineNear ==
  Paced =>
    /\ lpc \in {"test", "log", "pause"} => Ticks(timeout) <= now + wakeups * Period
    /\ lpc = "paused" =>
         Ticks(timeout) <= now + wakeups * Period
                           + (IF wpc \in {"lock", "wait", "sleep"} THEN Period ELSE 0)
    /\ /\ lpc \in {"test", "log"} \/ (lpc = "paused" /\ wpc \in {"relock", "unlock", "idle"})
       /\ rounds > 0 /\ result = TimedOut
       => now >= started + requested

\* What is left to do after the flag was cleared.
AfterStop ==
  mainpc \in {"join", "joined"} =>
    /\ ~keeprunning
    /\ rounds = stopped.rounds \/ (rounds = stopped.rounds + 1 /\ lpc # "log")
    /\ Paced /\ lpc \in {"log", "pause"} => Ticks(timeout) <= stopped.at + wakeups * Period
    /\ wpc \in {"lock", "wait", "sleep"}
         => Ticks(timeout) <= stopped.at + wakeups * Period + Period

ThreadIInv ==
  /\ IInv /\ ThreadTypeOK
  /\ LoaderInStep /\ DeadlineNear /\ AfterStop
=============================================================================
