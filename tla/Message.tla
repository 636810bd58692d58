-------------------------------- MODULE Message --------------------------------
(***************************************************************************)
(* slog_message and log_message of common.c, as threads call them at the   *)
(* same time: the level, the log type, the places a message goes to, and   *)
(* the time it is stamped with.                                            *)
(*                                                                         *)
(* localtime returns one object for all threads: the call that writes it   *)
(* and the strftime that reads it are apart, and strftime reads its fields *)
(* one by one.  Two fields stand for all of them, and ticks for            *)
(* milliseconds.                                                           *)
(*                                                                         *)
(* Abstracted: the tag, the text and the colours; the three parts in which *)
(* a line is printed; what becomes of a message that pushMessage is given  *)
(* (Slogger).  Bounded: MaxTime for the clock, MaxCalls for each thread.   *)
(***************************************************************************)
EXTENDS Integers, FiniteSetsExt

CONSTANTS
  Threads,
  ConsoleLoglevel,  \* console_loglevel, which nothing changes
  Second, Minute,   \* ticks in a second, seconds in a minute
  MaxTime, MaxCalls

ASSUME MessageAssumption ==
  /\ Second \in Nat \ {0} /\ Minute \in Nat \ {0}
  /\ ConsoleLoglevel \in 0 .. 3

VARIABLES
  now,        \* the clock
  log_type,
  tm,         \* the object of localtime
  pc, calls,  \* where each thread is, and the calls it has begun
  msg,        \* the locals of its call
  sent,       \* the places its last call has sent its message to
  oldest,     \* history: when the first call began that was under way when its own did
  shared      \* history: whether another call was under way during its own

clocked == <<now, log_type, tm>>
ghosts == <<oldest, shared>>
msgVars == <<clocked, pc, calls, msg, sent, ghosts>>

Types == {"adbshell", "logcat", "serial"}
LogErr == 0
LogDebug == 3

NoMessage == [to |-> "nothing", began |-> 0, secs |-> 0, msec |-> 0, minute |-> 0, second |-> 0]

MessageInit ==
  /\ now \in 0 .. Second * Minute - 1
  /\ log_type = "adbshell" /\ tm = [minute |-> 0, second |-> 0]
  /\ pc = [t \in Threads |-> "idle"] /\ calls = [t \in Threads |-> 0]
  /\ msg = [t \in Threads |-> NoMessage] /\ sent = [t \in Threads |-> {}]
  /\ oldest = [t \in Threads |-> 0] /\ shared = [t \in Threads |-> FALSE]

--------------------------------------------------------------------------------

MessageTick == now < MaxTime /\ now' = now + 1 /\ UNCHANGED <<log_type, tm, pc, calls, msg, sent, ghosts>>

\* A word that is none of the three means the console too.
SetLogType(word) ==
  /\ log_type' = IF word \in Types THEN word ELSE "adbshell"
  /\ UNCHANGED <<now, tm, pc, calls, msg, sent, ghosts>>

MessageGoto(t, from, to) == pc[t] = from /\ pc' = [pc EXCEPT ![t] = to]

InCall(t) == pc[t] # "idle"

\* slog_message, or log_message with a file or without; a message above the
\* level goes nowhere.
CallMessage(t, level, to) ==
  LET under_way == {u \in Threads \ {t} : InCall(u)}
  IN  /\ calls[t] < MaxCalls
      /\ level <= ConsoleLoglevel
      /\ MessageGoto(t, "idle", "time")
      /\ calls' = [calls EXCEPT ![t] = @ + 1]
      /\ msg' = [msg EXCEPT ![t] = [NoMessage EXCEPT !.to = to, !.began = now]]
      /\ sent' = [sent EXCEPT ![t] = {}]
      /\ oldest' = [oldest EXCEPT ![t] = Min({now} \cup {msg[u].began : u \in under_way})]
      /\ shared' = [u \in Threads |-> IF u = t THEN under_way # {} ELSE shared[u] \/ InCall(u)]
      /\ UNCHANGED clocked

Time(t) ==
  /\ MessageGoto(t, "time", "localtime")
  /\ msg' = [msg EXCEPT ![t].secs = now \div Second]
  /\ UNCHANGED <<clocked, calls, sent, ghosts>>

\* Mutant of Localtime: the object is kept as long as the minute is the same.
LocaltimeOncePerMinute(t) ==
  /\ MessageGoto(t, "localtime", "gettimeofday")
  /\ tm' = IF msg[t].secs \div Minute = tm.minute THEN tm
           ELSE [minute |-> msg[t].secs \div Minute, second |-> msg[t].secs % Minute]
  /\ UNCHANGED <<now, log_type, calls, msg, sent, ghosts>>

Localtime(t) ==
  /\ MessageGoto(t, "localtime", "gettimeofday")
  /\ tm' = [minute |-> msg[t].secs \div Minute, second |-> msg[t].secs % Minute]
  /\ UNCHANGED <<now, log_type, calls, msg, sent, ghosts>>

\* Mutant of Gettimeofday: the milliseconds of the time at which the call began.
GettimeofdayBefore(t) ==
  /\ MessageGoto(t, "gettimeofday", "strftime")
  /\ msg' = [msg EXCEPT ![t].msec = msg[t].began % Second]
  /\ UNCHANGED <<clocked, calls, sent, ghosts>>

Gettimeofday(t) ==
  /\ MessageGoto(t, "gettimeofday", "strftime")
  /\ msg' = [msg EXCEPT ![t].msec = now % Second]
  /\ UNCHANGED <<clocked, calls, sent, ghosts>>

Strftime(t) ==
  /\ \/ MessageGoto(t, "strftime", "strftime seconds") /\ msg' = [msg EXCEPT ![t].minute = tm.minute]
     \/ MessageGoto(t, "strftime seconds", "console") /\ msg' = [msg EXCEPT ![t].second = tm.second]
  /\ UNCHANGED <<clocked, calls, sent, ghosts>>

\* The case of LOG_TYPE_LOGCAT has no break: it goes on to the console.
OnConsole(type) == type \in {"adbshell", "logcat"}

PrintLine(t) ==
  /\ MessageGoto(t, "console", "file")
  /\ sent' = [sent EXCEPT ![t] = IF OnConsole(log_type) THEN {"console"} ELSE {}]
  /\ UNCHANGED <<clocked, calls, msg, ghosts>>

\* slog_message gives the line to pushMessage, if there is memory for it;
\* log_message writes it to the file it was given, if any.
Deliver(t) ==
  /\ MessageGoto(t, "file", "idle")
  /\ \/ sent' = [sent EXCEPT ![t] = @ \cup {msg[t].to}]
     \/ msg[t].to = "queue" /\ UNCHANGED sent
  /\ msg' = [msg EXCEPT ![t] = NoMessage]
  /\ oldest' = [oldest EXCEPT ![t] = 0] /\ shared' = [shared EXCEPT ![t] = FALSE]
  /\ UNCHANGED <<clocked, calls>>

MessageNext ==
  \/ MessageTick
  \/ \E word \in Types \cup {"console"} : SetLogType(word)
  \/ \E t \in Threads :
       \/ \E level \in LogErr .. LogDebug, to \in {"queue", "file", "nothing"} :
            CallMessage(t, level, to)
       \/ Time(t) \/ Localtime(t) \/ Gettimeofday(t) \/ Strftime(t) \/ PrintLine(t) \/ Deliver(t)

MessageSpec == MessageInit /\ [][MessageNext]_msgVars

--------------------------------------------------------------------------------
(* Properties.                                                             *)

\* The stamp of a thread's message, in ticks.
Stamp(t) == (msg[t].minute * Minute + msg[t].second) * Second + msg[t].msec

Stamped(t) == pc[t] \in {"console", "file"}

\* A thread that logs alone stamps its message with a time that is never ahead of
\* the clock and less than a second behind the call, although it reads seconds
\* and milliseconds from two clocks one after the other.
LoneStampIsClose ==
  \A t \in Threads : Stamped(t) /\ ~shared[t] =>
    msg[t].began - Second < Stamp(t) /\ Stamp(t) <= now

\* Threads that log at once may take each other's time, or a part of it, but only
\* from calls that overlap: every field was true at some time since the first of
\* the calls under way began.
FieldsAreRecent ==
  \A t \in Threads : Stamped(t) =>
    \E first, second \in oldest[t] \div Second .. now \div Second :
      msg[t].minute = first \div Minute /\ msg[t].second = second % Minute

\* common.c:24 says that a message is logged "to the appropriate output based on
\* the current logging type": with logcat, or serial, not to the console.
ConsoleOnlyForAdbshell ==
  [][\A t \in Threads :
       sent'[t] # sent[t] /\ "console" \in sent'[t] \ sent[t] => log_type = "adbshell"]_msgVars
--------------------------------------------------------------------------------
(* The inductive invariant that the proofs in MessageProofs use.           *)

MessagePC == {"idle", "time", "localtime", "gettimeofday", "strftime", "strftime seconds",
              "console", "file"}

MessageTypeOK ==
  /\ now \in Nat
  /\ tm \in [minute : Nat, second : Nat]
  /\ pc \in [Threads -> MessagePC]
  /\ msg \in [Threads -> [to : {"queue", "file", "nothing"}, began : Nat, secs : Nat,
                          msec : Nat, minute : Nat, second : Nat]]
  /\ oldest \in [Threads -> Nat] /\ shared \in [Threads -> BOOLEAN]

\* The seconds since the first of the calls under way with t's own began.
Lately(t) == oldest[t] \div Second .. now \div Second

HasSecs(t)   == pc[t] \notin {"idle", "time"}
HasTm(t)     == HasSecs(t) /\ pc[t] # "localtime"
HasMsec(t)   == HasTm(t) /\ pc[t] # "gettimeofday"
HasMinute(t) == HasMsec(t) /\ pc[t] # "strftime"

\* No call that overlaps with t's began before the oldest that t knows of.
OldestKnown ==
  /\ \A t \in Threads : InCall(t) => msg[t].began <= now
  /\ \A t, u \in Threads : InCall(t) /\ InCall(u) => oldest[t] <= msg[u].began

\* So whatever localtime's object holds once t has written it was read lately.
ReadLatelyBy(t) ==
  /\ HasSecs(t) => msg[t].secs \in msg[t].began \div Second .. now \div Second
  /\ HasTm(t) => \E x \in Lately(t) : tm = [minute |-> x \div Minute, second |-> x % Minute]
  /\ HasMinute(t) => \E x \in Lately(t) : msg[t].minute = x \div Minute
  /\ Stamped(t) => \E x \in Lately(t) : msg[t].second = x % Minute

ReadLately == \A t \in Threads : ReadLatelyBy(t)

\* A thread that logs alone finds in localtime's object what it has put there, and
\* its seconds and milliseconds are of instants in that order.
ReadOwnBy(t) ==
  /\ \A u \in Threads \ {t} : ~InCall(u)
  /\ HasTm(t) => tm = [minute |-> msg[t].secs \div Minute, second |-> msg[t].secs % Minute]
  /\ HasMsec(t) => msg[t].secs * Second + msg[t].msec <= now
  /\ HasMinute(t) => msg[t].minute = msg[t].secs \div Minute
  /\ Stamped(t) => msg[t].second = msg[t].secs % Minute

ReadOwn == \A t \in Threads : InCall(t) /\ ~shared[t] => ReadOwnBy(t)

MessageIInv == MessageTypeOK /\ OldestKnown /\ ReadLately /\ ReadOwn
=============================================================================
