----------------------------- MODULE SloggerRestart -----------------------------
(***************************************************************************)
(* slogger.c's queue is one static object, and nothing stops a program     *)
(* from calling slog_start again after slog_stop has returned.  This       *)
(* module adds that call to Slogger.                                       *)
(***************************************************************************)
EXTENDS Slogger

\* slog_start after slog_stop: a new logging thread over the same queue.
SlogStartAgain ==
  /\ MainGoto("stopped", "capacity")
  /\ lpc' = "fopen"
  /\ UNCHANGED <<queueVars, lifeVars, mutex, qdata, file, producerVars, history>>

RestartSpec == Init /\ [][Next \/ SlogStartAgain]_vars

\* slogger.c:205 says slog_start "Starts the logging thread and initializes the
\* log message queue": when it returns, the queue is empty and accepts messages.
StartInitializesQueue ==
  [][(mpc = "malloc" /\ mpc' = "running") => size' = 0 /\ ~shutdown']_vars
=============================================================================
