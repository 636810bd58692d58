---------------------------------- MODULE Exec ----------------------------------
(***************************************************************************)
(* A command run in the background by spwan.c: the thread that calls       *)
(* exec_start and exec_stop, the reader thread (load_exec and exec_run)    *)
(* that copies the command's output to a log file, and the child.          *)
(*                                                                         *)
(* The FILE fp belongs to both threads: exec_stop closes it while the      *)
(* reader may be about to use it.  Using it after that is undefined, and   *)
(* so is the fwrite of -1 bytes that follows a failed read; nothing is     *)
(* said about the parent afterwards.                                       *)
(*                                                                         *)
(* Abstracted: what is copied.  The log is known by what it lacks of the    *)
(* child's output, and is the stream thread_log, which fclose flushes.     *)
(* fork, pipe, pthread_create and the writes to the log succeed.           *)
(***************************************************************************)
EXTENDS Spawn

VARIABLES
  blocking,     \* struct Exec
  keeprunning,
  fp,
  mpc, status,  \* the caller of exec_start and exec_stop, and waitpid's status
  rpc,          \* the reader thread
  undefined,    \* whether the reader used fp after it was closed
  held,         \* pieces the reader has got and not handed to the log
  missing,      \* pieces the child has written and the log lacks
  after         \* history: pieces the reader has got since the flag was cleared

copy == <<held, missing, after>>
vars == <<spawn, blocking, keeprunning, fp, mpc, status, rpc, undefined, copy>>

MainPC   == {"off", "thread", "running", "flag", "kill", "fclose", "wait",
             "continue", "result", "join", "stopped"}
ReaderPC == {"none", "fopen", "test", "fileno", "read", "reading", "write",
             "fclose", "end", "failed"}

TypeOK ==
  /\ SpawnTypeOK
  /\ blocking \in BOOLEAN /\ keeprunning \in BOOLEAN
  /\ fp \in {"none", "open", "closed"}
  /\ mpc \in MainPC /\ rpc \in ReaderPC
  /\ status \in {"none", "zero", "nonzero"}
  /\ undefined \in BOOLEAN
  /\ held \in 0 .. PipeSize /\ missing \in Nat
  /\ after \in 0 .. 2

Init ==
  /\ SpawnInit
  /\ blocking \in BOOLEAN /\ keeprunning = FALSE
  /\ fp = "none"
  /\ mpc = "off" /\ status = "none"
  /\ rpc = "none"
  /\ undefined = FALSE
  /\ held = 0 /\ missing = 0 /\ after = 0

MainGoto(from, to)   == ~undefined /\ mpc = from /\ mpc' = to
ReaderGoto(from, to) == ~undefined /\ rpc = from /\ rpc' = to

--------------------------------------------------------------------------------
(* exec_start.                                                             *)

ExecStartFork ==
  /\ MainGoto("off", "thread")
  /\ Fork
  /\ fp' = "open"
  /\ UNCHANGED <<blocking, keeprunning, status, rpc, undefined, copy>>

ExecStartThread ==
  /\ MainGoto("thread", "running")
  /\ keeprunning' = TRUE
  /\ rpc' = "fopen"
  /\ UNCHANGED <<spawn, blocking, fp, status, undefined, copy>>

--------------------------------------------------------------------------------
(* exec_stop and fork_dup2_exec_result.                                    *)

\* A blocking Exec is not told to stop.
ExecStop ==
  /\ MainGoto("running", IF blocking THEN "fclose" ELSE "flag")
  /\ UNCHANGED <<spawn, blocking, keeprunning, fp, status, rpc, undefined, copy>>

\* Mutant of StopFlag: the flag is left set.
StopKeepsFlag ==
  /\ MainGoto("flag", "kill")
  /\ UNCHANGED <<spawn, blocking, keeprunning, fp, status, rpc, undefined, copy>>

StopFlag ==
  /\ MainGoto("flag", "kill")
  /\ keeprunning' = FALSE
  /\ UNCHANGED <<spawn, blocking, fp, status, rpc, undefined, copy>>

StopKill ==
  /\ MainGoto("kill", "fclose")
  /\ KillInt
  /\ UNCHANGED <<blocking, keeprunning, fp, status, rpc, undefined, copy>>

\* fclose closes the descriptor; a read under way keeps the pipe's read end.
StopFclose ==
  /\ MainGoto("fclose", "wait")
  /\ fp' = "closed"
  /\ refs' = refs - 1
  /\ UNCHANGED <<process, pipe, blocking, keeprunning, status, rpc, undefined, copy>>

\* waitpid tells of a stop or a continuation: go round the loop again.
StopWaitReport ==
  /\ MainGoto("wait", IF report = "stopped" THEN "continue" ELSE "wait")
  /\ WaitReport
  /\ UNCHANGED <<blocking, keeprunning, fp, status, rpc, undefined, copy>>

\* Mutant of StopContinue: a stopped child is not continued.
StopNoContinue ==
  /\ MainGoto("continue", "wait")
  /\ UNCHANGED <<spawn, blocking, keeprunning, fp, status, rpc, undefined, copy>>

StopContinue ==
  /\ MainGoto("continue", "wait")
  /\ KillCont
  /\ UNCHANGED <<blocking, keeprunning, fp, status, rpc, undefined, copy>>

\* waitpid tells of the end, which leaves the loop.
StopWaitReap ==
  /\ MainGoto("wait", "result")
  /\ WaitReap
  /\ status' = IF child = "exited" THEN "zero" ELSE "nonzero"
  /\ UNCHANGED <<blocking, keeprunning, fp, rpc, undefined, copy>>

\* waitpid fails: its result, -1, is taken for that of a child that failed.
StopWaitFails ==
  /\ MainGoto("wait", "result")
  /\ status' = "nonzero"
  /\ UNCHANGED <<spawn, blocking, keeprunning, fp, rpc, undefined, copy>>

\* A child that failed or was killed: return without joining the reader.
StopGivesUp ==
  /\ status = "nonzero"
  /\ MainGoto("result", "stopped")
  /\ UNCHANGED <<spawn, blocking, keeprunning, fp, status, rpc, undefined, copy>>

StopGoesOn ==
  /\ status = "zero"
  /\ MainGoto("result", "join")
  /\ UNCHANGED <<spawn, blocking, keeprunning, fp, status, rpc, undefined, copy>>

ReaderEnded == rpc \in {"end", "failed"}

StopJoin ==
  /\ ReaderEnded
  /\ MainGoto("join", "stopped")
  /\ UNCHANGED <<spawn, blocking, keeprunning, fp, status, rpc, undefined, copy>>

\* What exec_stop does as long as waitpid succeeds.
Stop ==
  \/ StopFlag \/ StopKill \/ StopFclose
  \/ StopWaitReport \/ StopContinue \/ StopWaitReap
  \/ StopGivesUp \/ StopGoesOn \/ StopJoin

--------------------------------------------------------------------------------
(* load_exec and exec_run, the reader thread.                              *)

ReaderOpen ==
  /\ ReaderGoto("fopen", "test")
  /\ UNCHANGED <<spawn, blocking, keeprunning, fp, mpc, status, undefined, copy>>

\* The log file cannot be opened: the thread returns and nobody reads the pipe.
ReaderOpenFails ==
  /\ ReaderGoto("fopen", "failed")
  /\ UNCHANGED <<spawn, blocking, keeprunning, fp, mpc, status, undefined, copy>>

\* Mutant of ReaderTest: exec_run does not look at the flag.
ReaderNoTest ==
  /\ ReaderGoto("test", "fileno")
  /\ UNCHANGED <<spawn, blocking, keeprunning, fp, mpc, status, undefined, copy>>

ReaderTest ==
  /\ ReaderGoto("test", IF keeprunning THEN "fileno" ELSE "fclose")
  /\ UNCHANGED <<spawn, blocking, keeprunning, fp, mpc, status, undefined, copy>>

ReaderFileno ==
  /\ fp = "open"
  /\ ReaderGoto("fileno", "read")
  /\ UNCHANGED <<spawn, blocking, keeprunning, fp, mpc, status, undefined, copy>>

\* The read begins: from here on closing the descriptor does not disturb it.
ReaderRead ==
  /\ fp = "open"
  /\ ReaderGoto("read", "reading")
  /\ refs' = refs + 1
  /\ UNCHANGED <<process, pipe, blocking, keeprunning, fp, mpc, status, undefined, copy>>

\* fileno of a FILE that is gone, or a read from a descriptor that is closed.
ReaderUsesClosed ==
  /\ fp = "closed"
  /\ rpc \in {"fileno", "read"} /\ ~undefined
  /\ undefined' = TRUE
  /\ UNCHANGED <<spawn, blocking, keeprunning, fp, mpc, status, rpc, copy>>

\* The read returns with some of what is in the pipe.
ReaderGets ==
  /\ ReaderGoto("reading", "write")
  /\ \E n \in 1 .. pipe : held' = n /\ pipe' = pipe - n
  /\ refs' = refs - 1
  /\ after' = IF keeprunning \/ after = 2 THEN after ELSE after + 1
  /\ UNCHANGED <<process, blocking, keeprunning, fp, mpc, status, undefined, missing>>

\* The read returns 0: the pipe is empty and its write end closed.
ReaderEof ==
  /\ pipe = 0 /\ WriteEndClosed
  /\ ReaderGoto("reading", "fclose")
  /\ refs' = refs - 1
  /\ UNCHANGED <<process, pipe, blocking, keeprunning, fp, mpc, status, undefined, copy>>

\* Mutant of ReaderWrite: a reader that was told to leave drops what it holds.
ReaderWriteUnlessStopped ==
  /\ ReaderGoto("write", "test")
  /\ missing' = IF keeprunning THEN missing - held ELSE missing
  /\ held' = 0
  /\ UNCHANGED <<spawn, blocking, keeprunning, fp, mpc, status, undefined, after>>

\* fwrite, whatever has become of the flag since the read.
ReaderWrite ==
  /\ ReaderGoto("write", "test")
  /\ missing' = missing - held
  /\ held' = 0
  /\ UNCHANGED <<spawn, blocking, keeprunning, fp, mpc, status, undefined, after>>

ReaderClose ==
  /\ ReaderGoto("fclose", "end")
  /\ UNCHANGED <<spawn, blocking, keeprunning, fp, mpc, status, undefined, copy>>

Reader ==
  \/ ReaderOpen \/ ReaderOpenFails
  \/ ReaderTest \/ ReaderFileno \/ ReaderRead \/ ReaderUsesClosed
  \/ ReaderGets \/ ReaderEof \/ ReaderWrite \/ ReaderClose

--------------------------------------------------------------------------------

Threads == <<blocking, keeprunning, fp, mpc, status, rpc, undefined, held, after>>

\* The child is one that exec_start began, and runs by itself.  The log lacks
\* what it writes.
Commanded ==
  /\ mpc # "off"
  /\ missing' = missing + pipe' - pipe
  /\ UNCHANGED Threads

ChildProcess == Child /\ Commanded

Next ==
  \/ ExecStartFork \/ ExecStartThread \/ ExecStop \/ Stop \/ StopWaitFails
  \/ Reader
  \/ ChildProcess

\* The system stops for good once exec_stop has returned and the reader and the
\* child have ended.
Spec == Init /\ [][Next]_vars

(* The two threads and a child that is not stopped run on.  As for the     *)
(* child's program: it handles a SIGINT that it catches, and otherwise     *)
(* goes on writing, as mpstat and top do, until it closes its output;      *)
(* after that it ends.  Nothing else obliges it to end by itself, anybody  *)
(* to call exec_stop, or waitpid to fail.                                  *)
Fairness ==
  /\ WF_vars(ExecStartThread) /\ WF_vars(Stop)
  /\ WF_vars(Reader)
  /\ WF_vars((ChildExec \/ ChildExecFails) /\ Commanded)
  /\ WF_vars((ChildWrites \/ ChildBrokenPipe) /\ Commanded)
  /\ WF_vars(ChildInterrupted /\ Commanded)
  /\ WF_vars(child = "silent" /\ ChildEnds /\ Commanded)

--------------------------------------------------------------------------------
(* Properties.                                                             *)

\* Once exec_stop has cleared the flag the reader gets at most one more piece,
\* however much the child still writes.
AtMostOneMore == after <= 1

\* A reader that has ended has put all it ever got into the log, also when
\* exec_stop cleared the flag between a read and its fwrite: the log lacks only
\* what is still in the pipe.  If nobody asked the reader to leave, it lacks
\* nothing, and the child has closed its output.
CopiedToTheEnd ==
  rpc = "end" => /\ missing = pipe
                 /\ keeprunning => missing = 0 /\ WriteEndClosed

\* Where a reader may be found by exec_stop's fclose and go on to use the stream.
Exposed == IF blocking THEN {"fopen", "test", "fileno", "read", "reading", "write"}
                       ELSE {"fileno", "read"}

\* exec_stop closes a stream that the reader uses.  With the flag cleared this is
\* undefined only in the window between the reader's look at the flag and its
\* read: a reader that fclose finds anywhere else never touches the stream again.
\* A blocking Exec has no such window, as its flag stays set: its reader may be
\* anywhere from fopen on, and is safe only when it has left the loop or failed.
OnlyTheRace ==
  [](fp = "closed" /\ ~undefined /\ rpc \notin Exposed => []~undefined)

\* exec_stop returns, also when the child ignores SIGINT, was stopped by
\* somebody, or blocks on a pipe that nobody reads.
StopReturns == mpc \in {"flag", "fclose"} ~> mpc = "stopped" \/ undefined

\* The reader ends after the child has, also when exec_stop did not join it or
\* was never called, and when nobody has waited for the child.
ReaderEnds ==
  child \in Ended \cup {"reaped"} /\ rpc # "none" ~> ReaderEnded \/ undefined
=============================================================================
