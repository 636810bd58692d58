--------------------------------- MODULE Spawn ---------------------------------
(***************************************************************************)
(* A child process started by fork_dup2_exec of spwan.c, and the pipe from *)
(* its standard output to its parent.  Exec.tla adds the threads of the    *)
(* parent.                                                                 *)
(*                                                                         *)
(* The program that the child runs is external: it writes, may close its   *)
(* output, ends by itself with either kind of status, and may install a    *)
(* handler for SIGINT, which it finds ignored.  Somebody else may stop and *)
(* continue it.  So is the kernel: the read end of the pipe stays open     *)
(* while a descriptor or a read under way refers to it, and waitpid tells  *)
(* of the last stop or continuation that it has not told of.               *)
(*                                                                         *)
(* Abstracted: what is written; the pipe is known by how full it is.       *)
(* Bounded: PipeSize, and MaxStops for the times the child is stopped.     *)
(***************************************************************************)
EXTENDS Naturals

CONSTANTS
  PipeSize,  \* bound: pieces of output that fit into the pipe
  MaxStops   \* bound: how often somebody stops the child

ASSUME SpawnAssumption == PipeSize \in Nat \ {0} /\ MaxStops \in Nat

VARIABLES
  child,     \* where the child process is; "silent": it has closed its output
  catching,  \* whether its program has installed a handler for SIGINT
  sigint,    \* whether a SIGINT is on its way to that handler
  halted,    \* whether the child is stopped
  report,    \* the stop or continuation that waitpid has not told of
  stops,     \* how often the child was stopped
  pipe,      \* pieces of output in the pipe
  refs       \* references to the read end: the descriptor, and a read under way

signals == <<catching, sigint>>
halting == <<halted, report, stops>>
process == <<child, signals, halting>>
spawn   == <<process, pipe, refs>>

Ended == {"exited", "failed", "killed"}   \* status 0, another status, a signal

SpawnTypeOK ==
  /\ child \in {"none", "forked", "running", "silent", "reaped"} \cup Ended
  /\ catching \in BOOLEAN /\ sigint \in BOOLEAN /\ halted \in BOOLEAN
  /\ report \in {"none", "stopped", "continued"}
  /\ stops \in 0 .. MaxStops
  /\ pipe \in 0 .. PipeSize
  /\ refs \in 0 .. 2

SpawnInit ==
  /\ child = "none" /\ catching = FALSE /\ sigint = FALSE
  /\ halted = FALSE /\ report = "none" /\ stops = 0
  /\ pipe = 0 /\ refs = 0

InProgram == child \in {"running", "silent"}
Alive == child = "forked" \/ InProgram

\* Mutant of WriteEndClosed: the parent keeps its own write end open.
WriteEndKept == FALSE

\* The parent has closed its write end, so only the child has one.
WriteEndClosed == child \in Ended \cup {"silent", "reaped"}

--------------------------------------------------------------------------------
(* What the parent does: each is a part of a step of the parent.           *)

\* pipe and fork; the parent closes its write end before it goes on.
Fork ==
  /\ child = "none"
  /\ child' = "forked"
  /\ refs' = 1
  /\ UNCHANGED <<signals, halting, pipe>>

\* SIGINT is discarded while it is ignored, and so it is before, when the copy
\* of the parent's own handler runs in the child.
KillInt ==
  /\ sigint' = (sigint \/ (InProgram /\ catching))
  /\ UNCHANGED <<child, catching, halting, pipe, refs>>

KillCont ==
  /\ halted' = FALSE
  /\ report' = IF halted THEN "continued" ELSE report
  /\ UNCHANGED <<child, signals, stops, pipe, refs>>

\* waitpid returns with a stop or a continuation.
WaitReport ==
  /\ Alive /\ report # "none"
  /\ report' = "none"
  /\ UNCHANGED <<child, signals, halted, stops, pipe, refs>>

\* waitpid returns because the child has ended.
WaitReap ==
  /\ child \in Ended
  /\ child' = "reaped"
  /\ UNCHANGED <<signals, halting, pipe, refs>>

--------------------------------------------------------------------------------
(* The child.                                                              *)

\* The signals are ignored, stdout is the pipe, and the program starts.
ChildExec ==
  /\ child = "forked" /\ ~halted
  /\ child' = "running"
  /\ UNCHANGED <<signals, halting, pipe, refs>>

\* execvp fails: _Exit(EXIT_FAILURE).
ChildExecFails ==
  /\ child = "forked" /\ ~halted
  /\ child' = "failed"
  /\ UNCHANGED <<signals, halting, pipe, refs>>

Running == InProgram /\ ~halted

ChildCatches ==
  /\ Running /\ ~catching
  /\ catching' = TRUE
  /\ UNCHANGED <<child, sigint, halting, pipe, refs>>

\* A write waits while the pipe is full.
ChildWrites ==
  /\ Running /\ child = "running"
  /\ refs > 0 /\ pipe < PipeSize
  /\ pipe' = pipe + 1
  /\ UNCHANGED <<process, refs>>

\* Nobody can read: SIGPIPE, or a program that gives up on the error.
ChildBrokenPipe ==
  /\ Running /\ child = "running"
  /\ refs = 0
  /\ child' \in {"killed", "failed"}
  /\ UNCHANGED <<signals, halting, pipe, refs>>

ChildCloses ==
  /\ Running /\ child = "running"
  /\ child' = "silent"
  /\ UNCHANGED <<signals, halting, pipe, refs>>

\* The program's handler for SIGINT ends it.
ChildInterrupted ==
  /\ Running /\ sigint
  /\ child' \in {"exited", "failed"}
  /\ UNCHANGED <<signals, halting, pipe, refs>>

ChildEnds ==
  /\ Running
  /\ child' \in {"exited", "failed"}
  /\ UNCHANGED <<signals, halting, pipe, refs>>

\* SIGSTOP and SIGCONT from outside.
ChildStopped ==
  /\ Alive /\ ~halted
  /\ stops < MaxStops
  /\ stops' = stops + 1
  /\ halted' = TRUE /\ report' = "stopped"
  /\ UNCHANGED <<child, signals, pipe, refs>>

ChildContinued ==
  /\ Alive /\ halted
  /\ halted' = FALSE /\ report' = "continued"
  /\ UNCHANGED <<child, signals, stops, pipe, refs>>

Child ==
  \/ ChildExec \/ ChildExecFails
  \/ ChildCatches \/ ChildWrites \/ ChildBrokenPipe
  \/ ChildCloses \/ ChildInterrupted \/ ChildEnds
  \/ ChildStopped \/ ChildContinued
=============================================================================
