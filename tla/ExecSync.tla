-------------------------------- MODULE ExecSync --------------------------------
(***************************************************************************)
(* exec of spwan.c: it runs a command, collects its output in a block that *)
(* grows with every read, and returns its size, or -1 if the command       *)
(* failed.  The child and the pipe are those of Spawn; a program runs a    *)
(* command in the one way or the other, in the background as in Exec or    *)
(* with exec, so that this module is both.                                 *)
(*                                                                         *)
(* The pieces of output are numbered in the order they are written; Hole   *)
(* is memory of the block that nothing was copied to.  realloc may fail.   *)
(* Abstracted: fork and pipe succeed, and so does every read.              *)
(* Bounded: MaxWritten, for the pieces the command writes.                 *)
(***************************************************************************)
EXTENDS Exec, Integers, Sequences

CONSTANTS
  Hole,
  MaxWritten    \* bound

VARIABLES
  pc,           \* where exec is
  out, outsize, \* the caller's block and its size
  result,       \* what exec returns
  sent,         \* pieces the command has written
  refused       \* history: the pieces for which realloc failed

call == <<pc, out, outsize, result, refused>>
syncVars == <<call, sent>>
commandVars == <<vars, syncVars>>

SyncInit ==
  /\ pc = "off" /\ out = <<>> /\ outsize = 0 /\ result = 0
  /\ sent = 0 /\ refused = {}

Goto(from, to) == pc = from /\ pc' = to

--------------------------------------------------------------------------------
(* exec.                                                                   *)

ExecFork ==
  /\ Goto("off", "reading")
  /\ Fork
  /\ UNCHANGED <<out, outsize, result, sent, refused>>

\* Mutant of Grown: the new pieces go behind what the block holds.
GrownAtEnd(n) == out \o [i \in 1 .. n |-> outsize + i]

\* The block with the next n pieces behind its first outsize places, of which
\* those that are new stay unwritten.
Grown(n) ==
  [i \in 1 .. outsize + n |-> IF i \in DOMAIN out THEN out[i]
                              ELSE IF i <= outsize THEN Hole ELSE i]

\* read takes some of what is in the pipe.  The size grows even if the block
\* does not.
ExecRead ==
  /\ pc = "reading"
  /\ \E n \in 1 .. pipe :
       /\ pipe' = pipe - n
       /\ outsize' = outsize + n
       /\ \/ out' = Grown(n) /\ UNCHANGED refused
          \/ UNCHANGED out /\ refused' = refused \cup outsize + 1 .. outsize + n
  /\ UNCHANGED <<process, refs, pc, result, sent>>

\* Mutant of ExecEof: an empty pipe is taken for its end.
ExecEofWhenEmpty ==
  /\ pipe = 0
  /\ Goto("reading", "fclose")
  /\ UNCHANGED <<spawn, out, outsize, result, sent, refused>>

ExecEof ==
  /\ pipe = 0 /\ WriteEndClosed
  /\ Goto("reading", "fclose")
  /\ UNCHANGED <<spawn, out, outsize, result, sent, refused>>

\* fork_dup2_exec_result.
ExecFclose ==
  /\ Goto("fclose", "wait")
  /\ refs' = refs - 1
  /\ UNCHANGED <<process, pipe, out, outsize, result, sent, refused>>

\* waitpid tells of a stop or a continuation: go round the loop again.
ExecWaitReport ==
  /\ Goto("wait", IF report = "stopped" THEN "continue" ELSE "wait")
  /\ WaitReport
  /\ UNCHANGED <<out, outsize, result, sent, refused>>

\* waitpid fails: its result, -1, is not 0.
ExecWaitFails ==
  /\ Goto("wait", "returned")
  /\ result' = -1
  /\ UNCHANGED <<spawn, out, outsize, sent, refused>>

\* Mutant of ExecContinue: a stopped child is not continued.
ExecNoContinue ==
  /\ Goto("continue", "wait")
  /\ UNCHANGED <<spawn, out, outsize, result, sent, refused>>

ExecContinue ==
  /\ Goto("continue", "wait")
  /\ KillCont
  /\ UNCHANGED <<out, outsize, result, sent, refused>>

ExecReap ==
  /\ Goto("wait", "returned")
  /\ WaitReap
  /\ result' = IF child = "exited" THEN outsize ELSE -1
  /\ UNCHANGED <<out, outsize, sent, refused>>

\* What exec does as long as waitpid succeeds.
ExecSteps ==
  \/ ExecRead \/ ExecEof \/ ExecFclose
  \/ ExecWaitReport \/ ExecContinue \/ ExecReap

--------------------------------------------------------------------------------

SyncWrites == sent < MaxWritten /\ ChildWrites /\ sent' = sent + 1

SyncChild ==
  /\ \/ SyncWrites
     \/ /\ ChildExec \/ ChildExecFails \/ ChildCatches \/ ChildBrokenPipe
           \/ ChildCloses \/ ChildEnds \/ ChildStopped \/ ChildContinued
        /\ UNCHANGED sent
  /\ UNCHANGED call

SyncNext == ExecFork \/ ExecSteps \/ ExecWaitFails \/ SyncChild

--------------------------------------------------------------------------------

Background == pc = "off" /\ Next /\ UNCHANGED syncVars
Synchronous == mpc = "off" /\ SyncNext /\ UNCHANGED <<Threads, missing>>

\* exec runs on, and waitpid need not fail.  A child that is not stopped gets to
\* its program, which comes to its end; nobody is obliged to continue a child that
\* was stopped.
SyncFairness ==
  /\ WF_commandVars(ExecSteps /\ UNCHANGED <<Threads, missing>>)
  /\ WF_commandVars(/\ pc # "off" /\ UNCHANGED <<Threads, missing, syncVars>>
                    /\ ChildExec \/ ChildExecFails \/ ChildEnds)

CommandInit == Init /\ SyncInit

CommandSpec ==
  /\ CommandInit
  /\ [][Background \/ Synchronous]_commandVars
  /\ Fairness /\ SyncFairness

--------------------------------------------------------------------------------
(* Properties.                                                             *)

\* Whatever realloc refuses, every piece that was copied is at its own place, and
\* the places in between, or the end that the block lacks, are those of the
\* refused pieces: outsize counts what was read and not what the block holds.
OutputInPlace ==
  /\ pc # "off" => outsize = sent - pipe
  /\ \A i \in 1 .. outsize :
       IF i \in DOMAIN out THEN out[i] = (IF i \in refused THEN Hole ELSE i) ELSE i \in refused

\* exec does not stop reading before the command has closed its output: a command
\* is never killed by its pipe, and a result other than -1 is the size of all
\* that the command wrote.
CommandFinishes ==
  /\ pc # "off" /\ refs = 0 => child \notin {"forked", "running", "killed"}
  /\ pc = "returned" /\ result # -1 => result = sent

\* exec returns.  A child that is stopped while exec still reads hangs exec until
\* somebody else continues it; one that is stopped after it has closed its output
\* is continued by exec.
ExecReturns ==
  pc = "reading" ~> pc = "returned" \/ [](pc = "reading" /\ halted)
--------------------------------------------------------------------------------
(* The inductive invariant that the proofs in ExecProofs use.              *)

SyncTypeOK ==
  /\ pc \in {"off", "reading", "fclose", "wait", "continue", "returned"}
  /\ outsize \in Nat /\ sent \in Nat /\ result \in Int
  /\ DOMAIN out \subseteq 1 .. outsize /\ refused \subseteq 1 .. outsize

Holds(b) == IF b THEN 1 ELSE 0

\* The program runs one command, and the read end of its pipe has a reference for
\* each descriptor that is open and for a read under way.
OneCommand ==
  /\ mpc = "off" \/ pc = "off"
  /\ child = "none" <=> mpc = "off" /\ pc = "off"
  /\ child = "none" => pipe = 0
  /\ pc = "off" => outsize = 0 /\ sent = 0
  /\ refs = Holds(fp = "open") + Holds(rpc = "reading") + Holds(pc \in {"reading", "fclose"})

\* Where the caller of exec_start is tells what has become of the struct, and a
\* flag that is cleared leaves the reader one write and its way out.
BackgroundInStep ==
  /\ fp = "none" <=> mpc = "off"
  /\ fp = "open" <=> mpc \in {"thread", "running", "flag", "kill", "fclose"}
  /\ rpc = "none" <=> mpc \in {"off", "thread"}
  /\ mpc \in {"off", "thread"} => ~keeprunning
  /\ mpc \in {"running", "flag"} => keeprunning
  /\ (fp = "closed" /\ ~blocking) \/ mpc = "kill" => ~keeprunning
  /\ mpc = "fclose" => keeprunning = blocking
  /\ mpc \in {"flag", "kill"} => ~blocking
  /\ after > 0 => ~keeprunning /\ rpc \in {"write", "test", "fclose", "end"}

\* The log lacks what is in the pipe or in the reader's hands, and a reader that
\* leaves its loop unasked has seen the end of the output.
LogInStep ==
  /\ pc = "off" => missing = pipe + held
  /\ rpc # "write" => held = 0
  /\ rpc \in {"fclose", "end"} /\ keeprunning => pipe = 0 /\ WriteEndClosed

\* Once exec has seen the end, nothing is in the pipe and nothing comes.
ExecInStep ==
  /\ pc \notin {"off", "reading"} => pipe = 0 /\ WriteEndClosed
  /\ pc # "off" => child # "killed"
  /\ pc = "returned" => result \in {outsize, -1}

CommandIInv ==
  /\ TypeOK /\ SyncTypeOK
  /\ OneCommand /\ BackgroundInStep /\ LogInStep /\ ExecInStep
  /\ AtMostOneMore /\ CopiedToTheEnd
  /\ OutputInPlace /\ CommandFinishes
=============================================================================
