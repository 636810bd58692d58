------------------------------- MODULE ExecProofs -------------------------------
(***************************************************************************)
(* Proofs about Exec and ExecSync for any size of the pipe, any number of  *)
(* stops and any length of the command's output.                           *)
(***************************************************************************)
EXTENDS ExecSync, TLAPS

\* What the threads of exec_start keep in step with each other and the child.
ThreadsIInv ==
  TypeOK /\ OneCommand /\ BackgroundInStep /\ LogInStep /\ AtMostOneMore /\ CopiedToTheEnd

\* What exec keeps in step with the child.
SyncIInv == SyncTypeOK /\ ExecInStep /\ OutputInPlace /\ CommandFinishes

LEMMA Parts == CommandIInv <=> ThreadsIInv /\ SyncIInv
BY DEF CommandIInv, ThreadsIInv, SyncIInv

--------------------------------------------------------------------------------
(* The child and the calls that exec_stop and exec make on it.             *)

\* What a child that has closed its output no longer does: it writes nothing and
\* does not open it again.
LEMMA ClosedForGood ==
  ASSUME Child, WriteEndClosed
  PROVE  WriteEndClosed' /\ pipe' = pipe
BY DEF Child, ChildExec, ChildExecFails, ChildCatches, ChildWrites, ChildBrokenPipe,
       ChildCloses, ChildInterrupted, ChildEnds, ChildStopped, ChildContinued,
       WriteEndClosed, Ended, Running, InProgram, Alive, process, signals, halting

\* A child moves only once it is there, and stays there until waitpid has told of
\* its end; only its parent opens and closes the read end of the pipe.
LEMMA ChildMoves ==
  ASSUME SpawnTypeOK, Child
  PROVE  /\ SpawnTypeOK'
         /\ child \notin {"none", "reaped"} /\ child' # "none"
         /\ refs' = refs
<1> USE SpawnAssumption
    DEF SpawnTypeOK, Ended, Running, InProgram, Alive, process, signals, halting
<1>1. CASE ChildExec
  BY <1>1 DEF ChildExec
<1>2. CASE ChildExecFails
  BY <1>2 DEF ChildExecFails
<1>3. CASE ChildCatches
  BY <1>3 DEF ChildCatches
<1>4. CASE ChildWrites
  BY <1>4 DEF ChildWrites
<1>5. CASE ChildBrokenPipe
  BY <1>5 DEF ChildBrokenPipe
<1>6. CASE ChildCloses
  BY <1>6 DEF ChildCloses
<1>7. CASE ChildInterrupted
  BY <1>7 DEF ChildInterrupted
<1>8. CASE ChildEnds
  BY <1>8 DEF ChildEnds
<1>9. CASE ChildStopped
  BY <1>9 DEF ChildStopped
<1>10. CASE ChildContinued
  BY <1>10 DEF ChildContinued
<1> QED BY <1>1, <1>2, <1>3, <1>4, <1>5, <1>6, <1>7, <1>8, <1>9, <1>10 DEF Child

--------------------------------------------------------------------------------
(* A step of a command in the background, one conjunct of the invariant    *)
(* after the other.                                                        *)

BackgroundStep == Next /\ pc = "off" /\ UNCHANGED syncVars

Caller == ExecStartFork \/ ExecStartThread \/ ExecStop \/ Stop \/ StopWaitFails

LEMMA BackgroundOneCommand ==
  ASSUME ThreadsIInv, BackgroundStep
  PROVE  OneCommand'
<1> USE DEF ThreadsIInv, BackgroundStep, OneCommand, BackgroundInStep, Holds, MainGoto,
            ReaderGoto, copy, spawn, process, signals, halting, syncVars, call
<1>1. CASE Caller
  BY <1>1, SMTT(30)
  DEF Caller, ExecStartFork, Fork, ExecStartThread, ExecStop, Stop, StopFlag, StopKill,
      KillInt, StopFclose, StopWaitReport, WaitReport, StopContinue, KillCont,
      StopWaitReap, WaitReap, Ended, StopWaitFails, StopGivesUp, StopGoesOn,
      StopJoin
<1>2. CASE Reader
  BY <1>2, SMTT(30)
  DEF Reader, ReaderOpen, ReaderOpenFails, ReaderTest, ReaderFileno, ReaderRead,
      ReaderUsesClosed, ReaderGets, ReaderEof, ReaderWrite, ReaderClose
<1>3. CASE ChildProcess
  BY <1>3, ChildMoves DEF ChildProcess, Commanded, Threads, TypeOK
<1> QED BY <1>1, <1>2, <1>3 DEF Next, Caller

LEMMA BackgroundKeepsStep ==
  ASSUME ThreadsIInv, BackgroundStep
  PROVE  BackgroundInStep'
<1> USE DEF ThreadsIInv, BackgroundStep, TypeOK, BackgroundInStep, MainGoto, ReaderGoto, copy
<1>1. CASE Caller
  BY <1>1, SMTT(30)
  DEF Caller, ExecStartFork, ExecStartThread, ExecStop, Stop, StopFlag, StopKill,
      StopFclose, StopWaitReport, StopContinue, StopWaitReap, StopWaitFails,
      StopGivesUp, StopGoesOn, StopJoin
<1>2. CASE Reader
  BY <1>2, SMTT(30)
  DEF Reader, ReaderOpen, ReaderOpenFails, ReaderTest, ReaderFileno, ReaderRead,
      ReaderUsesClosed, ReaderGets, ReaderEof, ReaderWrite, ReaderClose
<1>3. CASE ChildProcess
  BY <1>3 DEF ChildProcess, Commanded, Threads
<1> QED BY <1>1, <1>2, <1>3 DEF Next, Caller

\* Only ReaderGets counts, and it leaves the reader where it comes to no other
\* read unless the flag is set.
LEMMA BackgroundOneMore ==
  ASSUME ThreadsIInv, BackgroundStep
  PROVE  AtMostOneMore'
<1> USE DEF ThreadsIInv, BackgroundStep, TypeOK, BackgroundInStep, AtMostOneMore, ReaderGoto, copy
<1>1. CASE Caller
  BY <1>1, SMTT(30)
  DEF Caller, ExecStartFork, ExecStartThread, ExecStop, Stop, StopFlag, StopKill,
      StopFclose, StopWaitReport, StopContinue, StopWaitReap, StopWaitFails,
      StopGivesUp, StopGoesOn, StopJoin
<1>2. CASE Reader
  BY <1>2, SMTT(30)
  DEF Reader, ReaderOpen, ReaderOpenFails, ReaderTest, ReaderFileno, ReaderRead,
      ReaderUsesClosed, ReaderGets, ReaderEof, ReaderWrite, ReaderClose
<1>3. CASE ChildProcess
  BY <1>3 DEF ChildProcess, Commanded, Threads
<1> QED BY <1>1, <1>2, <1>3 DEF Next, Caller

\* A piece goes from the child to the pipe, from there to the reader and on to the
\* log, and nowhere else.  The reader leaves its loop with the flag set only over
\* ReaderEof, and the end of the output is final.
LEMMA BackgroundLog ==
  ASSUME ThreadsIInv, BackgroundStep
  PROVE  LogInStep'
<1>0. pipe \in Nat /\ held \in Nat /\ missing \in Nat
  BY SpawnAssumption DEF ThreadsIInv, TypeOK, SpawnTypeOK
<1> USE <1>0
    DEF ThreadsIInv, BackgroundStep, BackgroundInStep, LogInStep, WriteEndClosed, Ended,
        MainGoto, ReaderGoto, copy, spawn, process, signals, halting, syncVars, call
<1>1. CASE ExecStartFork
  BY <1>1 DEF ExecStartFork, Fork
<1>2. CASE ExecStartThread
  BY <1>2 DEF ExecStartThread
<1>3. CASE ExecStop
  BY <1>3 DEF ExecStop
<1>4. CASE StopFlag
  BY <1>4 DEF StopFlag
<1>5. CASE StopKill
  BY <1>5 DEF StopKill, KillInt
<1>6. CASE StopFclose
  BY <1>6 DEF StopFclose
<1>7. CASE StopWaitReport
  BY <1>7 DEF StopWaitReport, WaitReport
<1>8. CASE StopContinue
  BY <1>8 DEF StopContinue, KillCont
<1>9. CASE StopWaitReap
  BY <1>9 DEF StopWaitReap, WaitReap
<1>10. CASE StopGivesUp
  BY <1>10 DEF StopGivesUp
<1>11. CASE StopGoesOn
  BY <1>11 DEF StopGoesOn
<1>12. CASE StopJoin
  BY <1>12 DEF StopJoin
<1>13. CASE ReaderOpen
  BY <1>13 DEF ReaderOpen
<1>14. CASE ReaderOpenFails
  BY <1>14 DEF ReaderOpenFails
<1>15. CASE ReaderTest
  BY <1>15 DEF ReaderTest
<1>16. CASE ReaderFileno
  BY <1>16 DEF ReaderFileno
<1>17. CASE ReaderRead
  BY <1>17 DEF ReaderRead
<1>18. CASE ReaderUsesClosed
  BY <1>18 DEF ReaderUsesClosed
<1>19. CASE ReaderGets
  <2>1. PICK n \in 1 .. pipe : held' = n /\ pipe' = pipe - n
    BY <1>19 DEF ReaderGets
  <2>2. missing = pipe /\ missing' = missing
    BY <1>19 DEF ReaderGets
  <2>3. missing' = pipe' + held'
    BY <2>1, <2>2
  <2>4. rpc' = "write" /\ pc' = "off"
    BY <1>19 DEF ReaderGets
  <2> QED BY <2>3, <2>4
<1>20. CASE ReaderEof
  BY <1>20 DEF ReaderEof
<1>21. CASE ReaderWrite
  BY <1>21 DEF ReaderWrite
<1>22. CASE ReaderClose
  BY <1>22 DEF ReaderClose
<1>23. CASE ChildProcess
  <2>1. pipe' \in Nat
    BY <1>23, ChildMoves, SpawnAssumption DEF ChildProcess, TypeOK, SpawnTypeOK
  <2>2. missing' = pipe' + held'
    BY <1>23, <2>1 DEF ChildProcess, Commanded, Threads
  <2> QED BY <1>23, <2>2, ClosedForGood DEF ChildProcess, Commanded, Threads
<1>24. CASE StopWaitFails
  BY <1>24 DEF StopWaitFails
<1> QED
  BY <1>1, <1>2, <1>3, <1>4, <1>5, <1>6, <1>7, <1>8, <1>9, <1>10, <1>11, <1>12,
     <1>13, <1>14, <1>15, <1>16, <1>17, <1>18, <1>19, <1>20, <1>21, <1>22, <1>23, <1>24
  DEF Next, Stop, Reader

\* Sums and differences that the solver takes only on their own.
LEMMA PlusNothing == ASSUME NEW n \in Nat PROVE n + 0 = n
OBVIOUS

LEMMA LessAgain == ASSUME NEW m \in Nat, NEW n \in Nat PROVE m + n - n \in Nat
OBVIOUS

LEMMA MoreThanBefore ==
  ASSUME NEW m \in Nat, NEW n \in Nat, NEW k \in Nat
  PROVE  m + k + n - m \in Nat
OBVIOUS

LEMMA BackgroundTypes ==
  ASSUME ThreadsIInv, BackgroundStep
  PROVE  TypeOK'
<1> USE DEF ThreadsIInv, BackgroundStep, TypeOK, SpawnTypeOK, OneCommand, BackgroundInStep,
            Holds, MainPC, ReaderPC, Ended, MainGoto, ReaderGoto,
            copy, spawn, process, signals, halting
<1>1. CASE ExecStartFork
  BY <1>1 DEF ExecStartFork, Fork
<1>2. CASE ExecStartThread
  BY <1>2 DEF ExecStartThread
<1>3. CASE ExecStop
  BY <1>3 DEF ExecStop
<1>4. CASE StopFlag
  <2>1. SpawnTypeOK'
    BY <1>4 DEF StopFlag
  <2> HIDE DEF SpawnTypeOK
  <2> QED BY <1>4, <2>1 DEF StopFlag
<1>5. CASE StopKill
  BY <1>5 DEF StopKill, KillInt
<1>6. CASE StopFclose
  BY <1>6 DEF StopFclose
<1>7. CASE StopWaitReport
  BY <1>7 DEF StopWaitReport, WaitReport
<1>8. CASE StopContinue
  <2>1. SpawnTypeOK'
    <3> HIDE DEF OneCommand, BackgroundInStep
    <3> QED BY <1>8 DEF StopContinue, KillCont
  <2> HIDE DEF SpawnTypeOK
  <2> QED BY <1>8, <2>1 DEF StopContinue, KillCont
<1>9. CASE StopWaitReap
  BY <1>9 DEF StopWaitReap, WaitReap
<1>10. CASE StopGivesUp
  BY <1>10 DEF StopGivesUp
<1>11. CASE StopGoesOn
  BY <1>11 DEF StopGoesOn
<1>12. CASE StopJoin
  BY <1>12 DEF StopJoin
<1>13. CASE ReaderOpen
  BY <1>13 DEF ReaderOpen
<1>14. CASE ReaderOpenFails
  BY <1>14 DEF ReaderOpenFails
<1>15. CASE ReaderTest
  BY <1>15 DEF ReaderTest
<1>16. CASE ReaderFileno
  BY <1>16 DEF ReaderFileno
<1>17. CASE ReaderRead
  BY <1>17 DEF ReaderRead
<1>18. CASE ReaderUsesClosed
  BY <1>18 DEF ReaderUsesClosed
<1>19. CASE ReaderGets
  <2>1. refs \in 0 .. 2 /\ refs - 1 \in 0 .. 2
    BY <1>19 DEF ReaderGets
  <2>2. pipe' \in 0 .. PipeSize /\ held' \in 0 .. PipeSize
    <3> HIDE DEF OneCommand, BackgroundInStep
    <3>1. PICK n \in 1 .. pipe : held' = n /\ pipe' = pipe - n
      BY <1>19 DEF ReaderGets
    <3> QED BY <3>1, SpawnAssumption
  <2>3. after' \in 0 .. 2
    <3> HIDE DEF OneCommand, BackgroundInStep
    <3> QED BY <1>19 DEF ReaderGets
  <2>4. SpawnTypeOK'
    BY <1>19, <2>1, <2>2 DEF ReaderGets
  <2>5. held' \in 0 .. PipeSize
    BY <2>2
  <2>6. rpc' = "write" /\ UNCHANGED <<blocking, keeprunning, fp, mpc, status, undefined, missing>>
    BY <1>19 DEF ReaderGets
  <2> HIDE DEF SpawnTypeOK, OneCommand, BackgroundInStep
  <2> QED BY <2>3, <2>4, <2>5, <2>6
<1>20. CASE ReaderEof
  BY <1>20 DEF ReaderEof
<1>21. CASE ReaderWrite
  <2>1. missing' \in Nat
    <3> HIDE DEF OneCommand, BackgroundInStep
    <3>1. pipe \in Nat /\ held \in Nat
      BY SpawnAssumption
    <3>2. missing' = pipe + held - held
      BY <1>21 DEF ReaderWrite, LogInStep
    <3> HIDE DEF ThreadsIInv, BackgroundStep, TypeOK
    <3> QED BY <3>1, <3>2, LessAgain
  <2>2. held' \in 0 .. PipeSize
    BY <1>21, SpawnAssumption DEF ReaderWrite
  <2>3. SpawnTypeOK'
    BY <1>21 DEF ReaderWrite
  <2> HIDE DEF SpawnTypeOK, OneCommand, BackgroundInStep
  <2> QED BY <1>21, <2>1, <2>2, <2>3 DEF ReaderWrite
<1>22. CASE ReaderClose
  BY <1>22 DEF ReaderClose
<1>23. CASE ChildProcess
  <2> HIDE DEF SpawnTypeOK
  <2>1. missing' \in Nat
    <3> HIDE DEF OneCommand, BackgroundInStep
    <3>1. pipe \in Nat /\ pipe' \in Nat /\ held \in Nat
      BY <1>23, ChildMoves, SpawnAssumption DEF ChildProcess, SpawnTypeOK
    <3>2. missing' = pipe + held + pipe' - pipe
      BY <1>23 DEF ChildProcess, Commanded, LogInStep
    <3> HIDE DEF ThreadsIInv, BackgroundStep, TypeOK
    <3> QED BY <3>1, <3>2, MoreThanBefore
  <2>2. SpawnTypeOK'
    BY <1>23, ChildMoves DEF ChildProcess
  <2> HIDE DEF OneCommand, BackgroundInStep
  <2> QED BY <1>23, <2>1, <2>2 DEF ChildProcess, Commanded, Threads
<1>24. CASE StopWaitFails
  BY <1>24 DEF StopWaitFails
<1> QED
  BY <1>1, <1>2, <1>3, <1>4, <1>5, <1>6, <1>7, <1>8, <1>9, <1>10, <1>11, <1>12,
     <1>13, <1>14, <1>15, <1>16, <1>17, <1>18, <1>19, <1>20, <1>21, <1>22, <1>23, <1>24
  DEF Next, Stop, Reader

\* What the log lacks follows from where the reader is.
LEMMA CopiedNext ==
  ASSUME TypeOK', OneCommand', BackgroundInStep', LogInStep'
  PROVE  CopiedToTheEnd'
<1> SUFFICES ASSUME rpc' = "end"
             PROVE  missing' = pipe' /\ (keeprunning' => missing' = 0 /\ WriteEndClosed')
  BY DEF CopiedToTheEnd
<1>1. pipe' \in Nat
  BY SpawnAssumption DEF TypeOK, SpawnTypeOK
<1>2. pc' = "off"
  BY DEF OneCommand, BackgroundInStep
<1>3. missing' = pipe' + 0
  BY <1>2 DEF LogInStep
<1>4. keeprunning' => pipe' = 0 /\ WriteEndClosed'
  BY DEF LogInStep
<1>5. missing' = pipe'
  BY <1>1, <1>3, PlusNothing
<1> QED BY <1>4, <1>5, Zenon

LEMMA BackgroundIInv ==
  ASSUME CommandIInv, Background
  PROVE  CommandIInv'
<1>1. ThreadsIInv /\ SyncIInv /\ BackgroundStep
  BY Parts DEF Background, BackgroundStep
<1>2. ThreadsIInv'
  BY <1>1, BackgroundOneCommand, BackgroundKeepsStep, BackgroundOneMore,
     BackgroundLog, BackgroundTypes, CopiedNext
  DEF ThreadsIInv
<1>3. SyncIInv'
  BY <1>1 DEF SyncIInv, BackgroundStep, syncVars, call, SyncTypeOK, ExecInStep,
              OutputInPlace, CommandFinishes
<1> QED BY <1>2, <1>3, Parts DEF CommandIInv, ThreadsIInv, SyncIInv
--------------------------------------------------------------------------------
(* A step of exec.                                                         *)

SyncStep == SyncNext /\ mpc = "off" /\ UNCHANGED <<Threads, missing>>

\* The child is killed only by a pipe that nobody can read.
LEMMA KilledByPipe ==
  ASSUME Child, child' = "killed"
  PROVE  child = "killed" \/ (child = "running" /\ refs = 0)
BY DEF Child, ChildExec, ChildExecFails, ChildCatches, ChildWrites, ChildBrokenPipe,
       ChildCloses, ChildInterrupted, ChildEnds, ChildStopped, ChildContinued, process

\* What the command has written is counted as it enters the pipe.
LEMMA CountedInPipe ==
  ASSUME SyncChild
  PROVE  /\ Child /\ UNCHANGED call
         /\ \/ pipe' = pipe + 1 /\ sent' = sent + 1
            \/ UNCHANGED <<pipe, sent>>
<1>1. CASE SyncWrites
  BY <1>1 DEF SyncChild, SyncWrites, Child, ChildWrites
<1>2. CASE ~SyncWrites
  BY <1>2 DEF SyncChild, Child, ChildExec, ChildExecFails, ChildCatches, ChildBrokenPipe,
              ChildCloses, ChildEnds, ChildStopped, ChildContinued
<1> QED BY <1>1, <1>2

\* The threads of exec_start do not exist.
LEMMA SyncLeavesThreads ==
  ASSUME ThreadsIInv, SyncStep
  PROVE  BackgroundInStep' /\ AtMostOneMore'
BY DEF ThreadsIInv, SyncStep, Threads, BackgroundInStep, AtMostOneMore

\* The reader has no log, and exec is not off any more.
LEMMA SyncLog ==
  ASSUME ThreadsIInv, SyncStep
  PROVE  LogInStep'
<1>1. rpc = "none" /\ rpc' = "none" /\ held' = held /\ held = 0
  BY DEF ThreadsIInv, SyncStep, Threads, BackgroundInStep, LogInStep
<1>2. pc' # "off"
  <2>1. CASE SyncChild
    <3>1. Child /\ UNCHANGED call
      BY <2>1, CountedInPipe
    <3>2. child # "none"
      BY <3>1, ChildMoves DEF ThreadsIInv, TypeOK
    <3> QED BY <3>1, <3>2 DEF ThreadsIInv, OneCommand, SyncStep, call
  <2>2. CASE ~SyncChild
    BY <2>2 DEF SyncStep, SyncNext, ExecFork, ExecSteps, ExecRead, ExecEof, ExecFclose,
                ExecWaitReport, ExecContinue, ExecReap, ExecWaitFails, Goto
  <2> QED BY <2>1, <2>2
<1> QED BY <1>1, <1>2 DEF LogInStep

LEMMA SyncTypes ==
  ASSUME ThreadsIInv, SyncStep
  PROVE  TypeOK'
<1> SUFFICES SpawnTypeOK'
  BY DEF ThreadsIInv, SyncStep, Threads, TypeOK
<1> USE DEF ThreadsIInv, SyncStep, TypeOK, SpawnTypeOK, Goto,
            spawn, process, signals, halting
<1>1. CASE ExecFork
  BY <1>1 DEF ExecFork, Fork
<1>2. CASE ExecRead
  BY <1>2, SpawnAssumption DEF ExecRead
<1>3. CASE ExecEof
  BY <1>3 DEF ExecEof
<1>4. CASE ExecFclose
  BY <1>4 DEF ExecFclose, OneCommand, BackgroundInStep, Holds
<1>5. CASE ExecWaitReport
  BY <1>5 DEF ExecWaitReport, WaitReport
<1>6. CASE ExecContinue
  BY <1>6 DEF ExecContinue, KillCont
<1>7. CASE ExecReap
  BY <1>7 DEF ExecReap, WaitReap
<1>8. CASE SyncChild
  BY <1>8, CountedInPipe, ChildMoves
<1>9. CASE ExecWaitFails
  BY <1>9 DEF ExecWaitFails
<1> QED BY <1>1, <1>2, <1>3, <1>4, <1>5, <1>6, <1>7, <1>8, <1>9 DEF SyncNext, ExecSteps

LEMMA SyncOneCommand ==
  ASSUME ThreadsIInv, SyncIInv, SyncStep
  PROVE  OneCommand'
<1> USE DEF ThreadsIInv, SyncStep, OneCommand, BackgroundInStep, Threads, Holds, Goto,
            spawn, process, signals, halting
<1>1. CASE ExecFork
  BY <1>1 DEF ExecFork, Fork
<1>2. CASE ExecRead
  BY <1>2 DEF ExecRead
<1>3. CASE ExecEof
  BY <1>3 DEF ExecEof
<1>4. CASE ExecFclose
  BY <1>4 DEF ExecFclose
<1>5. CASE ExecWaitReport
  BY <1>5 DEF ExecWaitReport, WaitReport
<1>6. CASE ExecContinue
  BY <1>6 DEF ExecContinue, KillCont
<1>7. CASE ExecReap
  BY <1>7 DEF ExecReap, WaitReap, Ended
<1>8. CASE SyncChild
  BY <1>8, CountedInPipe, ChildMoves DEF call, TypeOK
<1>9. CASE ExecWaitFails
  BY <1>9 DEF ExecWaitFails
<1> QED BY <1>1, <1>2, <1>3, <1>4, <1>5, <1>6, <1>7, <1>8, <1>9 DEF SyncNext, ExecSteps

LEMMA SyncKeepsStep ==
  ASSUME ThreadsIInv, SyncIInv, SyncStep
  PROVE  ExecInStep'
<1> USE DEF ThreadsIInv, SyncIInv, SyncStep, ExecInStep, WriteEndClosed, Ended, Goto,
            spawn, process, signals, halting
<1>1. CASE ExecFork
  BY <1>1 DEF ExecFork, Fork
<1>2. CASE ExecRead
  BY <1>2 DEF ExecRead
<1>3. CASE ExecEof
  BY <1>3 DEF ExecEof
<1>4. CASE ExecFclose
  BY <1>4 DEF ExecFclose
<1>5. CASE ExecWaitReport
  BY <1>5 DEF ExecWaitReport, WaitReport
<1>6. CASE ExecContinue
  BY <1>6 DEF ExecContinue, KillCont
<1>7. CASE ExecReap
  BY <1>7 DEF ExecReap, WaitReap
<1>8. CASE SyncChild
  <2>1. Child /\ UNCHANGED call
    BY <1>8, CountedInPipe
  <2>2. pc # "off" /\ refs = 0 => pc \notin {"reading", "fclose"}
    BY DEF OneCommand, BackgroundInStep, Holds
  <2>3. pc # "off" => child' # "killed"
    BY <2>1, <2>2, KilledByPipe
  <2> QED BY <2>1, <2>3, ClosedForGood DEF call
<1>9. CASE ExecWaitFails
  BY <1>9 DEF ExecWaitFails
<1> QED BY <1>1, <1>2, <1>3, <1>4, <1>5, <1>6, <1>7, <1>8, <1>9 DEF SyncNext, ExecSteps

LEMMA SyncTypesOfCall ==
  ASSUME ThreadsIInv, SyncIInv, SyncStep
  PROVE  SyncTypeOK'
<1> USE DEF ThreadsIInv, SyncIInv, SyncStep, SyncTypeOK, Goto, call
<1>1. CASE ExecFork
  BY <1>1 DEF ExecFork
<1>2. CASE ExecRead
  <2>1. PICK n \in 1 .. pipe :
          /\ outsize' = outsize + n
          /\ \/ out' = Grown(n) /\ UNCHANGED refused
             \/ UNCHANGED out /\ refused' = refused \cup outsize + 1 .. outsize + n
    BY <1>2 DEF ExecRead
  <2>2. n \in Nat /\ outsize \in Nat /\ outsize' \in Nat
    BY <2>1 DEF TypeOK, SpawnTypeOK
  <2>3. DOMAIN out' \subseteq 1 .. outsize'
    BY <2>1, <2>2 DEF Grown
  <2>4. refused' \subseteq 1 .. outsize'
    <3>1. 1 .. outsize \subseteq 1 .. outsize' /\ outsize + 1 .. outsize + n \subseteq 1 .. outsize'
      BY <2>1, <2>2
    <3> QED BY <2>1, <3>1
  <2> QED BY <1>2, <2>2, <2>3, <2>4 DEF ExecRead
<1>3. CASE ExecEof
  BY <1>3 DEF ExecEof
<1>4. CASE ExecFclose
  BY <1>4 DEF ExecFclose
<1>5. CASE ExecWaitReport
  BY <1>5 DEF ExecWaitReport
<1>6. CASE ExecContinue
  BY <1>6 DEF ExecContinue
<1>7. CASE ExecReap
  BY <1>7 DEF ExecReap
<1>8. CASE SyncChild
  <2>1. sent' \in Nat
    BY <1>8, CountedInPipe
  <2>2. UNCHANGED <<pc, out, outsize, result, refused>>
    BY <1>8, CountedInPipe
  <2> QED BY <2>1, <2>2
<1>9. CASE ExecWaitFails
  BY <1>9 DEF ExecWaitFails
<1> HIDE DEF ThreadsIInv, SyncIInv, SyncTypeOK, call
<1> QED BY <1>1, <1>2, <1>3, <1>4, <1>5, <1>6, <1>7, <1>8, <1>9 DEF SyncNext, ExecSteps

\* A read puts each piece behind the places that outsize has counted: at its own
\* place if realloc succeeds, and with holes where it failed before.
LEMMA SyncOutput ==
  ASSUME ThreadsIInv, SyncIInv, SyncStep
  PROVE  OutputInPlace'
<1>0. /\ outsize \in Nat /\ sent \in Nat /\ pipe \in Nat
      /\ DOMAIN out \subseteq 1 .. outsize /\ refused \subseteq 1 .. outsize
  BY DEF ThreadsIInv, SyncIInv, SyncTypeOK, TypeOK, SpawnTypeOK
<1> USE <1>0 DEF SyncIInv, SyncStep, OutputInPlace, Goto, spawn, process, call
<1>1. CASE ExecFork
  BY <1>1 DEF ExecFork, Fork, ThreadsIInv, OneCommand
<1>2. CASE ExecRead
  <2>1. PICK n \in 1 .. pipe :
          /\ pipe' = pipe - n
          /\ outsize' = outsize + n
          /\ \/ out' = Grown(n) /\ UNCHANGED refused
             \/ UNCHANGED out /\ refused' = refused \cup outsize + 1 .. outsize + n
    BY <1>2 DEF ExecRead
  <2>2. pc' # "off" /\ outsize' = sent' - pipe'
    BY <1>2, <2>1 DEF ExecRead
  <2>3. ASSUME NEW i \in 1 .. outsize'
        PROVE  IF i \in DOMAIN out' THEN out'[i] = (IF i \in refused' THEN Hole ELSE i)
                                    ELSE i \in refused'
    <3>1. CASE out' = Grown(n) /\ UNCHANGED refused
      <4>1. i \in DOMAIN out'
            /\ out'[i] = IF i \in DOMAIN out THEN out[i] ELSE IF i <= outsize THEN Hole ELSE i
        BY <2>1, <3>1 DEF Grown
      <4> QED BY <2>1, <3>1, <4>1
    <3>2. CASE UNCHANGED out /\ refused' = refused \cup outsize + 1 .. outsize + n
      BY <2>1, <3>2
    <3> QED BY <2>1, <3>1, <3>2
  <2> QED BY <2>2, <2>3
<1>3. CASE ExecEof
  BY <1>3 DEF ExecEof
<1>4. CASE ExecFclose
  BY <1>4 DEF ExecFclose
<1>5. CASE ExecWaitReport
  BY <1>5 DEF ExecWaitReport, WaitReport
<1>6. CASE ExecContinue
  BY <1>6 DEF ExecContinue, KillCont
<1>7. CASE ExecReap
  BY <1>7 DEF ExecReap, WaitReap
<1>8. CASE SyncChild
  BY <1>8, CountedInPipe
<1>9. CASE ExecWaitFails
  BY <1>9 DEF ExecWaitFails
<1> QED BY <1>1, <1>2, <1>3, <1>4, <1>5, <1>6, <1>7, <1>8, <1>9 DEF SyncNext, ExecSteps

LEMMA LessNothing == ASSUME NEW n \in Nat PROVE n - 0 = n
OBVIOUS

\* What exec promises of the command follows from where exec is.
LEMMA Finishes ==
  ASSUME SpawnTypeOK', SyncTypeOK', OneCommand', ExecInStep', OutputInPlace'
  PROVE  CommandFinishes'
<1>1. pc' # "off" /\ refs' = 0 => pc' \notin {"reading", "fclose"}
  BY DEF OneCommand, Holds
<1>2. ASSUME pc' = "returned", result' # -1 PROVE result' = sent'
  <2>1. result' = outsize' /\ pipe' = 0
    BY <1>2 DEF ExecInStep
  <2>2. outsize' = sent' - pipe' /\ sent' \in Nat
    BY <1>2 DEF OutputInPlace, SyncTypeOK
  <2>3. sent' - 0 = sent'
    BY <2>2, LessNothing
  <2> QED BY <2>1, <2>2, <2>3
<1> QED BY <1>1, <1>2 DEF CommandFinishes, ExecInStep, WriteEndClosed, Ended

LEMMA SynchronousIInv ==
  ASSUME CommandIInv, Synchronous
  PROVE  CommandIInv'
<1>1. ThreadsIInv /\ SyncIInv /\ SyncStep
  BY Parts DEF Synchronous, SyncStep
<1>2. ThreadsIInv'
  BY <1>1, SyncLeavesThreads, SyncLog, SyncTypes, SyncOneCommand, CopiedNext DEF ThreadsIInv
<1>3. SyncTypeOK' /\ ExecInStep' /\ OutputInPlace'
  BY <1>1, SyncTypesOfCall, SyncKeepsStep, SyncOutput
<1>4. CommandFinishes'
  BY <1>2, <1>3, Finishes DEF ThreadsIInv, TypeOK
<1> QED BY <1>2, <1>3, <1>4 DEF CommandIInv, ThreadsIInv

--------------------------------------------------------------------------------
(* The theorems.                                                           *)

LEMMA InitIInv == CommandInit => CommandIInv
<1> SUFFICES ASSUME CommandInit PROVE CommandIInv
  OBVIOUS
<1>1. TypeOK
  <2>1. /\ pipe \in 0 .. PipeSize /\ stops \in 0 .. MaxStops /\ refs \in 0 .. 2
        /\ held \in 0 .. PipeSize /\ missing \in Nat /\ after \in 0 .. 2
    BY SpawnAssumption DEF CommandInit, Init, SpawnInit
  <2> QED BY <2>1, Zenon DEF CommandInit, Init, SpawnInit, TypeOK, SpawnTypeOK, MainPC, ReaderPC
<1>2. SyncTypeOK /\ OutputInPlace /\ ExecInStep /\ CommandFinishes
  BY DEF CommandInit, SyncInit, SyncTypeOK, OutputInPlace, ExecInStep, CommandFinishes
<1>3. OneCommand
  BY DEF CommandInit, Init, SpawnInit, SyncInit, OneCommand, Holds
<1>4. BackgroundInStep /\ LogInStep /\ AtMostOneMore /\ CopiedToTheEnd
  BY DEF CommandInit, Init, SpawnInit, BackgroundInStep, LogInStep, AtMostOneMore, CopiedToTheEnd
<1> QED BY <1>1, <1>2, <1>3, <1>4 DEF CommandIInv

LEMMA StutterIInv ==
  ASSUME CommandIInv, UNCHANGED commandVars
  PROVE  CommandIInv'
<1> USE DEF commandVars, vars, copy, spawn, process, signals, halting, syncVars, call
<1>1. ThreadsIInv'
  BY Parts DEF ThreadsIInv, TypeOK, SpawnTypeOK, OneCommand, BackgroundInStep, LogInStep,
               AtMostOneMore, CopiedToTheEnd, WriteEndClosed
<1>2. SyncIInv'
  BY Parts DEF SyncIInv, SyncTypeOK, ExecInStep, WriteEndClosed, OutputInPlace, CommandFinishes
<1> QED BY <1>1, <1>2 DEF CommandIInv, ThreadsIInv, SyncIInv

\* Whichever way a command is run, its child, its pipe and those who read it stay
\* in step; what follows is read off this invariant.
THEOREM Inductive == CommandSpec => []CommandIInv
<1>1. CommandIInv /\ [Background \/ Synchronous]_commandVars => CommandIInv'
  BY BackgroundIInv, SynchronousIInv, StutterIInv
<1> QED BY <1>1, InitIInv, PTL DEF CommandSpec

\* exec_stop's flag: the reader gets at most one more piece.
THEOREM OneMore == CommandSpec => []AtMostOneMore
<1>1. CommandIInv => AtMostOneMore
  BY DEF CommandIInv
<1> QED BY <1>1, Inductive, PTL

\* Whatever the reader has got is in the log when it ends, and that is all of the
\* output unless somebody asked it to leave.
THEOREM ToTheEnd == CommandSpec => []CopiedToTheEnd
<1>1. CommandIInv => CopiedToTheEnd
  BY DEF CommandIInv
<1> QED BY <1>1, Inductive, PTL

\* Every piece that exec copied is at its own place in the block, and what the
\* block lacks are the pieces that realloc refused.
THEOREM InPlace == CommandSpec => []OutputInPlace
<1>1. CommandIInv => OutputInPlace
  BY DEF CommandIInv
<1> QED BY <1>1, Inductive, PTL

\* exec kills no command by its pipe and returns the size of all its output.
THEOREM Finished == CommandSpec => []CommandFinishes
<1>1. CommandIInv => CommandFinishes
  BY DEF CommandIInv
<1> QED BY <1>1, Inductive, PTL

\* A reader that fclose finds where it does not use the stream again.
Spared == fp = "closed" /\ ~undefined /\ rpc \notin Exposed

\* With the flag cleared for good no way leads back into the window, and none leads
\* back from behind the loop.
LEMMA StaysSpared ==
  ASSUME CommandIInv, Spared, [Background \/ Synchronous]_commandVars
  PROVE  Spared'
<1>0. /\ mpc \notin {"off", "thread", "running", "flag", "kill", "fclose"}
      /\ ~blocking => ~keeprunning
      /\ rpc # "none"
  BY DEF CommandIInv, BackgroundInStep, Spared
<1> USE <1>0 DEF Spared, Exposed, MainGoto, ReaderGoto, copy
<1>1. CASE Background /\ (ExecStartFork \/ ExecStartThread \/ ExecStop)
  BY <1>1 DEF ExecStartFork, ExecStartThread, ExecStop
<1>2. CASE Background /\ (Stop \/ StopWaitFails)
  BY <1>2 DEF Stop, StopFlag, StopKill, StopFclose, StopWaitReport, StopContinue,
              StopWaitReap, StopWaitFails, StopGivesUp, StopGoesOn, StopJoin
<1>3. CASE Background /\ Reader
  BY <1>3 DEF Reader, ReaderOpen, ReaderOpenFails, ReaderTest, ReaderFileno, ReaderRead,
              ReaderUsesClosed, ReaderGets, ReaderEof, ReaderWrite, ReaderClose
<1>4. CASE Background /\ ChildProcess
  BY <1>4 DEF ChildProcess, Commanded, Threads
<1>5. CASE Synchronous
  BY <1>5 DEF Synchronous
<1>6. CASE UNCHANGED commandVars
  BY <1>6 DEF commandVars, vars
<1> QED BY <1>1, <1>2, <1>3, <1>4, <1>5, <1>6 DEF Background, Next

\* exec_stop's fclose is undefined only for a reader between its look at the flag
\* and its read, or, if the Exec is blocking, for one that has not left its loop.
THEOREM RaceOnly == CommandSpec => OnlyTheRace
<1>1. Spared => ~undefined
  BY DEF Spared
<1>2. CommandIInv /\ Spared /\ [Background \/ Synchronous]_commandVars => Spared'
  BY StaysSpared
<1>3. CommandSpec => [](Spared => []~undefined)
  BY <1>1, <1>2, Inductive, PTL DEF CommandSpec
<1> QED BY <1>3, PTL DEF OnlyTheRace, Spared
=============================================================================
