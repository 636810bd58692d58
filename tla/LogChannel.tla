------------------------------ MODULE LogChannel ------------------------------
(***************************************************************************)
(* What the asynchronous logger of slogger.c promises its callers, with no *)
(* threads, locks or ring buffer: a bounded first-in first-out channel     *)
(* from the callers of pushMessage to one log file.                        *)
(*                                                                         *)
(*   - a message offered to the channel is accepted, or refused because    *)
(*     the channel is full, or refused because it is being shut down;      *)
(*   - accepted messages reach the file once each, in order of acceptance; *)
(*   - the writer leaves only when shutdown was requested and everything   *)
(*     accepted is in the file, and nothing is accepted after that.  The   *)
(*     one exception is a log file that cannot be opened: the writer then  *)
(*     gives up before its first message and the backlog is never written.    *)
(*                                                                         *)
(* Slogger.tla is shown to implement this module.                          *)
(***************************************************************************)
EXTENDS Naturals, Sequences

CONSTANTS
  Message,     \* the messages callers may offer
  Capacity     \* number of messages the channel holds (CAPACITY, 2048)

VARIABLES
  pending,     \* accepted, not yet fetched by the writer
  writing,     \* the message the writer has in hand, as a sequence of length <= 1
  file,        \* the messages in the log file
  overflowed,  \* messages refused for lack of room
  late,        \* messages refused because shutdown had been requested
  phase,       \* "new", "open", "closing", "closed" or "gone"
  writer       \* "waiting" for its file, "alive", "failed" or "done"

vars == <<pending, writing, file, overflowed, late, phase, writer>>

Init ==
  /\ pending = <<>> /\ writing = <<>> /\ file = <<>>
  /\ overflowed = {} /\ late = {}
  /\ phase = "new"
  /\ writer = "waiting"

Open ==
  /\ phase = "new"
  /\ phase' = "open"
  /\ UNCHANGED <<pending, writing, file, overflowed, late, writer>>

\* Between the request to stop ("closing") and the moment it takes hold
\* ("closed") an offer that was already under way may still get in.
Accept(m) ==
  /\ phase \in {"open", "closing"}
  /\ writer # "done"
  /\ Len(pending) < Capacity
  /\ pending' = Append(pending, m)
  /\ UNCHANGED <<writing, file, overflowed, late, phase, writer>>

Overflow(m) ==
  /\ Len(pending) = Capacity
  /\ overflowed' = overflowed \cup {m}
  /\ UNCHANGED <<pending, writing, file, late, phase, writer>>

TooLate(m) ==
  /\ phase \in {"closing", "closed", "gone"}
  /\ late' = late \cup {m}
  /\ UNCHANGED <<pending, writing, file, overflowed, phase, writer>>

StartWriting ==
  /\ writer = "waiting"
  /\ writer' = "alive"
  /\ UNCHANGED <<pending, writing, file, overflowed, late, phase>>

GiveUp ==
  /\ writer = "waiting"
  /\ writer' = "failed"
  /\ UNCHANGED <<pending, writing, file, overflowed, late, phase>>

Fetch ==
  /\ writer = "alive"
  /\ writing = <<>> /\ pending # <<>>
  /\ writing' = <<Head(pending)>>
  /\ pending' = Tail(pending)
  /\ UNCHANGED <<file, overflowed, late, phase, writer>>

Write ==
  /\ writing # <<>>
  /\ file' = file \o writing
  /\ writing' = <<>>
  /\ UNCHANGED <<pending, overflowed, late, phase, writer>>

Close ==
  /\ phase = "open"
  /\ phase' = "closing"
  /\ UNCHANGED <<pending, writing, file, overflowed, late, writer>>

Seal ==
  /\ phase = "closing"
  /\ phase' = "closed"
  /\ UNCHANGED <<pending, writing, file, overflowed, late, writer>>

Finish ==
  /\ writer = "alive"
  /\ phase \in {"closing", "closed"}
  /\ pending = <<>> /\ writing = <<>>
  /\ writer' = "done"
  /\ UNCHANGED <<pending, writing, file, overflowed, late, phase>>

\* The storage goes away once the writer has left.  Only a writer that failed
\* to open its file leaves a backlog behind; nobody will write it any more.
Retire ==
  /\ phase = "closed"
  /\ writer \in {"failed", "done"}
  /\ phase' = "gone"
  /\ UNCHANGED <<pending, writing, file, overflowed, late, writer>>

Next ==
  \/ Open \/ Close \/ Seal \/ Retire
  \/ \E m \in Message : Accept(m) \/ Overflow(m) \/ TooLate(m)
  \/ StartWriting \/ GiveUp \/ Fetch \/ Write \/ Finish

Spec == Init /\ [][Next]_vars
=============================================================================
