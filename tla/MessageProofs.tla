----------------------------- MODULE MessageProofs -----------------------------
(***************************************************************************)
(* Proofs about Message for any threads, any length of a second and of a   *)
(* minute, and any bounds on the clock and the calls.                      *)
(***************************************************************************)
EXTENDS Message, WellFoundedInduction, TLAPS

\* A set of naturals has a least element.
LEMMA MinExists ==
  ASSUME NEW S \in SUBSET Nat, S # {}
  PROVE  Min(S) \in S /\ \A y \in S : Min(S) <= y
<1> DEFINE R == OpToRel(<, Nat)
<1>1. PICK x \in S : \A y \in S : ~(<<y, x>> \in R)
  <2>1. IsWellFoundedOn(R, Nat)
    BY NatLessThanWellFounded
  <2> HIDE DEF R
  <2> QED BY <2>1, WFMin
<1>2. \A y \in S : y < x => <<y, x>> \in R
  BY DEF OpToRel
<1> HIDE DEF R
<1>3. ASSUME NEW y \in S PROVE x <= y
  <2>1. ~(y < x) /\ x \in Nat /\ y \in Nat
    BY <1>1, <1>2
  <2> QED BY <2>1
<1> QED BY <1>3 DEF Min
LEMMA Divides ==
  ASSUME NEW n \in Nat \ {0}, NEW x \in Nat
  PROVE  x \div n \in Nat /\ x % n \in 0 .. n - 1 /\ x = (x \div n) * n + (x % n)
OBVIOUS

LEMMA DivMonotone ==
  ASSUME NEW n \in Nat \ {0}, NEW x \in Nat, NEW y \in Nat, x <= y
  PROVE  x \div n <= y \div n
OBVIOUS

LEMMA TimesMonotone ==
  ASSUME NEW n \in Nat, NEW x \in Nat, NEW y \in Nat, x <= y
  PROVE  x * n <= y * n
<1>1. PICK d \in Nat : y = x + d
  BY y - x \in Nat
<1>2. y * n = x * n + d * n
  BY <1>1
<1>3. x * n \in Nat /\ d * n \in Nat
  OBVIOUS
<1> QED BY <1>2, <1>3

LEMMA ClockUnits == Second \in Nat \ {0} /\ Minute \in Nat \ {0}
BY MessageAssumption

--------------------------------------------------------------------------------
(* Types.                                                                  *)

LEMMA MessageInitTypes == MessageInit => MessageTypeOK
BY ClockUnits DEF MessageInit, MessageTypeOK, MessagePC, NoMessage

LEMMA OldestTypes ==
  ASSUME MessageTypeOK, NEW c \in Threads
  PROVE  LET began == {now} \cup {msg[u].began : u \in {u \in Threads \ {c} : InCall(u)}}
         IN  Min(began) \in Nat /\ \A b \in began : Min(began) <= b
<1> DEFINE began == {now} \cup {msg[u].began : u \in {u \in Threads \ {c} : InCall(u)}}
<1>1. began \in SUBSET Nat /\ began # {}
  BY DEF MessageTypeOK
<1> HIDE DEF began
<1>2. Min(began) \in began /\ \A b \in began : Min(began) <= b
  BY <1>1, MinExists
<1>3. Min(began) \in Nat /\ \A b \in began : Min(began) <= b
  BY <1>1, <1>2
<1> QED BY <1>3 DEF began

LEMMA MessageTypes ==
  ASSUME MessageTypeOK, [MessageNext]_msgVars
  PROVE  MessageTypeOK'
<1> USE DEF MessageTypeOK, clocked, ghosts, MessageGoto
<1>1. CASE MessageTick
  BY <1>1 DEF MessageTick
<1>2. ASSUME NEW word \in Types \cup {"console"}, SetLogType(word) PROVE MessageTypeOK'
  BY <1>2 DEF SetLogType
<1>3. ASSUME NEW c \in Threads, NEW level \in LogErr .. LogDebug,
             NEW to \in {"queue", "file", "nothing"}, CallMessage(c, level, to)
      PROVE  MessageTypeOK'
  BY <1>3, OldestTypes DEF CallMessage, NoMessage, MessagePC
<1>4. ASSUME NEW c \in Threads, Time(c) PROVE MessageTypeOK'
  <2>1. now \div Second \in Nat
    BY Divides, ClockUnits
  <2> QED BY <1>4, <2>1 DEF Time, MessagePC
<1>5. ASSUME NEW c \in Threads, Localtime(c) PROVE MessageTypeOK'
  <2>1. msg[c].secs \div Minute \in Nat /\ msg[c].secs % Minute \in Nat
    BY Divides, ClockUnits
  <2> QED BY <1>5, <2>1 DEF Localtime, MessagePC
<1>6. ASSUME NEW c \in Threads, Gettimeofday(c) PROVE MessageTypeOK'
  <2>1. now % Second \in Nat
    BY Divides, ClockUnits
  <2> QED BY <1>6, <2>1 DEF Gettimeofday, MessagePC
<1>7. ASSUME NEW c \in Threads, Strftime(c) PROVE MessageTypeOK'
  <2>0. tm.minute \in Nat /\ tm.second \in Nat
    OBVIOUS
  <2>1. ASSUME NEW to \in MessagePC, pc' = [pc EXCEPT ![c] = to],
               msg' = [msg EXCEPT ![c].minute = tm.minute] \/ msg' = [msg EXCEPT ![c].second = tm.second]
        PROVE  pc' \in [Threads -> MessagePC]
               /\ msg' \in [Threads -> [to : {"queue", "file", "nothing"}, began : Nat, secs : Nat,
                                        msec : Nat, minute : Nat, second : Nat]]
    BY <2>0, <2>1
  <2> QED BY <1>7, <2>1 DEF Strftime, MessagePC
<1>8. ASSUME NEW c \in Threads, PrintLine(c) PROVE MessageTypeOK'
  BY <1>8 DEF PrintLine, MessagePC
<1>9. ASSUME NEW c \in Threads, Deliver(c) PROVE MessageTypeOK'
  BY <1>9 DEF Deliver, NoMessage, MessagePC
<1>10. CASE UNCHANGED msgVars
  BY <1>10 DEF msgVars
<1> HIDE DEF MessageTypeOK
<1> QED BY <1>1, <1>2, <1>3, <1>4, <1>5, <1>6, <1>7, <1>8, <1>9, <1>10 DEF MessageNext
--------------------------------------------------------------------------------
(* Calls that overlap.                                                     *)

LEMMA OldestStep ==
  ASSUME MessageTypeOK, OldestKnown, [MessageNext]_msgVars
  PROVE  OldestKnown'
<1> USE DEF MessageTypeOK, OldestKnown, InCall, clocked, ghosts, MessageGoto
<1>1. CASE MessageTick
  BY <1>1 DEF MessageTick
<1>2. ASSUME NEW word \in Types \cup {"console"}, SetLogType(word) PROVE OldestKnown'
  BY <1>2 DEF SetLogType
<1>3. ASSUME NEW c \in Threads, NEW level \in LogErr .. LogDebug,
             NEW to \in {"queue", "file", "nothing"}, CallMessage(c, level, to)
      PROVE  OldestKnown'
  <2>1. /\ oldest'[c] <= now
        /\ \A u \in Threads \ {c} : InCall(u) => oldest'[c] <= msg[u].began
    <3> DEFINE began == {now} \cup {msg[u].began : u \in {u \in Threads \ {c} : InCall(u)}}
    <3>1. oldest'[c] = Min(began)
      BY <1>3 DEF CallMessage
    <3>2. \A b \in began : Min(began) <= b
      BY OldestTypes
    <3>3. now \in began /\ \A u \in Threads \ {c} : InCall(u) => msg[u].began \in began
      OBVIOUS
    <3> HIDE DEF began
    <3> QED BY <3>1, <3>2, <3>3
  <2>2. /\ msg'[c].began = now /\ now' = now
        /\ \A u \in Threads \ {c} : pc'[u] = pc[u] /\ msg'[u] = msg[u] /\ oldest'[u] = oldest[u]
    BY <1>3 DEF CallMessage, NoMessage
  <2>3. \A u \in Threads \ {c} : InCall(u) => oldest[u] <= now
    OBVIOUS
  <2>4. \A t \in Threads : InCall(t)' => msg'[t].began <= now'
    BY <2>2
  <2>5. ASSUME NEW t \in Threads, NEW u \in Threads, InCall(t)', InCall(u)'
        PROVE  oldest'[t] <= msg'[u].began
    BY <2>1, <2>2, <2>3, <2>5
  <2> QED BY <2>4, <2>5
<1>4. ASSUME NEW c \in Threads, Time(c) PROVE OldestKnown'
  BY <1>4 DEF Time
<1>5. ASSUME NEW c \in Threads, Localtime(c) PROVE OldestKnown'
  BY <1>5 DEF Localtime
<1>6. ASSUME NEW c \in Threads, Gettimeofday(c) PROVE OldestKnown'
  BY <1>6 DEF Gettimeofday
<1>7. ASSUME NEW c \in Threads, Strftime(c) PROVE OldestKnown'
  <2>0. InCall(c) /\ UNCHANGED <<now, oldest>>
    BY <1>7 DEF Strftime
  <2>1. ASSUME NEW to \in MessagePC, pc' = [pc EXCEPT ![c] = to],
               msg' = [msg EXCEPT ![c].minute = tm.minute] \/ msg' = [msg EXCEPT ![c].second = tm.second]
        PROVE  \A u \in Threads : msg'[u].began = msg[u].began /\ (InCall(u)' => InCall(u))
    <3>1. \A u \in Threads : msg'[u].began = msg[u].began
      BY <2>1
    <3>2. \A u \in Threads \ {c} : pc'[u] = pc[u]
      BY <2>1
    <3> QED BY <2>0, <3>1, <3>2
  <2>2. \A u \in Threads : msg'[u].began = msg[u].began /\ (InCall(u)' => InCall(u))
    BY <1>7, <2>1 DEF Strftime, MessagePC
  <2> QED BY <2>0, <2>2
<1>8. ASSUME NEW c \in Threads, PrintLine(c) PROVE OldestKnown'
  BY <1>8 DEF PrintLine
<1>9. ASSUME NEW c \in Threads, Deliver(c) PROVE OldestKnown'
  BY <1>9 DEF Deliver
<1>10. CASE UNCHANGED msgVars
  BY <1>10 DEF msgVars
<1> HIDE DEF OldestKnown
<1> QED BY <1>1, <1>2, <1>3, <1>4, <1>5, <1>6, <1>7, <1>8, <1>9, <1>10 DEF MessageNext

--------------------------------------------------------------------------------
(* What localtime's object holds was read lately.                          *)

LEMMA LatelyGrows ==
  ASSUME MessageTypeOK, NEW t \in Threads, now' \in Nat, now <= now', oldest'[t] = oldest[t]
  PROVE  /\ now \div Second \in Nat /\ now' \div Second \in Nat
         /\ now \div Second <= now' \div Second
         /\ \A x \in Lately(t) : x \in Lately(t)'
<1>1. now \in Nat /\ oldest[t] \in Nat
  BY DEF MessageTypeOK
<1>2. /\ now \div Second \in Nat /\ now' \div Second \in Nat /\ oldest[t] \div Second \in Nat
      /\ now \div Second <= now' \div Second
  BY <1>1, ClockUnits, DivMonotone, Divides
<1> QED BY <1>2 DEF Lately

LEMMA LatelyKept ==
  ASSUME MessageTypeOK, NEW t \in Threads, ReadLatelyBy(t), now' \in Nat, now <= now',
         oldest'[t] = oldest[t], pc'[t] = pc[t], msg'[t] = msg[t], tm' = tm
  PROVE  ReadLatelyBy(t)'
<1>1. /\ now \div Second \in Nat /\ now' \div Second \in Nat
      /\ now \div Second <= now' \div Second
      /\ \A x \in Lately(t) : x \in Lately(t)'
  BY LatelyGrows
<1>2. (HasSecs(t) => msg[t].secs \in msg[t].began \div Second .. now \div Second)'
  <2>1. msg[t].began \div Second \in Nat
    BY Divides, ClockUnits DEF MessageTypeOK
  <2> QED BY <1>1, <2>1 DEF ReadLatelyBy, HasSecs
<1>3. (HasTm(t) => \E x \in Lately(t) : tm = [minute |-> x \div Minute, second |-> x % Minute])'
  BY <1>1 DEF ReadLatelyBy, HasSecs, HasTm
<1>4. (HasMinute(t) => \E x \in Lately(t) : msg[t].minute = x \div Minute)'
  BY <1>1 DEF ReadLatelyBy, HasSecs, HasTm, HasMsec, HasMinute
<1>5. (Stamped(t) => \E x \in Lately(t) : msg[t].second = x % Minute)'
  BY <1>1 DEF ReadLatelyBy, Stamped
<1> QED BY <1>2, <1>3, <1>4, <1>5 DEF ReadLatelyBy

LEMMA LatelyStep ==
  ASSUME MessageTypeOK, OldestKnown, ReadLately, [MessageNext]_msgVars
  PROVE  ReadLately'
<1> USE DEF clocked, ghosts, MessageGoto, ReadLately
<1>0. now \in Nat
  BY DEF MessageTypeOK
<1>1. CASE MessageTick
  <2>1. now' = now + 1 /\ UNCHANGED <<tm, pc, msg, oldest>>
    BY <1>1 DEF MessageTick
  <2> QED BY <1>0, <2>1, LatelyKept
<1>2. ASSUME NEW word \in Types \cup {"console"}, SetLogType(word) PROVE ReadLately'
  <2>1. UNCHANGED <<now, tm, pc, msg, oldest>>
    BY <1>2 DEF SetLogType
  <2> QED BY <1>0, <2>1, LatelyKept
<1>3. ASSUME NEW c \in Threads, NEW level \in LogErr .. LogDebug,
             NEW to \in {"queue", "file", "nothing"}, CallMessage(c, level, to)
      PROVE  ReadLately'
  <2>1. /\ UNCHANGED <<now, tm>> /\ pc'[c] = "time"
        /\ \A t \in Threads \ {c} : UNCHANGED <<pc[t], msg[t], oldest[t]>>
    BY <1>3 DEF CallMessage, MessageTypeOK
  <2>2. ReadLatelyBy(c)'
    BY <2>1 DEF ReadLatelyBy, HasSecs, HasTm, HasMsec, HasMinute, Stamped
  <2>3. \A t \in Threads \ {c} : ReadLatelyBy(t)'
    BY <1>0, <2>1, LatelyKept
  <2> QED BY <2>2, <2>3
<1>4. ASSUME NEW c \in Threads, Time(c) PROVE ReadLately'
  <2>1. /\ UNCHANGED <<now, tm, oldest>> /\ pc[c] = "time" /\ pc'[c] = "localtime"
        /\ msg'[c].secs = now \div Second /\ msg'[c].began = msg[c].began
        /\ \A t \in Threads \ {c} : UNCHANGED <<pc[t], msg[t]>>
    BY <1>4 DEF Time, MessageTypeOK
  <2>2. ReadLatelyBy(c)'
    <3>1. msg[c].began \in Nat /\ msg[c].began <= now
      BY <2>1 DEF OldestKnown, InCall, MessageTypeOK
    <3>2. msg[c].began \div Second \in Nat /\ now \div Second \in Nat
          /\ msg[c].began \div Second <= now \div Second
      BY <1>0, <3>1, Divides, DivMonotone, ClockUnits
    <3> QED BY <2>1, <3>2 DEF ReadLatelyBy, HasSecs, HasTm, HasMsec, HasMinute, Stamped
  <2>3. \A t \in Threads \ {c} : ReadLatelyBy(t)'
    BY <1>0, <2>1, LatelyKept
  <2> QED BY <2>2, <2>3
<1>5. ASSUME NEW c \in Threads, Localtime(c) PROVE ReadLately'
  <2>1. /\ UNCHANGED <<now, msg, oldest>> /\ pc[c] = "localtime" /\ pc'[c] = "gettimeofday"
        /\ tm' = [minute |-> msg[c].secs \div Minute, second |-> msg[c].secs % Minute]
        /\ \A t \in Threads \ {c} : pc'[t] = pc[t]
    BY <1>5 DEF Localtime, MessageTypeOK
  <2>2. ASSUME NEW t \in Threads, InCall(t) PROVE msg[c].secs \in Lately(t)
    <3>1. msg[c].secs \in msg[c].began \div Second .. now \div Second
      BY <2>1 DEF ReadLatelyBy, HasSecs
    <3>2. oldest[t] \in Nat /\ msg[c].began \in Nat /\ oldest[t] <= msg[c].began
      BY <2>1, <2>2 DEF OldestKnown, InCall, MessageTypeOK
    <3>3. /\ oldest[t] \div Second \in Nat /\ msg[c].began \div Second \in Nat
          /\ now \div Second \in Nat
          /\ oldest[t] \div Second <= msg[c].began \div Second
      BY <1>0, <3>2, Divides, DivMonotone, ClockUnits
    <3> QED BY <3>1, <3>3 DEF Lately
  <2>3. ASSUME NEW t \in Threads PROVE ReadLatelyBy(t)'
    <3>1. /\ HasSecs(t)' => HasSecs(t) /\ InCall(t)
          /\ HasMinute(t)' => HasMinute(t)
          /\ Stamped(t)' => Stamped(t)
          /\ HasTm(t)' => HasSecs(t)'
          /\ Lately(t)' = Lately(t)
      BY <2>1 DEF HasSecs, HasTm, HasMsec, HasMinute, Stamped, InCall, Lately
    <3>2. (HasSecs(t) => msg[t].secs \in msg[t].began \div Second .. now \div Second)'
      BY <2>1, <3>1 DEF ReadLatelyBy
    <3>3. (HasTm(t) => \E x \in Lately(t) : tm = [minute |-> x \div Minute, second |-> x % Minute])'
      BY <2>1, <2>2, <3>1
    <3>4. (HasMinute(t) => \E x \in Lately(t) : msg[t].minute = x \div Minute)'
      BY <2>1, <3>1 DEF ReadLatelyBy
    <3>5. (Stamped(t) => \E x \in Lately(t) : msg[t].second = x % Minute)'
      BY <2>1, <3>1 DEF ReadLatelyBy
    <3> QED BY <3>2, <3>3, <3>4, <3>5 DEF ReadLatelyBy
  <2> QED BY <2>3
<1>6. ASSUME NEW c \in Threads, Gettimeofday(c) PROVE ReadLately'
  <2>1. /\ UNCHANGED <<now, tm, oldest>> /\ pc[c] = "gettimeofday" /\ pc'[c] = "strftime"
        /\ msg'[c].secs = msg[c].secs /\ msg'[c].began = msg[c].began
        /\ \A t \in Threads \ {c} : UNCHANGED <<pc[t], msg[t]>>
    BY <1>6 DEF Gettimeofday, MessageTypeOK
  <2>2. ReadLatelyBy(c)'
    BY <2>1 DEF ReadLatelyBy, HasSecs, HasTm, HasMsec, HasMinute, Stamped, Lately
  <2>3. \A t \in Threads \ {c} : ReadLatelyBy(t)'
    BY <1>0, <2>1, LatelyKept
  <2> QED BY <2>2, <2>3
<1>7. ASSUME NEW c \in Threads, Strftime(c) PROVE ReadLately'
  <2>0. now' = now /\ tm' = tm /\ oldest' = oldest
    BY <1>7 DEF Strftime
  <2>1. CASE MessageGoto(c, "strftime", "strftime seconds") /\ msg' = [msg EXCEPT ![c].minute = tm.minute]
    <3>1. /\ pc[c] = "strftime" /\ pc'[c] = "strftime seconds"
          /\ msg'[c].secs = msg[c].secs /\ msg'[c].began = msg[c].began
      BY <2>1 DEF MessageTypeOK
    <3>2. msg'[c].minute = tm.minute
      BY <2>1 DEF MessageTypeOK
    <3>3. PICK x \in Lately(c) : tm = [minute |-> x \div Minute, second |-> x % Minute]
      BY <3>1 DEF ReadLatelyBy, HasSecs, HasTm
    <3>4. msg'[c].minute = x \div Minute
      BY <3>2, <3>3
    <3>5. ReadLatelyBy(c)'
      BY <2>0, <3>1, <3>3, <3>4 DEF ReadLatelyBy, HasSecs, HasTm, HasMsec, HasMinute, Stamped, Lately
    <3>6. \A t \in Threads \ {c} : pc'[t] = pc[t] /\ msg'[t] = msg[t]
      BY <2>1 DEF MessageTypeOK
    <3>7. \A t \in Threads \ {c} : ReadLatelyBy(t)'
      BY <1>0, <2>0, <3>6, LatelyKept
    <3> QED BY <3>5, <3>7
  <2>2. CASE MessageGoto(c, "strftime seconds", "console") /\ msg' = [msg EXCEPT ![c].second = tm.second]
    <3>1. /\ pc[c] = "strftime seconds" /\ pc'[c] = "console"
          /\ msg'[c].secs = msg[c].secs /\ msg'[c].began = msg[c].began
          /\ msg'[c].minute = msg[c].minute
      BY <2>2 DEF MessageTypeOK
    <3>2. msg'[c].second = tm.second
      BY <2>2 DEF MessageTypeOK
    <3>3. PICK x \in Lately(c) : tm = [minute |-> x \div Minute, second |-> x % Minute]
      BY <3>1 DEF ReadLatelyBy, HasSecs, HasTm
    <3>4. msg'[c].second = x % Minute
      BY <3>2, <3>3
    <3>5. ReadLatelyBy(c)'
      BY <2>0, <3>1, <3>3, <3>4 DEF ReadLatelyBy, HasSecs, HasTm, HasMsec, HasMinute, Stamped, Lately
    <3>6. \A t \in Threads \ {c} : pc'[t] = pc[t] /\ msg'[t] = msg[t]
      BY <2>2 DEF MessageTypeOK
    <3>7. \A t \in Threads \ {c} : ReadLatelyBy(t)'
      BY <1>0, <2>0, <3>6, LatelyKept
    <3> QED BY <3>5, <3>7
  <2> QED BY <1>7, <2>1, <2>2 DEF Strftime
<1>8. ASSUME NEW c \in Threads, PrintLine(c) PROVE ReadLately'
  <2>1. /\ UNCHANGED <<now, tm, oldest, msg>> /\ pc[c] = "console" /\ pc'[c] = "file"
        /\ \A t \in Threads \ {c} : UNCHANGED <<pc[t], msg[t]>>
    BY <1>8 DEF PrintLine, MessageTypeOK
  <2>2. ReadLatelyBy(c)'
    BY <2>1 DEF ReadLatelyBy, HasSecs, HasTm, HasMsec, HasMinute, Stamped, Lately
  <2>3. \A t \in Threads \ {c} : ReadLatelyBy(t)'
    BY <1>0, <2>1, LatelyKept
  <2> QED BY <2>2, <2>3
<1>9. ASSUME NEW c \in Threads, Deliver(c) PROVE ReadLately'
  <2>1. /\ UNCHANGED <<now, tm>> /\ pc'[c] = "idle"
        /\ \A t \in Threads \ {c} : UNCHANGED <<pc[t], msg[t], oldest[t]>>
    BY <1>9 DEF Deliver, MessageTypeOK
  <2>2. ReadLatelyBy(c)'
    BY <2>1 DEF ReadLatelyBy, HasSecs, HasTm, HasMsec, HasMinute, Stamped
  <2>3. \A t \in Threads \ {c} : ReadLatelyBy(t)'
    BY <1>0, <2>1, LatelyKept
  <2> QED BY <2>2, <2>3
<1>10. CASE UNCHANGED msgVars
  <2>1. UNCHANGED <<now, tm, pc, msg, oldest>>
    BY <1>10 DEF msgVars
  <2> QED BY <1>0, <2>1, LatelyKept
<1> HIDE DEF ReadLately
<1> QED BY <1>1, <1>2, <1>3, <1>4, <1>5, <1>6, <1>7, <1>8, <1>9, <1>10 DEF MessageNext

--------------------------------------------------------------------------------
(* A thread that logs alone reads what it has written.                     *)

\* In a step of a thread that is in a call, no other thread is alone.
LEMMA Alone ==
  ASSUME ReadOwn, NEW c \in Threads, InCall(c), NEW t \in Threads, InCall(t), ~shared[t]
  PROVE  t = c /\ ReadOwnBy(c)
BY DEF ReadOwn, ReadOwnBy

\* A step of a thread in its call has only that thread's own fields to keep.
LEMMA OwnByStep ==
  ASSUME ReadOwn, NEW c \in Threads, InCall(c), shared' = shared,
         \A t \in Threads \ {c} : pc'[t] = pc[t],
         ReadOwnBy(c) => ReadOwnBy(c)'
  PROVE  ReadOwn'
<1>1. ASSUME NEW t \in Threads, InCall(t)', ~shared'[t] PROVE ReadOwnBy(t)'
  <2>1. InCall(t)
    BY <1>1 DEF InCall
  <2>2. t = c /\ ReadOwnBy(c)
    BY <1>1, <2>1, Alone
  <2> QED BY <2>2
<1> QED BY <1>1 DEF ReadOwn

LEMMA OwnStep ==
  ASSUME MessageTypeOK, ReadLately, ReadOwn, [MessageNext]_msgVars
  PROVE  ReadOwn'
<1> USE DEF clocked, ghosts, MessageGoto
<1>0. now \in Nat
  BY DEF MessageTypeOK
<1>1. CASE MessageTick
  <2>1. now' = now + 1 /\ UNCHANGED <<tm, pc, msg, shared>>
    BY <1>1 DEF MessageTick
  <2>2. ASSUME NEW t \in Threads, ReadOwnBy(t) PROVE ReadOwnBy(t)'
    <3>1. msg[t].secs \in Nat /\ msg[t].msec \in Nat
      BY DEF MessageTypeOK
    <3>2. msg[t].secs * Second + msg[t].msec \in Nat
      BY <3>1, ClockUnits
    <3> DEFINE stamp == msg[t].secs * Second + msg[t].msec
    <3>3. HasMsec(t) => stamp <= now
      BY <2>2 DEF ReadOwnBy
    <3>4. stamp' = stamp /\ stamp \in Nat
      BY <2>1, <3>2
    <3> HIDE DEF stamp
    <3>5. (HasMsec(t) => stamp <= now)'
      BY <1>0, <2>1, <3>3, <3>4 DEF HasSecs, HasTm, HasMsec
    <3> QED BY <2>1, <2>2, <3>5 DEF ReadOwnBy, InCall, HasSecs, HasTm, HasMsec, HasMinute, Stamped, stamp
  <2> QED BY <2>1, <2>2 DEF ReadOwn, InCall
<1>2. ASSUME NEW word \in Types \cup {"console"}, SetLogType(word) PROVE ReadOwn'
  BY <1>2 DEF SetLogType, ReadOwn, ReadOwnBy, InCall, HasSecs, HasTm, HasMsec, HasMinute, Stamped
<1>3. ASSUME NEW c \in Threads, NEW level \in LogErr .. LogDebug,
             NEW to \in {"queue", "file", "nothing"}, CallMessage(c, level, to)
      PROVE  ReadOwn'
  <2>1. /\ pc'[c] = "time" /\ \A t \in Threads \ {c} : pc'[t] = pc[t]
        /\ shared'[c] = ({u \in Threads \ {c} : InCall(u)} # {})
        /\ \A t \in Threads \ {c} : shared'[t] = (shared[t] \/ InCall(t))
    BY <1>3 DEF CallMessage, MessageTypeOK
  <2>2. ~shared'[c] => ReadOwnBy(c)'
    BY <2>1 DEF ReadOwnBy, InCall, HasSecs, HasTm, HasMsec, HasMinute, Stamped
  <2>3. \A t \in Threads \ {c} : InCall(t)' => shared'[t]
    BY <2>1 DEF InCall
  <2> QED BY <2>2, <2>3 DEF ReadOwn
<1>4. ASSUME NEW c \in Threads, Time(c) PROVE ReadOwn'
  <2>1. /\ shared' = shared /\ pc[c] = "time" /\ pc'[c] = "localtime"
        /\ \A t \in Threads \ {c} : pc'[t] = pc[t]
    BY <1>4 DEF Time, MessageTypeOK
  <2>2. ReadOwnBy(c) => ReadOwnBy(c)'
    BY <2>1 DEF ReadOwnBy, InCall, HasSecs, HasTm, HasMsec, HasMinute, Stamped
  <2> QED BY <2>1, <2>2, OwnByStep DEF InCall
<1>5. ASSUME NEW c \in Threads, Localtime(c) PROVE ReadOwn'
  <2>1. /\ shared' = shared /\ msg' = msg /\ pc[c] = "localtime" /\ pc'[c] = "gettimeofday"
        /\ \A t \in Threads \ {c} : pc'[t] = pc[t]
        /\ tm' = [minute |-> msg[c].secs \div Minute, second |-> msg[c].secs % Minute]
    BY <1>5 DEF Localtime, MessageTypeOK
  <2>2. ReadOwnBy(c) => ReadOwnBy(c)'
    BY <2>1 DEF ReadOwnBy, InCall, HasSecs, HasTm, HasMsec, HasMinute, Stamped
  <2> QED BY <2>1, <2>2, OwnByStep DEF InCall
<1>6. ASSUME NEW c \in Threads, Gettimeofday(c) PROVE ReadOwn'
  <2>1. /\ shared' = shared /\ tm' = tm /\ now' = now
        /\ pc[c] = "gettimeofday" /\ pc'[c] = "strftime"
        /\ \A t \in Threads \ {c} : pc'[t] = pc[t]
        /\ msg'[c].secs = msg[c].secs /\ msg'[c].msec = now % Second
    BY <1>6 DEF Gettimeofday, MessageTypeOK
  <2>2. msg'[c].secs * Second + msg'[c].msec <= now'
    <3>1. msg[c].secs \in Nat /\ msg[c].secs <= now \div Second
      <4>1. msg[c].secs \in msg[c].began \div Second .. now \div Second
        BY <2>1 DEF ReadLately, ReadLatelyBy, HasSecs
      <4> QED BY <4>1 DEF MessageTypeOK
    <3>2. msg[c].secs * Second <= (now \div Second) * Second
      BY <1>0, <3>1, ClockUnits, Divides, TimesMonotone
    <3>3. now = (now \div Second) * Second + (now % Second)
      BY <1>0, ClockUnits, Divides
    <3>4. msg[c].secs * Second \in Nat /\ (now \div Second) * Second \in Nat /\ now % Second \in Nat
      BY <1>0, <3>1, ClockUnits, Divides
    <3> QED BY <2>1, <3>2, <3>3, <3>4
  <2>3. ReadOwnBy(c) => ReadOwnBy(c)'
    BY <2>1, <2>2 DEF ReadOwnBy, InCall, HasSecs, HasTm, HasMsec, HasMinute, Stamped
  <2> QED BY <2>1, <2>3, OwnByStep DEF InCall
<1>7. ASSUME NEW c \in Threads, Strftime(c) PROVE ReadOwn'
  <2>0. now' = now /\ tm' = tm /\ shared' = shared
    BY <1>7 DEF Strftime
  <2>1. CASE MessageGoto(c, "strftime", "strftime seconds") /\ msg' = [msg EXCEPT ![c].minute = tm.minute]
    <3>1. pc[c] = "strftime" /\ pc'[c] = "strftime seconds"
      BY <2>1 DEF MessageTypeOK
    <3>2. \A t \in Threads \ {c} : pc'[t] = pc[t]
      BY <2>1 DEF MessageTypeOK
    <3>3. msg'[c].secs = msg[c].secs /\ msg'[c].msec = msg[c].msec /\ msg'[c].minute = tm.minute
      BY <2>1 DEF MessageTypeOK
    <3>4. ReadOwnBy(c) => msg'[c].minute = msg[c].secs \div Minute
      <4>1. ReadOwnBy(c) => tm = [minute |-> msg[c].secs \div Minute, second |-> msg[c].secs % Minute]
        BY <3>1 DEF ReadOwnBy, HasSecs, HasTm
      <4> QED BY <3>3, <4>1
    <3>5. msg'[c].secs = msg[c].secs /\ msg'[c].msec = msg[c].msec
      BY <3>3
    <3>6. ReadOwnBy(c) => ReadOwnBy(c)'
      BY <2>0, <3>1, <3>2, <3>4, <3>5 DEF ReadOwnBy, InCall, HasSecs, HasTm, HasMsec, HasMinute, Stamped
    <3> QED BY <2>0, <3>1, <3>2, <3>6, OwnByStep DEF InCall
  <2>2. CASE MessageGoto(c, "strftime seconds", "console") /\ msg' = [msg EXCEPT ![c].second = tm.second]
    <3>1. pc[c] = "strftime seconds" /\ pc'[c] = "console"
      BY <2>2 DEF MessageTypeOK
    <3>2. \A t \in Threads \ {c} : pc'[t] = pc[t]
      BY <2>2 DEF MessageTypeOK
    <3>3. /\ msg'[c].secs = msg[c].secs /\ msg'[c].msec = msg[c].msec
          /\ msg'[c].minute = msg[c].minute /\ msg'[c].second = tm.second
      BY <2>2 DEF MessageTypeOK
    <3>4. ReadOwnBy(c) => msg'[c].second = msg[c].secs % Minute
      <4>1. ReadOwnBy(c) => tm = [minute |-> msg[c].secs \div Minute, second |-> msg[c].secs % Minute]
        BY <3>1 DEF ReadOwnBy, HasSecs, HasTm
      <4> QED BY <3>3, <4>1
    <3>5. msg'[c].secs = msg[c].secs /\ msg'[c].msec = msg[c].msec /\ msg'[c].minute = msg[c].minute
      BY <3>3
    <3>6. ReadOwnBy(c) => ReadOwnBy(c)'
      BY <2>0, <3>1, <3>2, <3>4, <3>5 DEF ReadOwnBy, InCall, HasSecs, HasTm, HasMsec, HasMinute, Stamped
    <3> QED BY <2>0, <3>1, <3>2, <3>6, OwnByStep DEF InCall
  <2> QED BY <1>7, <2>1, <2>2 DEF Strftime
<1>8. ASSUME NEW c \in Threads, PrintLine(c) PROVE ReadOwn'
  <2>1. /\ UNCHANGED <<now, tm, msg>> /\ shared' = shared /\ pc[c] = "console" /\ pc'[c] = "file"
        /\ \A t \in Threads \ {c} : pc'[t] = pc[t]
    BY <1>8 DEF PrintLine, MessageTypeOK
  <2>2. ReadOwnBy(c) => ReadOwnBy(c)'
    BY <2>1 DEF ReadOwnBy, InCall, HasSecs, HasTm, HasMsec, HasMinute, Stamped
  <2> QED BY <2>1, <2>2, OwnByStep DEF InCall
<1>9. ASSUME NEW c \in Threads, Deliver(c) PROVE ReadOwn'
  <2>1. /\ pc[c] = "file" /\ pc'[c] = "idle"
        /\ \A t \in Threads \ {c} : pc'[t] = pc[t] /\ shared'[t] = shared[t]
    BY <1>9 DEF Deliver, MessageTypeOK
  <2>2. ASSUME NEW t \in Threads, InCall(t)', ~shared'[t] PROVE FALSE
    <3>1. t # c /\ InCall(t) /\ ~shared[t] /\ InCall(c)
      BY <2>1, <2>2 DEF InCall
    <3> QED BY <3>1, Alone
  <2> QED BY <2>2 DEF ReadOwn
<1>10. CASE UNCHANGED msgVars
  BY <1>10 DEF msgVars, ReadOwn, ReadOwnBy, InCall, HasSecs, HasTm, HasMsec, HasMinute, Stamped
<1> QED BY <1>1, <1>2, <1>3, <1>4, <1>5, <1>6, <1>7, <1>8, <1>9, <1>10 DEF MessageNext

--------------------------------------------------------------------------------
(* The theorems.                                                           *)

LEMMA MessageInitInv == MessageInit => MessageIInv
<1> SUFFICES ASSUME MessageInit PROVE MessageIInv
  OBVIOUS
<1>1. MessageTypeOK
  BY MessageInitTypes
<1>2. \A t \in Threads : pc[t] = "idle"
  BY DEF MessageInit
<1> QED BY <1>1, <1>2 DEF MessageIInv, OldestKnown, ReadLately, ReadLatelyBy, ReadOwn, InCall,
       HasSecs, HasTm, HasMsec, HasMinute, Stamped

\* Whatever threads log at the same time, localtime's one object holds a time
\* that was read since the first of the calls under way began, and a thread
\* that logs alone finds its own time in it.
THEOREM MessageInductive == MessageSpec => []MessageIInv
<1>1. MessageIInv /\ [MessageNext]_msgVars => MessageIInv'
  BY MessageTypes, OldestStep, LatelyStep, OwnStep DEF MessageIInv
<1> QED BY MessageInitInv, <1>1, PTL DEF MessageSpec

\* No thread ever prints a minute or a second that was not true since the first
\* of the calls that overlap with its own began, for any number of threads.
THEOREM Recent == MessageSpec => []FieldsAreRecent
<1>1. MessageIInv => FieldsAreRecent
  <2> SUFFICES ASSUME MessageIInv, NEW t \in Threads, Stamped(t)
               PROVE  \E first, second \in Lately(t) :
                        msg[t].minute = first \div Minute /\ msg[t].second = second % Minute
    BY DEF FieldsAreRecent, Lately
  <2>1. ReadLatelyBy(t) /\ HasMinute(t)
    BY DEF MessageIInv, ReadLately, Stamped, HasMinute, HasMsec, HasTm, HasSecs
  <2>2. PICK first \in Lately(t) : msg[t].minute = first \div Minute
    BY <2>1 DEF ReadLatelyBy
  <2>3. PICK second \in Lately(t) : msg[t].second = second % Minute
    BY <2>1 DEF ReadLatelyBy
  <2> QED BY <2>2, <2>3
<1> QED BY MessageInductive, <1>1, PTL

\* The stamp of a thread that logs alone is not ahead of the clock and less than
\* a second behind the call, wherever the clock moves between the two readings.
THEOREM LoneStamp == MessageSpec => []LoneStampIsClose
<1>1. MessageIInv => LoneStampIsClose
  <2> SUFFICES ASSUME MessageIInv, NEW t \in Threads, Stamped(t), ~shared[t]
               PROVE  msg[t].began - Second < Stamp(t) /\ Stamp(t) <= now
    BY DEF LoneStampIsClose
  <2> DEFINE s == msg[t].secs
             b == msg[t].began
  <2>1. InCall(t) /\ HasSecs(t) /\ HasMsec(t) /\ HasMinute(t)
    BY DEF Stamped, InCall, HasMinute, HasMsec, HasTm, HasSecs
  <2>2. /\ msg[t].minute = s \div Minute /\ msg[t].second = s % Minute
        /\ s * Second + msg[t].msec <= now
    BY <2>1 DEF MessageIInv, ReadOwn, ReadOwnBy
  <2>3. s \in Nat /\ b \in Nat /\ msg[t].msec \in Nat /\ now \in Nat
    BY DEF MessageIInv, MessageTypeOK
  <2>4. Stamp(t) = s * Second + msg[t].msec
    <3>1. (s \div Minute) * Minute + (s % Minute) = s
      BY <2>3, ClockUnits, Divides
    <3> QED BY <2>2, <3>1 DEF Stamp
  <2>5. (b \div Second) * Second <= s * Second
    <3>1. s \in b \div Second .. now \div Second
      BY <2>1 DEF MessageIInv, ReadLately, ReadLatelyBy
    <3>2. b \div Second \in Nat
      BY <2>3, ClockUnits, Divides
    <3> HIDE DEF s, b
    <3> QED BY <2>3, <3>1, <3>2, ClockUnits, TimesMonotone
  <2>6. b < (b \div Second) * Second + Second
    <3>1. b = (b \div Second) * Second + (b % Second) /\ b % Second \in 0 .. Second - 1
          /\ b \div Second \in Nat
      BY <2>3, ClockUnits, Divides
    <3>2. (b \div Second) * Second \in Nat
      BY <3>1, ClockUnits
    <3> HIDE DEF b
    <3> QED BY <3>1, <3>2, ClockUnits
  <2>7. s * Second \in Nat /\ (b \div Second) * Second \in Nat
    BY <2>3, ClockUnits, Divides
  <2> HIDE DEF s, b
  <2>8. b - Second < Stamp(t) /\ Stamp(t) <= now
    BY <2>2, <2>3, <2>4, <2>5, <2>6, <2>7, ClockUnits
  <2> QED BY <2>8 DEF b
<1> QED BY MessageInductive, <1>1, PTL
=============================================================================
