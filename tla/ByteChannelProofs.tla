------------------------- MODULE ByteChannelProofs -------------------------
(***************************************************************************)
(* The byte channel for all water marks, read sizes and streams: the       *)
(* memory bound and the freedom from stalls.                               *)
(***************************************************************************)
EXTENDS ByteChannel, Integers, Sequences, TLAPS

-----------------------------------------------------------------------------
(* The inductive invariant, part by part. *)

\* The front block is empty only when nothing is buffered, a read in progress
\* still needs bytes, and a signal was sent only after a first byte was taken.
ChannelShape == /\ front = 0 <=> buffered = 0
                /\ cp \in {"take", "asleep", "woken"} => need >= 1
                /\ cp \in {"take", "asleep", "woken"} /\ signaled => need < MaxCount
                /\ cp = "asleep" => buffered = 0 \/ closed
                /\ closed <=> ~streaming

\* What can still arrive: a pending resume means the buffer has been at or
\* below Low, and since then at most one pause's worth has been read.
Room == /\ buffered + raw <= High - 1 + 2 * MaxRead
        /\ lp = "idle" => raw = 0
        /\ lp = "push" => raw > 0
        /\ resume => buffered + raw <= High - 1 + MaxRead
        /\ ~paused /\ lp = "idle" => buffered <= High - 1 + MaxRead
        /\ ~paused /\ lp = "idle" /\ resume => buffered < High

\* A pause that nobody has answered yet leaves the consumer enough bytes to
\* finish its read and to begin another one, which will signal.
AnswerDue == paused /\ ~resume /\ streaming /\ cp # "done"
               => /\ buffered > 0
                  /\ cp \in {"take", "asleep", "woken"} /\ signaled => buffered > need

BoundInv == TypeOK /\ ChannelShape /\ Room

-----------------------------------------------------------------------------
(* The memory bound. *)

LEMMA BoundInit == Init => BoundInv
<1> SUFFICES ASSUME Init PROVE BoundInv
  OBVIOUS
<1>1. /\ paused \in BOOLEAN /\ streaming \in BOOLEAN /\ resume \in BOOLEAN
      /\ closed \in BOOLEAN /\ signaled \in BOOLEAN
  BY DEF Init
<1>2. TypeOK
  BY <1>1, MarksAssumption, SizesAssumption, TotalAssumption DEF Init, TypeOK
<1>3. ChannelShape
  BY DEF Init, ChannelShape
<1>4. Room
  BY MarksAssumption, SizesAssumption DEF Init, Room
<1> QED BY <1>2, <1>3, <1>4 DEF BoundInv

LEMMA BoundStep == BoundInv /\ [Next]_vars => BoundInv'
<1> SUFFICES ASSUME BoundInv, [Next]_vars PROVE BoundInv'
  OBVIOUS
<1> USE MarksAssumption, SizesAssumption, TotalAssumption
    DEF BoundInv, TypeOK, ChannelShape, Room
<1>1. ASSUME NEW n \in 1 .. MaxRead, n <= unsent, LoopRead(n) PROVE BoundInv'
  BY <1>1 DEF LoopRead, cvars
<1>2. ASSUME NEW k \in 1 .. MaxRead, k <= raw, LoopPush(k) PROVE BoundInv'
  <2>1. CASE closed
    BY <1>2, <2>1 DEF LoopPush, Unlocked
  <2>2. CASE ~closed
    <3>1. /\ buffered' = buffered + k /\ raw' = raw - k /\ lp' = "check"
          /\ front' = (IF buffered = 0 THEN k ELSE front)
          /\ cp' = (IF cp = "asleep" THEN "woken" ELSE cp)
          /\ UNCHANGED <<unsent, paused, streaming, resume, closed, need, signaled>>
      BY <1>2, <2>2 DEF LoopPush
    <3> QED BY <1>2, <3>1
  <2> QED BY <2>1, <2>2
<1>3. CASE apply_backpressure
  <2>1. paused' \in BOOLEAN /\ (~paused' => buffered < High)
    BY <1>3 DEF apply_backpressure, MustPause
  <2> QED BY <1>3, <2>1 DEF apply_backpressure, Unlocked, cvars
<1>4. CASE on_resume_async
  <2>1. resume' \in BOOLEAN /\ ~resume' /\ paused' \in BOOLEAN
    BY <1>4 DEF on_resume_async
  <2>2. /\ UNCHANGED <<unsent, lp, raw, streaming, buffered, front, closed, cp, need, signaled>>
        /\ lp = "idle" /\ buffered + raw <= High - 1 + MaxRead
    BY <1>4 DEF on_resume_async, cvars
  <2> QED BY <2>1, <2>2
<1>5. CASE begin_teardown
  <2>1. closed' \in BOOLEAN /\ streaming' \in BOOLEAN /\ closed' /\ ~streaming'
    BY <1>5 DEF begin_teardown
  <2> QED BY <1>5, <2>1 DEF begin_teardown, Unlocked
<1>6. ASSUME NEW n \in 1 .. MaxCount, ReadCall(n) PROVE BoundInv'
  <2>1. signaled' \in BOOLEAN /\ ~signaled'
    BY <1>6 DEF ReadCall
  <2> QED BY <1>6, <2>1 DEF ReadCall, lvars
<1>7. CASE ReadWait
  BY <1>7 DEF ReadWait, lvars
<1>8. CASE ReadWake
  BY <1>8 DEF ReadWake, lvars
<1>9. CASE ReadFail
  BY <1>9 DEF ReadFail, lvars
<1>10. CASE ReadTake
  BY <1>10 DEF ReadTake, TakeCount, MustSignal, min, lvars
<1>11. CASE ConsumerExit
  BY <1>11 DEF ConsumerExit, lvars
<1>12. CASE UNCHANGED vars
  BY <1>12 DEF vars, lvars, cvars
<1> QED
  BY <1>1, <1>2, <1>3, <1>4, <1>5, <1>6, <1>7, <1>8, <1>9, <1>10, <1>11, <1>12
  DEF Next, LoopStep, LoopEof, LoopWriteError, ConsumerStep

\* byte_channel.cxx, connection.cxx - the types hold in every behaviour: in
\* particular buffered_ never underflows and the front block never outgrows it.
THEOREM ChannelTypeCorrect == Spec => []TypeOK
<1>1. BoundInv => TypeOK BY DEF BoundInv
<1> QED BY <1>1, BoundInit, BoundStep, PTL DEF Spec

\* connection.cxx:223-228,586-592 - the channel's memory is bounded by the
\* high-water mark and two reads, for every peer and every consumer.
THEOREM ChannelBufferBound == Spec => []BufferBound
<1>1. BoundInv => BufferBound BY DEF BoundInv, Room, BufferBound
<1> QED BY <1>1, BoundInit, BoundStep, PTL DEF Spec

-----------------------------------------------------------------------------
(* No stall, when no read asks for more than the high-water mark. *)

LEMMA AnswerInit == Init => AnswerDue
  BY DEF Init, AnswerDue

LEMMA AnswerStep ==
  ASSUME MaxCount <= High, BoundInv, AnswerDue, [Next]_vars
  PROVE  AnswerDue'
<1> USE MarksAssumption, SizesAssumption DEF BoundInv, TypeOK, ChannelShape, AnswerDue
<1>1. ASSUME NEW n \in 1 .. MaxRead, n <= unsent, LoopRead(n) PROVE AnswerDue'
  BY <1>1 DEF LoopRead, cvars
<1>2. ASSUME NEW k \in 1 .. MaxRead, k <= raw, LoopPush(k) PROVE AnswerDue'
  <2>1. CASE closed
    BY <1>2, <2>1 DEF LoopPush
  <2>2. CASE ~closed
    <3>1. /\ buffered' = buffered + k
          /\ cp' = (IF cp = "asleep" THEN "woken" ELSE cp)
          /\ UNCHANGED <<paused, streaming, resume, need, signaled>>
      BY <1>2, <2>2 DEF LoopPush
    <3> QED BY <1>2, <3>1
  <2> QED BY <2>1, <2>2
<1>3. CASE apply_backpressure
  <2>1. CASE paused' = paused
    BY <1>3, <2>1 DEF apply_backpressure, cvars
  <2>2. CASE paused' # paused
    \* The pause finds High bytes, and a read that has signalled needs fewer.
    <3>1. buffered >= High
      BY <1>3, <2>2 DEF apply_backpressure, MustPause
    <3> QED BY <1>3, <3>1 DEF apply_backpressure, cvars
  <2> QED BY <2>1, <2>2
<1>4. CASE on_resume_async
  <2>1. streaming' = streaming /\ (streaming => paused' = FALSE)
    BY <1>4 DEF on_resume_async
  <2> QED BY <2>1
<1>5. CASE begin_teardown
  BY <1>5 DEF begin_teardown
<1>6. ASSUME NEW n \in 1 .. MaxCount, ReadCall(n) PROVE AnswerDue'
  <2>1. ~signaled'
    BY <1>6 DEF ReadCall
  <2> QED BY <1>6, <2>1 DEF ReadCall, lvars
<1>7. CASE ReadWait
  BY <1>7 DEF ReadWait, lvars
<1>8. CASE ReadWake
  BY <1>8 DEF ReadWake, lvars
<1>9. CASE ReadFail
  BY <1>9 DEF ReadFail, lvars
<1>10. CASE ReadTake
  <2> DEFINE take == min(need, front)
  <2>1. take \in 1 .. need /\ take <= front /\ take <= buffered
    BY <1>10 DEF ReadTake, min
  <2>2. /\ buffered' = buffered - take /\ need' = need - take
        /\ cp = "take" /\ cp' = (IF take = need THEN "idle" ELSE "take")
        /\ UNCHANGED <<paused, streaming>>
    BY <1>10 DEF ReadTake, TakeCount, lvars
  <2>3. CASE ~signaled /\ buffered - take <= Low
    <3>1. resume'
      BY <1>10, <2>3 DEF ReadTake, TakeCount, MustSignal
    <3> QED BY <3>1
  <2>4. CASE ~signaled /\ buffered - take > Low
    <3>1. ~signaled'
      BY <1>10, <2>4 DEF ReadTake, TakeCount, MustSignal
    <3> QED BY <2>2, <2>4, <3>1
  <2>5. CASE signaled
    <3>1. resume => resume'
      BY <1>10 DEF ReadTake
    <3> QED BY <2>1, <2>2, <2>5, <3>1
  <2> QED BY <2>1, <2>3, <2>4, <2>5
<1>11. CASE ConsumerExit
  BY <1>11 DEF ConsumerExit, lvars
<1>12. CASE UNCHANGED vars
  BY <1>12 DEF vars, lvars, cvars
<1> QED
  BY <1>1, <1>2, <1>3, <1>4, <1>5, <1>6, <1>7, <1>8, <1>9, <1>10, <1>11, <1>12
  DEF Next, LoopStep, LoopEof, LoopWriteError, ConsumerStep

\* byte_channel.cxx:56-59 - one signal per read_exact() is enough as long as no
\* read is longer than the high-water mark: the connection never stalls.
THEOREM ChannelNoStall == ASSUME MaxCount <= High PROVE Spec => []NoStall
<1>1. BoundInv /\ AnswerDue => NoStall
  BY DEF BoundInv, TypeOK, ChannelShape, AnswerDue, NoStall
<1>2. Init => BoundInv /\ AnswerDue
  BY BoundInit, AnswerInit
<1>3. (BoundInv /\ AnswerDue) /\ [Next]_vars => (BoundInv /\ AnswerDue)'
  BY BoundStep, AnswerStep
<1> QED BY <1>1, <1>2, <1>3, PTL DEF Spec
=============================================================================
