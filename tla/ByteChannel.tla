---------------------------- MODULE ByteChannel ----------------------------
(***************************************************************************)
(* server/byte_channel.cxx and the back-pressure of server/connection.cxx: *)
(* the libuv loop thread reads a streaming connection's socket and pushes  *)
(* the bytes into the channel, the connection's consumer thread takes them *)
(* with read_exact(), and the two regulate each other through the water    *)
(* marks, the paused_ flag and the resume async handle.                    *)
(*                                                                         *)
(* Bytes are counted, not told apart.  blocks_ is kept as the number of    *)
(* bytes left in its front block; the next front block may have any size,  *)
(* which covers every way the buffered bytes can be cut into blocks.       *)
(***************************************************************************)
EXTENDS Naturals

CONSTANTS Low, High,  \* channel_low_water, channel_high_water
          MaxRead,    \* most bytes one socket read brings
          MaxCount,   \* largest count passed to read_exact()
          Total       \* bound: bytes the peer sends before it closes

ASSUME MarksAssumption == Low \in Nat /\ High \in Nat /\ Low < High
ASSUME SizesAssumption == MaxRead \in Nat \ {0} /\ MaxCount \in Nat \ {0}
ASSUME TotalAssumption == Total \in Nat

VARIABLES unsent,                   \* bytes of the peer not yet read here
          lp, raw,                  \* loop thread: pc, bytes of the read in hand
          paused, streaming,        \* Connection: paused_, state_ = Streaming
          resume,                   \* resume_async_ has been sent
          buffered, front, closed,  \* ByteChannel: buffered_, front block, closed_
          cp, need, signaled        \* consumer thread: pc, count - copied, signaled

lvars == <<unsent, lp, raw, paused, streaming>>
cvars == <<cp, need, signaled>>
vars  == <<lvars, resume, buffered, front, closed, cvars>>

min(a, b) == IF a <= b THEN a ELSE b

\* The state at the end of handle_handshake_data(): the bytes that followed
\* the handshake in the same read are about to be pushed.
Init == /\ unsent = Total
        /\ raw \in 0 .. MaxRead
        /\ lp = IF raw > 0 THEN "push" ELSE "idle"
        /\ paused = FALSE /\ streaming = TRUE /\ resume = FALSE
        /\ buffered = 0 /\ front = 0 /\ closed = FALSE
        /\ cp = "idle" /\ need = 0 /\ signaled = FALSE

\* The consumer holds mutex_ from its entry into read_exact() until it waits
\* on data_available_ or returns.
Unlocked == cp # "take"

-----------------------------------------------------------------------------
(* The loop thread *)

\* on_read() with nread > 0: n bytes leave the socket.
LoopRead(n) == /\ lp = "idle" /\ ~paused /\ streaming
               /\ lp' = "push"
               /\ raw' = n
               /\ unsent' = unsent - n
               /\ UNCHANGED <<paused, streaming, resume, buffered, front, closed, cvars>>

\* push(): a plain read is pushed whole, a TLS read record by record.
\* A waiting consumer is notified.
LoopPush(k) == /\ lp = "push" /\ Unlocked
               /\ lp' = "check"
               /\ raw' = raw - k
               /\ IF closed
                  THEN UNCHANGED <<buffered, front, cp>>
                  ELSE /\ buffered' = buffered + k
                       /\ front' = IF buffered = 0 THEN k ELSE front
                       /\ cp' = IF cp = "asleep" THEN "woken" ELSE cp
               /\ UNCHANGED <<unsent, paused, streaming, resume, closed, need, signaled>>

\* Faulty: the socket is only stopped above the mark plus one more read.
PauseLate == ~paused /\ buffered >= High + MaxRead
MustPause == ~paused /\ buffered >= High

apply_backpressure ==
  /\ lp = "check" /\ Unlocked
  /\ paused' = (paused \/ MustPause)
  /\ lp' = IF raw > 0 THEN "push" ELSE "idle"
  /\ UNCHANGED <<unsent, raw, streaming, resume, buffered, front, closed, cvars>>

\* Faulty: a resume that finds the connection paused is forgotten.
on_resume_async_Ignored ==
  /\ lp = "idle" /\ resume
  /\ resume' = FALSE
  /\ UNCHANGED <<lvars, buffered, front, closed, cvars>>
on_resume_async ==
  /\ lp = "idle" /\ resume
  /\ resume' = FALSE
  /\ paused' = IF streaming THEN FALSE ELSE paused
  /\ UNCHANGED <<unsent, lp, raw, streaming, buffered, front, closed, cvars>>

\* Faulty: close() does not wake the consumer.
begin_teardown_Silent ==
  /\ lp = "idle" /\ streaming /\ Unlocked
  /\ streaming' = FALSE
  /\ closed' = TRUE
  /\ UNCHANGED <<unsent, lp, raw, paused, resume, buffered, front, cvars>>
begin_teardown ==
  /\ lp = "idle" /\ streaming /\ Unlocked
  /\ streaming' = FALSE
  /\ closed' = TRUE
  /\ cp' = IF cp = "asleep" THEN "woken" ELSE cp
  /\ UNCHANGED <<unsent, lp, raw, paused, resume, buffered, front, need, signaled>>

\* on_read() with nread < 0: the peer's close is seen only while reading.
LoopEof == ~paused /\ unsent = 0 /\ begin_teardown

\* A write callback reports an error (on_write_tls, on_write_reply).
LoopWriteError == begin_teardown

-----------------------------------------------------------------------------
(* The consumer thread *)

ReadCall(n) == /\ cp = "idle"
               /\ cp' = "take"
               /\ need' = n
               /\ signaled' = FALSE
               /\ UNCHANGED <<lvars, resume, buffered, front, closed>>

ReadWait == /\ cp = "take" /\ buffered = 0 /\ ~closed
            /\ cp' = "asleep"
            /\ UNCHANGED <<lvars, resume, buffered, front, closed, need, signaled>>

ReadWake == /\ cp = "woken"
            /\ cp' = "take"
            /\ UNCHANGED <<lvars, resume, buffered, front, closed, need, signaled>>

ReadFail == /\ cp = "take" /\ buffered = 0 /\ closed
            /\ cp' = "done"
            /\ UNCHANGED <<lvars, resume, buffered, front, closed, need, signaled>>

MustSignal(left) == ~signaled /\ left <= Low

TakeCount == min(need, front)

ReadTake ==
  /\ cp = "take" /\ buffered > 0
  /\ LET take == TakeCount
         left == buffered - take
     IN /\ buffered' = left
        /\ front' \in IF take < front THEN {front - take}
                      ELSE IF left = 0 THEN {0} ELSE 1 .. left
        /\ need' = need - take
        /\ signaled' = (signaled \/ MustSignal(left))
        /\ resume' = (resume \/ MustSignal(left))
        /\ cp' = IF take = need THEN "idle" ELSE "take"
  /\ UNCHANGED <<lvars, closed>>

\* End of the upload, or a protocol error: consumer_main() leaves its loop.
ConsumerExit == /\ cp = "idle"
                /\ cp' = "done"
                /\ UNCHANGED <<lvars, resume, buffered, front, closed, need, signaled>>

LoopStep == \/ \E n \in 1 .. MaxRead : n <= unsent /\ LoopRead(n)
            \/ \E k \in 1 .. MaxRead : k <= raw /\ LoopPush(k)
            \/ apply_backpressure \/ on_resume_async \/ LoopEof

ConsumerStep == \/ \E n \in 1 .. MaxCount : ReadCall(n)
                \/ ReadWait \/ ReadWake \/ ReadFail \/ ReadTake \/ ConsumerExit

Next == LoopStep \/ LoopWriteError \/ ConsumerStep

Spec == Init /\ [][Next]_vars

(* The loop runs its callbacks, the peer sends all its bytes and closes,    *)
(* and the consumer goes on reading until it is told to stop or gives up.  *)
(* resume_async_ is served in the same iteration as the sockets.           *)
FairSpec == /\ Spec
            /\ WF_vars(LoopStep) /\ WF_vars(ConsumerStep)
            /\ WF_vars(on_resume_async)

-----------------------------------------------------------------------------
(* Properties *)

\* The types of the channel, the connection's flags and the two threads.
TypeOK == /\ unsent \in 0 .. Total /\ raw \in 0 .. MaxRead
          /\ lp \in {"idle", "push", "check"}
          /\ paused \in BOOLEAN /\ streaming \in BOOLEAN /\ resume \in BOOLEAN
          /\ buffered \in Nat /\ front \in 0 .. buffered /\ closed \in BOOLEAN
          /\ cp \in {"idle", "take", "asleep", "woken", "done"}
          /\ need \in 0 .. MaxCount /\ signaled \in BOOLEAN

\* connection.cxx:223-228,586-592 - the memory a connection's channel may hold.
\* One read more than the high-water mark is not the bound: a resume sent
\* before the pause and served after it lets one further read in.
BufferBound == buffered + raw <= High - 1 + 2 * MaxRead

\* byte_channel.cxx:56-59 - the consumer is never left waiting for bytes of a
\* socket that nobody is going to read again.
NoStall == ~ (cp = "asleep" /\ paused /\ ~resume /\ lp = "idle" /\ ~closed)

\* connection.cxx:875-888, byte_channel.cxx:32-39,65-69 - once the peer has
\* closed, every read_exact() returns.
ReadReturns == cp # "idle" ~> cp \in {"idle", "done"}

\* server.h:56 "resume once the buffer drains to this" - a paused connection
\* whose buffer has drained to the low-water mark is read again, unless it
\* ends.
ResumesOnceDrained ==
  (paused /\ buffered <= Low) ~> (~paused \/ closed \/ cp = "done")
=============================================================================
