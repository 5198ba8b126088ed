-------------------------- MODULE ConnectionProofs --------------------------
(***************************************************************************)
(* The life of a connection for any number of messages, all water marks    *)
(* and all writes that may fail: what holds when the object is deleted,    *)
(* that nothing is done to it afterwards, and how its teardown goes on.    *)
(***************************************************************************)
EXTENDS Connection, Integers, TLAPS

-----------------------------------------------------------------------------
(* The inductive invariant, part by part. *)

WriteRequest == [kind : WriteKind, after : BOOLEAN]

\* Every member the loop thread keeps has its type.
Members == [state : {"Handshaking", "Streaming", "Closing"},
            teardown : BOOLEAN, started : BOOLEAN, closing : BOOLEAN,
            handles : SUBSET Handle, writes : Seq(WriteRequest),
            tls : BOOLEAN, proto : {"undecided", "dicker", "http"}, answered : BOOLEAN, last : BOOLEAN,
            paused : BOOLEAN, closed : BOOLEAN]

\* What the member functions keep true of the loop thread's members: a teardown
\* that has not closed the handles has closed the channel of a consumer; the
\* socket is closed last of all writes; nothing is closed before its time.
Sound(d) == /\ d \in Members
            /\ d.closing => d.teardown
            /\ d.teardown /\ ~d.closing => d.started /\ d.closed
            /\ d.state = "Handshaking" => ~d.started /\ ~d.teardown
            /\ ~d.closing => d.handles = Handle
            /\ "tcp" \notin d.handles => d.writes = <<>>

\* A member function starts no consumer and closes no handle, and begins to
\* close them only if there is no consumer.
Kept(d, e) == /\ Sound(e) /\ e.started = d.started /\ e.handles = d.handles
              /\ d.closing => e.closing
              /\ e.closing => d.closing \/ ~d.started

LEMMA KeptSelf == ASSUME NEW d, Sound(d) PROVE Kept(d, d)
  BY DEF Kept, Sound, Members

LEMMA KeptTwice ==
  ASSUME NEW d, NEW e, NEW f, Kept(d, e), Kept(e, f) PROVE Kept(d, f)
  BY DEF Kept

LEMMA TeardownKept ==
  ASSUME NEW d, Sound(d) PROVE Kept(d, begin_teardown(d))
<1> DEFINE e == [d EXCEPT !.teardown = TRUE, !.state = "Closing"]
<1>1. CASE d.teardown
  BY <1>1, KeptSelf DEF begin_teardown
<1>2. CASE ~d.teardown /\ d.started
  <2> DEFINE f == [e EXCEPT !.closed = TRUE]
  <2>1. f \in Members /\ f.teardown = TRUE /\ f.state = "Closing" /\ f.closed = TRUE
        /\ f.started = d.started /\ f.handles = d.handles /\ f.closing = d.closing
        /\ f.writes = d.writes
    BY DEF Sound, Members
  <2>2. begin_teardown(d) = f
    BY <1>2 DEF begin_teardown
  <2> HIDE DEF f
  <2> QED BY <1>2, <2>1, <2>2 DEF Kept, Sound
<1>3. CASE ~d.teardown /\ ~d.started
  <2> DEFINE f == [e EXCEPT !.closing = TRUE]
  <2>1. f \in Members /\ f.teardown = TRUE /\ f.state = "Closing" /\ f.closing = TRUE
        /\ f.started = d.started /\ f.handles = d.handles /\ f.writes = d.writes
    BY DEF Sound, Members
  <2>2. begin_teardown(d) = f
    BY <1>3 DEF begin_teardown, finalize_close
  <2> HIDE DEF f
  <2> QED BY <1>3, <2>1, <2>2 DEF Kept, Sound
<1> QED BY <1>1, <1>2, <1>3 DEF Sound, Members

\* A refused write tears down, an accepted one waits on an open socket.
LEMMA WrittenKept ==
  ASSUME NEW d, Sound(d), NEW kind \in WriteKind, NEW after \in BOOLEAN,
         NEW e \in Written(d, kind, after)
  PROVE  Kept(d, e)
<1> DEFINE w == [kind |-> kind, after |-> after]
           f == [d EXCEPT !.writes = Append(@, w)]
<1>1. (~d.closing /\ e = f) \/ e = begin_teardown(d)
  BY DEF Written
<1>2. ASSUME ~d.closing, e = f PROVE Kept(d, e)
  <2>1. w \in WriteRequest
    BY DEF WriteRequest
  <2>2. Append(d.writes, w) \in Seq(WriteRequest)
    BY <2>1 DEF Sound, Members
  <2> HIDE DEF w
  <2>3. /\ f \in Members /\ f.state = d.state /\ f.teardown = d.teardown
        /\ f.started = d.started /\ f.closing = d.closing /\ f.closed = d.closed
        /\ f.handles = d.handles
    BY <2>2 DEF Sound, Members
  <2>4. "tcp" \in d.handles
    BY <1>2 DEF Sound, Handle
  <2> HIDE DEF f
  <2> QED BY <1>2, <2>3, <2>4 DEF Kept, Sound
<1> QED BY <1>1, <1>2, TeardownKept

\* The same when the function first sets members that the life does not depend on.
LEMMA NotedKept ==
  ASSUME NEW d, Sound(d), NEW e, e \in Members,
         e.state = d.state, e.teardown = d.teardown, e.started = d.started,
         e.closing = d.closing, e.closed = d.closed, e.handles = d.handles,
         e.writes = d.writes
  PROVE  Kept(d, e)
  BY DEF Kept, Sound

LEMMA PumpKept ==
  ASSUME NEW d, Sound(d), NEW e \in pump_download(d)
  PROVE  Kept(d, e)
<1>1. CASE e = begin_teardown(d)
  BY <1>1, TeardownKept
<1>2. ASSUME NEW last \in BOOLEAN,
             e \in Written([d EXCEPT !.last = last], "download", FALSE)
      PROVE  Kept(d, e)
  <2> DEFINE f == [d EXCEPT !.last = last]
  <2>1. /\ f \in Members /\ f.state = d.state /\ f.teardown = d.teardown
        /\ f.started = d.started /\ f.closing = d.closing /\ f.closed = d.closed
        /\ f.handles = d.handles /\ f.writes = d.writes
    BY DEF Sound, Members
  <2>2. Kept(d, f)
    BY <2>1, NotedKept
  <2> HIDE DEF f
  <2>3. Sound(f)
    BY <2>2 DEF Kept
  <2>5. e \in Written(f, "download", FALSE)
    BY <1>2 DEF f
  <2>6. "download" \in WriteKind /\ FALSE \in BOOLEAN
    BY DEF WriteKind
  <2>4. Kept(f, e)
    BY <2>3, <2>5, <2>6, WrittenKept, Zenon
  <2> QED BY <2>2, <2>4, KeptTwice
<1> QED BY <1>1, <1>2 DEF pump_download

-----------------------------------------------------------------------------
(* The inductive invariant of a connection's life. *)

\* Who may still call on the object: the consumer has been started or not, its
\* last wakeup is under way until it is served, and the loop joins it, or the
\* object is deleted, just when the last handle is closed.
LifeInv ==
  /\ Sound(c)
  /\ loop \in {"run", "join"} /\ deleted \in BOOLEAN
  /\ consumer \in {"none", "reading", "posting", "leaving", "done"}
  /\ c.started <=> consumer # "none"
  /\ "close" \in asyncs => consumer = "done"
  /\ consumer = "done" /\ ~c.closing => "close" \in asyncs
  /\ c.handles = {} <=> loop = "join" \/ deleted
  /\ loop = "join" => c.started /\ ~deleted
  /\ deleted => consumer \in {"none", "done"}

\* When the reply that starts the consumer is never refused, the handles are
\* closed only after the consumer's last call.
Orderly == c.closing /\ c.started => consumer = "done"

LEMMA FreshSound == ASSUME NEW tls \in BOOLEAN PROVE Sound(Fresh(tls)) /\ ~Fresh(tls).started
<1> DEFINE d == Fresh(tls)
<1>1. <<>> \in Seq(WriteRequest)
  OBVIOUS
<1>4. d \in Members
  BY <1>1 DEF Members, Fresh
<1>2. /\ d.state = "Handshaking" /\ d.teardown = FALSE /\ d.started = FALSE
      /\ d.closing = FALSE /\ d.handles = Handle /\ d.writes = <<>>
  BY DEF Fresh
<1> HIDE DEF d
<1>3. Sound(d) /\ ~d.started
  BY <1>2, <1>4 DEF Sound
<1> QED BY <1>3 DEF d

LEMMA LifeInit == Init => LifeInv /\ Orderly
<1> SUFFICES ASSUME Init PROVE LifeInv /\ Orderly
  OBVIOUS
<1>1. PICK tls \in BOOLEAN : c \in {Fresh(tls), begin_teardown(Fresh(tls))}
  BY DEF Init
<1>2. Kept(Fresh(tls), c)
  BY <1>1, FreshSound, KeptSelf, TeardownKept
<1>3. Sound(c) /\ ~c.started /\ c.handles = Handle
  BY <1>2, FreshSound DEF Kept, Fresh
<1>4. /\ loop = "run" /\ deleted = FALSE /\ consumer = "none" /\ asyncs = {}
  BY DEF Init
<1> QED BY <1>3, <1>4 DEF LifeInv, Orderly, Handle

\* A callback that does to the members what the member functions do.
LEMMA CallbackStep ==
  ASSUME LifeInv, Kept(c, c'), UNCHANGED <<loop, deleted, consumer>>,
         asyncs' = asyncs \/ \E w \in {"resume", "outbox"} : asyncs' = asyncs \ {w}
  PROVE  LifeInv' /\ (Orderly => Orderly')
<1>1. "close" \in asyncs' <=> "close" \in asyncs
  OBVIOUS
<1> QED BY <1>1 DEF LifeInv, Kept, Orderly, Sound, Members

\* The kinds of write the callbacks make.
LEMMA KindsWritten ==
  /\ {"ok", "reject", "outbox", "record", "http", "download"} \subseteq WriteKind
  /\ TRUE \in BOOLEAN /\ FALSE \in BOOLEAN
  BY DEF WriteKind

LEMMA ReceiveStep ==
  ASSUME LifeInv, TlsRecord \/ Reject \/ Http
  PROVE  LifeInv' /\ (Orderly => Orderly')
<1>1. Sound(c)
  BY DEF LifeInv
<1>2. ASSUME NEW d, d \in Members,
             d.state = c.state, d.teardown = c.teardown, d.started = c.started,
             d.closing = c.closing, d.closed = c.closed, d.handles = c.handles,
             d.writes = c.writes,
             NEW kind \in WriteKind, NEW after \in BOOLEAN,
             c' \in Written(d, kind, after)
      PROVE  Kept(c, c')
  <2>1. Kept(c, d)
    BY <1>1, <1>2, NotedKept
  <2>2. Sound(d)
    BY <2>1 DEF Kept
  <2>3. Kept(d, c')
    BY <1>2, <2>2, WrittenKept
  <2> QED BY <2>1, <2>3, KeptTwice
<1>3. UNCHANGED <<loop, deleted, consumer, asyncs>>
  BY DEF TlsRecord, Reject, Http
<1>4. CASE TlsRecord
  <2>1. c' \in Written(c, "record", FALSE)
    BY <1>4 DEF TlsRecord
  <2>2. Kept(c, c')
    BY <1>1, <2>1, KindsWritten, WrittenKept
  <2> QED BY <1>3, <2>2, CallbackStep
<1>5. CASE Reject
  <2> DEFINE d == [c EXCEPT !.proto = "dicker"]
  <2>1. c' \in Written(d, "reject", TRUE)
    BY <1>5 DEF Reject
  <2>2. /\ d \in Members /\ d.state = c.state /\ d.teardown = c.teardown
        /\ d.started = c.started /\ d.closing = c.closing /\ d.closed = c.closed
        /\ d.handles = c.handles /\ d.writes = c.writes
    BY <1>1 DEF Sound, Members
  <2> HIDE DEF d
  <2>3. Kept(c, c')
    BY <1>2, <2>1, <2>2, KindsWritten
  <2> QED BY <1>3, <2>3, CallbackStep
<1>6. CASE Http
  <2> DEFINE d == [c EXCEPT !.proto = "http", !.answered = TRUE]
  <2>1. c' \in Written(d, "http", TRUE) \/ c' \in Written(d, "download", FALSE)
    BY <1>6 DEF Http
  <2>2. /\ d \in Members /\ d.state = c.state /\ d.teardown = c.teardown
        /\ d.started = c.started /\ d.closing = c.closing /\ d.closed = c.closed
        /\ d.handles = c.handles /\ d.writes = c.writes
    BY <1>1 DEF Sound, Members
  <2> HIDE DEF d
  <2>3. Kept(c, c')
    BY <1>2, <2>1, <2>2, KindsWritten
  <2> QED BY <1>3, <2>3, CallbackStep
<1> QED BY <1>4, <1>5, <1>6

\* The consumer is started on a connection that may, if the reply was refused,
\* be closing already.
LEMMA AcceptStep ==
  ASSUME LifeInv, Accept
  PROVE  LifeInv' /\ ("ok" \notin FailingWrites => Orderly')
<1> DEFINE e == [c EXCEPT !.proto = "dicker"]
<1>1. PICK d \in Written(e, "ok", FALSE), leftover \in 0 .. 1 :
        c' = apply_backpressure([d EXCEPT !.state = "Streaming", !.started = TRUE], leftover)
  BY DEF Accept
<1>2. /\ loop = "run" /\ ~deleted /\ ~c.closing /\ c.state = "Handshaking"
      /\ consumer' = "reading" /\ UNCHANGED <<loop, deleted, asyncs>>
  BY DEF Accept, Message, Reading, Running
<1>3. Sound(c) /\ ~c.started /\ ~c.teardown /\ c.handles = Handle
  BY <1>2 DEF LifeInv, Sound
<1>4. /\ e \in Members /\ e.state = c.state /\ e.teardown = c.teardown
      /\ e.started = c.started /\ e.closing = c.closing /\ e.closed = c.closed
      /\ e.handles = c.handles /\ e.writes = c.writes
  BY <1>3 DEF Sound, Members
<1> HIDE DEF e
<1>5. Kept(c, e) /\ Sound(e)
  BY <1>3, <1>4, NotedKept DEF Kept
<1>6. Kept(e, d)
  BY <1>1, <1>5, KindsWritten, WrittenKept
<1>7. /\ Sound(d) /\ d \in Members /\ ~d.started /\ d.handles = Handle
      /\ d.teardown <=> d.closing
  BY <1>3, <1>4, <1>6 DEF Kept, Sound
<1>8. /\ c' \in Members /\ c'.state = "Streaming" /\ c'.started = TRUE
      /\ c'.teardown = d.teardown /\ c'.closing = d.closing /\ c'.closed = d.closed
      /\ c'.handles = d.handles /\ c'.writes = d.writes
  BY <1>1, <1>7 DEF Members, apply_backpressure
<1>9. Sound(c')
  BY <1>7, <1>8 DEF Sound, Handle
<1>10. LifeInv'
  BY <1>2, <1>3, <1>7, <1>8, <1>9 DEF LifeInv, Handle
<1>11. ASSUME "ok" \notin FailingWrites PROVE Orderly'
  <2>1. d = [e EXCEPT !.writes = Append(@, [kind |-> "ok", after |-> FALSE])]
    BY <1>1, <1>2, <1>4, <1>11 DEF Written
  <2>2. d.closing = e.closing
    BY <1>4, <2>1 DEF Members
  <2> QED BY <1>2, <1>4, <1>8, <2>2 DEF Orderly
<1> QED BY <1>10, <1>11

\* The other callbacks of the socket and of the writes.
LEMMA SocketStep ==
  ASSUME LifeInv, Data \/ ReadFails \/ WriteDone
  PROVE  LifeInv' /\ (Orderly => Orderly')
<1>1. Sound(c)
  BY DEF LifeInv
<1>2. UNCHANGED <<loop, deleted, consumer, asyncs>>
  BY DEF Data, ReadFails, WriteDone
<1>3. CASE Data
  <2>1. /\ c' \in Members /\ c'.state = c.state /\ c'.teardown = c.teardown
        /\ c'.started = c.started /\ c'.closing = c.closing /\ c'.closed = c.closed
        /\ c'.handles = c.handles /\ c'.writes = c.writes
    BY <1>1, <1>3 DEF Data, apply_backpressure, Sound, Members
  <2>2. Kept(c, c')
    BY <1>1, <2>1, NotedKept
  <2> QED BY <1>2, <2>2, CallbackStep
<1>4. CASE ReadFails
  <2>1. Kept(c, c')
    BY <1>1, <1>4, TeardownKept DEF ReadFails
  <2> QED BY <1>2, <2>1, CallbackStep
<1>5. CASE WriteDone
  <2> DEFINE d == [c EXCEPT !.writes = Tail(@)]
  <2>1. /\ c.writes # <<>>
        /\ c' = d \/ c' = begin_teardown(d) \/ c' \in pump_download(d)
    BY <1>5 DEF WriteDone
  <2>2. Tail(c.writes) \in Seq(WriteRequest) /\ "tcp" \in c.handles
    BY <1>1, <2>1 DEF Sound, Members
  <2>3. /\ d \in Members /\ d.state = c.state /\ d.teardown = c.teardown
        /\ d.started = c.started /\ d.closing = c.closing /\ d.closed = c.closed
        /\ d.handles = c.handles
    BY <1>1, <2>2 DEF Sound, Members
  <2> HIDE DEF d
  <2>4. Kept(c, d) /\ Sound(d)
    BY <1>1, <2>2, <2>3 DEF Kept, Sound
  <2>5. Kept(d, c')
    BY <2>1, <2>4, KeptSelf, TeardownKept, PumpKept
  <2>6. Kept(c, c')
    BY <2>4, <2>5, KeptTwice
  <2> QED BY <1>2, <2>6, CallbackStep
<1> QED BY <1>3, <1>4, <1>5

\* The three wakeups.
LEMMA WakeupStep ==
  ASSUME LifeInv, on_resume_async \/ on_outbox_async \/ on_close_async
  PROVE  LifeInv' /\ (Orderly => Orderly')
<1>1. Sound(c)
  BY DEF LifeInv
<1>2. UNCHANGED <<loop, deleted, consumer>> /\ loop = "run" /\ ~deleted /\ ~c.closing
  BY DEF on_resume_async, on_outbox_async, on_close_async,
         Woken, Running
<1>3. CASE on_resume_async
  <2>1. /\ c' \in Members /\ c'.state = c.state /\ c'.teardown = c.teardown
        /\ c'.started = c.started /\ c'.closing = c.closing /\ c'.closed = c.closed
        /\ c'.handles = c.handles /\ c'.writes = c.writes
    BY <1>1, <1>3 DEF on_resume_async, Sound, Members
  <2>2. Kept(c, c')
    BY <1>1, <2>1, NotedKept
  <2>3. asyncs' = asyncs \ {"resume"}
    BY <1>3 DEF on_resume_async, Woken
  <2> QED BY <1>2, <2>2, <2>3, CallbackStep
<1>4. CASE on_outbox_async
  <2>1. c' = c \/ c' \in Written(c, "outbox", FALSE)
    BY <1>4 DEF on_outbox_async
  <2>2. Kept(c, c')
    BY <1>1, <2>1, KindsWritten, KeptSelf, WrittenKept
  <2>3. asyncs' = asyncs \ {"outbox"}
    BY <1>4 DEF on_outbox_async, Woken
  <2> QED BY <1>2, <2>2, <2>3, CallbackStep
<1>5. CASE on_close_async
  <2>1. consumer = "done" /\ asyncs' = asyncs \ {"close"}
    BY <1>5 DEF on_close_async, Woken, LifeInv
  <2>2. /\ c' \in Members /\ c'.state = "Closing" /\ c'.teardown = TRUE /\ c'.closing = TRUE
        /\ c'.started = c.started /\ c'.handles = c.handles /\ c'.writes = c.writes
    BY <1>1, <1>5 DEF on_close_async, finalize_close, Sound, Members
  <2>3. Sound(c')
    BY <1>1, <2>2 DEF Sound
  <2> QED BY <1>2, <2>1, <2>2, <2>3 DEF LifeInv, Orderly
<1> QED BY <1>3, <1>4, <1>5

\* The handles are closed one by one, the consumer is joined.
LEMMA EndStep ==
  ASSUME LifeInv, on_handle_closed \/ Joined \/ PeerGone
  PROVE  LifeInv' /\ (Orderly => Orderly')
<1>1. CASE on_handle_closed
  <2>1. PICK h \in Handle :
          /\ MayClose(h)
          /\ c' = [c EXCEPT !.handles = @ \ {h}]
          /\ loop' = IF IsLast(h) /\ c.started THEN "join" ELSE "run"
          /\ deleted' = (IsLast(h) /\ ~c.started)
    BY <1>1 DEF on_handle_closed
  <2>2. /\ c.closing /\ loop = "run" /\ ~deleted /\ UNCHANGED <<consumer, asyncs>>
    BY <1>1 DEF on_handle_closed, Running
  <2>3. c.handles \ {h} \in SUBSET Handle
    BY DEF LifeInv, Sound, Members
  <2>4. /\ c' \in Members /\ c'.state = c.state /\ c'.teardown = c.teardown
        /\ c'.closing = c.closing /\ c'.closed = c.closed /\ c'.started = c.started
        /\ c'.handles = c.handles \ {h} /\ c'.writes = c.writes
    BY <2>1, <2>3 DEF LifeInv, Sound, Members
  <2>5. "tcp" \notin c'.handles => c.writes = <<>>
    BY <2>1, <2>4 DEF MayClose, LifeInv, Sound
  <2>6. Sound(c')
    BY <2>2, <2>4, <2>5 DEF LifeInv, Sound
  <2>7. c'.handles = {} <=> IsLast(h)
    BY <2>1, <2>4 DEF MayClose, IsLast
  <2>8. deleted' \in BOOLEAN /\ loop' \in {"run", "join"}
    BY <2>1
  <2>9. c.started \in BOOLEAN
    BY DEF LifeInv, Sound, Members
  <2>10. /\ deleted' <=> (c'.handles = {} /\ ~c.started)
         /\ loop' = "join" <=> (c'.handles = {} /\ c.started)
    BY <2>1, <2>7
  <2> QED BY <2>2, <2>4, <2>6, <2>8, <2>9, <2>10 DEF LifeInv, Orderly
<1>2. CASE Joined
  <2>1. /\ loop = "join" /\ loop' = "run" /\ deleted' = TRUE /\ consumer = "done"
        /\ UNCHANGED <<c, consumer, asyncs>>
    BY <1>2 DEF Joined
  <2> QED BY <2>1 DEF LifeInv, Orderly
<1>3. CASE PeerGone
  <2>1. UNCHANGED <<c, loop, deleted, consumer, asyncs>>
    BY <1>3 DEF PeerGone
  <2> QED BY <2>1 DEF LifeInv, Orderly
<1> QED BY <1>1, <1>2, <1>3

\* The consumer thread.
LEMMA ConsumerStepLife ==
  ASSUME LifeInv, Consumer
  PROVE  LifeInv' /\ (Orderly => Orderly')
<1>1. UNCHANGED <<c, loop, deleted>>
  BY DEF Consumer, ConsumerRead, post, ConsumerCutOff, ConsumerExit
<1>2. CASE ConsumerExit
  <2>1. consumer = "leaving" /\ consumer' = "done"
        /\ asyncs' = IF c.closing THEN asyncs ELSE asyncs \cup {"close"}
    BY <1>2 DEF ConsumerExit, Send
  <2> QED BY <1>1, <2>1 DEF LifeInv, Orderly
<1>3. CASE ~ConsumerExit
  <2>1. /\ consumer \in {"reading", "posting"}
        /\ consumer' \in {"reading", "posting", "leaving"}
        /\ "close" \in asyncs' <=> "close" \in asyncs
    BY <1>3 DEF Consumer, ConsumerRead, post, ConsumerCutOff, Send
  <2> QED BY <1>1, <2>1 DEF LifeInv, Orderly
<1> QED BY <1>2, <1>3

LEMMA LifeStep ==
  LifeInv /\ [Next]_vars
    => LifeInv' /\ ("ok" \notin FailingWrites /\ Orderly => Orderly')
<1> SUFFICES ASSUME LifeInv, [Next]_vars
             PROVE  LifeInv' /\ ("ok" \notin FailingWrites /\ Orderly => Orderly')
  OBVIOUS
<1>1. CASE UNCHANGED vars
  <2>1. UNCHANGED <<c, loop, deleted, consumer, asyncs>>
    BY <1>1 DEF vars
  <2> QED BY <2>1 DEF LifeInv, Orderly
<1>2. CASE Next
  BY <1>2, ReceiveStep, AcceptStep, SocketStep, WakeupStep, EndStep, ConsumerStepLife
  DEF Next
<1> QED BY <1>1, <1>2

LEMMA LifeAlways == Spec => []LifeInv
<1>1. Init => LifeInv
  BY LifeInit
<1>2. LifeInv /\ [Next]_vars => LifeInv'
  BY LifeStep
<1> QED BY <1>1, <1>2, PTL DEF Spec

LEMMA OrderlyAlways == ASSUME "ok" \notin FailingWrites PROVE Spec => [](LifeInv /\ Orderly)
<1>1. Init => LifeInv /\ Orderly
  BY LifeInit
<1>2. (LifeInv /\ Orderly) /\ [Next]_vars => (LifeInv /\ Orderly)'
  BY LifeStep
<1> QED BY <1>1, <1>2, PTL DEF Spec

\* connection.cxx:909-941 - whatever fails, the object is deleted only when every
\* handle is closed, every write has had its callback and the consumer thread, if
\* there was one, has ended.
DeletedAlone == deleted => /\ c.writes = <<>> /\ c.handles = {}
                           /\ consumer \in {"none", "done"}

\* DeletedAlone holds in every behaviour, also when the first reply is refused.
THEOREM ConnectionDeletedAlone == Spec => []DeletedAlone
<1>1. LifeInv => DeletedAlone
  BY DEF LifeInv, Sound, DeletedAlone
<1> QED BY <1>1, LifeAlways, PTL

\* connection.cxx:176-228,586-602,875-941 - after the delete no callback and no
\* step of the consumer reads or writes a member: what belongs to the object
\* does not change any more.
NotUsedAfterDelete ==
  [][deleted => UNCHANGED <<c, loop, deleted, buffered, consumer, asyncs, outbox>>]_vars

\* NotUsedAfterDelete holds in every behaviour: the callbacks need open handles
\* and the consumer is done.
THEOREM ConnectionNotUsedAfterDelete == Spec => NotUsedAfterDelete
<1>1. LifeInv /\ [Next]_vars
        => [deleted => UNCHANGED <<c, loop, deleted, buffered, consumer, asyncs, outbox>>]_vars
  <2> SUFFICES ASSUME LifeInv, Next, deleted
               PROVE  UNCHANGED <<c, loop, deleted, buffered, consumer, asyncs, outbox>>
    OBVIOUS
  <2>1. loop = "run" /\ consumer \in {"none", "done"}
    BY DEF LifeInv
  <2>2. ~Consumer /\ ~Joined
    BY <2>1 DEF Consumer, ConsumerRead, post, ConsumerCutOff,
                ConsumerExit, Joined
  <2>3. ~Running
    BY DEF Running
  <2>4. PeerGone
    BY <2>2, <2>3 DEF Next, TlsRecord, Reject, Accept, Http,
       Data, ReadFails, WriteDone, on_resume_async,
       on_outbox_async, on_close_async, on_handle_closed,
       Message, Reading, Woken
  <2> QED BY <2>4 DEF PeerGone
<1> QED BY <1>1, LifeAlways, PTL DEF Spec, NotUsedAfterDelete

\* connection.cxx:875-941 - NothingOutlives for every number of messages and all
\* water marks, when the reply that precedes the consumer's start is never refused:
\* the handles stay open until the consumer has made its last call on them.
THEOREM ConnectionNothingOutlives ==
  ASSUME "ok" \notin FailingWrites PROVE Spec => []NothingOutlives
<1>1. LifeInv /\ Orderly => NothingOutlives
  BY DEF LifeInv, Orderly, Sound, NothingOutlives
<1> QED BY <1>1, OrderlyAlways, PTL

\* connection.cxx:875-941 - a connection being torn down always has a step before
\* it that brings its deletion nearer: a write whose callback is due or a handle
\* whose close callback is, a join that returns at once, the close wakeup, or a
\* consumer that cannot be left waiting for bytes.
TeardownGoesOn ==
  c.teardown /\ ~deleted =>
    \/ loop = "join" /\ consumer = "done"
    \/ /\ loop = "run" /\ c.closing
       /\ c.writes # <<>> \/ \E h \in Handle : MayClose(h)
    \/ loop = "run" /\ ~c.closing /\ consumer = "done" /\ "close" \in asyncs
    \/ consumer \in {"posting", "leaving"} \/ (consumer = "reading" /\ c.closed)

\* TeardownGoesOn holds in every behaviour in which that reply is never refused:
\* the safety part of TornDownIsFreed, for every number of messages.
THEOREM ConnectionTeardownGoesOn ==
  ASSUME "ok" \notin FailingWrites PROVE Spec => []TeardownGoesOn
<1>1. ASSUME LifeInv, Orderly, c.teardown, ~deleted PROVE TeardownGoesOn
  <2>1. CASE loop = "join"
    <3>1. c.handles = {} /\ c.started
      BY <2>1, <1>1 DEF LifeInv
    <3>2. "tcp" \in Handle
      BY DEF Handle
    <3>3. c.closing
      BY <3>1, <3>2, <1>1 DEF LifeInv, Sound
    <3> QED BY <2>1, <3>1, <3>3, <1>1 DEF Orderly, TeardownGoesOn
  <2>2. CASE loop = "run" /\ c.closing
    <3>1. c.handles # {} /\ c.handles \subseteq Handle
      BY <2>2, <1>1 DEF LifeInv, Sound, Members
    <3>2. c.writes = <<>> => \E h \in Handle : MayClose(h)
      BY <3>1 DEF MayClose
    <3> QED BY <2>2, <3>2 DEF TeardownGoesOn
  <2>3. CASE loop = "run" /\ ~c.closing
    <3>1. c.started /\ c.closed
      BY <2>3, <1>1 DEF LifeInv, Sound
    <3> QED BY <2>3, <3>1, <1>1 DEF LifeInv, TeardownGoesOn
  <2> QED BY <2>1, <2>2, <2>3, <1>1 DEF LifeInv
<1>2. LifeInv /\ Orderly => TeardownGoesOn
  BY <1>1 DEF TeardownGoesOn
<1> QED BY <1>2, OrderlyAlways, PTL
=============================================================================
