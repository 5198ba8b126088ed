----------------------------- MODULE Connection -----------------------------
(***************************************************************************)
(* The life of one server connection (server/connection.cxx): the libuv    *)
(* callbacks that run on the loop thread, the consumer thread that works   *)
(* on the upload stream, and how both end: the three wakeups they exchange *)
(* through uv_async_t handles, the writes in flight, the four handles that *)
(* have to be closed and the join before the object is deleted.            *)
(*                                                                         *)
(* c holds what only the loop thread touches, and each member function is  *)
(* an operator from the connection before to the connection after it, so   *)
(* an action reads like the callback it models.  The bytes of the stream   *)
(* are counted in messages; what they say is chosen freely.                *)
(***************************************************************************)
EXTENDS Naturals, Sequences, FiniteSets

CONSTANTS Low, High,       \* water marks of the channel
          MaxInputs,       \* messages the peer sends at most
          MaxCount,        \* messages one read_exact() wants at most
          FailingWrites    \* kinds of write uv_write or wolfSSL_write may refuse

WriteKind == {"ok", "reject", "outbox", "record", "http", "download"}

ASSUME ConnectionAssumption ==
  /\ Low \in Nat /\ High \in Nat /\ Low < High
  /\ MaxInputs \in Nat /\ MaxCount \in Nat \ {0} /\ FailingWrites \subseteq WriteKind

Handle == {"tcp", "resume", "close", "outbox"}

VARIABLES c,          \* the loop thread's members, see Fresh
          loop,       \* "run", or "join": blocked in consumer_.join()
          deleted,    \* the object is gone
          peer,       \* "here" or "gone"
          inputs,     \* messages read so far
          buffered,   \* messages in channel_
          consumer,   \* the consumer thread
          call,       \* its read_exact() under way: messages it still wants, and
                      \* whether it has signalled
          asyncs,     \* async handles with a wakeup under way
          outbox      \* replies in outbox_

vars == <<c, loop, deleted, peer, inputs, buffered, consumer, call, asyncs, outbox>>

NoCall == [need |-> 0, signaled |-> FALSE]

\* Connection::Connection and the handles accept() opens.
Fresh(tls) == [state |-> "Handshaking", teardown |-> FALSE, started |-> FALSE,
               closing |-> FALSE, handles |-> Handle, writes |-> <<>>, tls |-> tls,
               proto |-> "undecided", answered |-> FALSE, last |-> FALSE,
               paused |-> FALSE, closed |-> FALSE]

-----------------------------------------------------------------------------
(* Members called by the callbacks *)

finalize_close(d) == [d EXCEPT !.closing = TRUE]

\* Faulty: the consumer is not told.
begin_teardown_Silent(d) ==
  LET e == [d EXCEPT !.teardown = TRUE, !.state = "Closing"]
  IN  IF d.teardown THEN d ELSE IF d.started THEN e ELSE finalize_close(e)
begin_teardown(d) ==
  LET e == [d EXCEPT !.teardown = TRUE, !.state = "Closing"]
  IN  IF d.teardown THEN d
      ELSE IF d.started THEN [e EXCEPT !.closed = TRUE]
      ELSE finalize_close(e)

\* send_handshake_reply, tls_write, download_write and TlsLayer::send: the
\* write is queued, or refused at once, always so on a socket that is closing.
Written(d, kind, after) ==
  LET w == [kind |-> kind, after |-> after]
  IN  (IF d.closing THEN {} ELSE {[d EXCEPT !.writes = Append(@, w)]})
      \cup (IF d.closing \/ kind \in FailingWrites THEN {begin_teardown(d)} ELSE {})

\* pump_download: the archive fails or is at its end, or gives another chunk.
pump_download(d) ==
  {begin_teardown(d)} \cup
  UNION {Written([d EXCEPT !.last = last], "download", FALSE) : last \in BOOLEAN}

apply_backpressure(d, n) == IF n >= High THEN [d EXCEPT !.paused = TRUE] ELSE d

Send(w) == asyncs' = IF c.closing THEN asyncs ELSE asyncs \cup {w}

-----------------------------------------------------------------------------
(* Callbacks of the loop thread *)

Running == loop = "run" /\ ~deleted
Reading == Running /\ ~c.closing /\ ~c.paused

\* accept(): uv_accept may fail.
Init == /\ \E tls \in BOOLEAN : c \in {Fresh(tls), begin_teardown(Fresh(tls))}
        /\ loop = "run" /\ deleted = FALSE
        /\ peer = "here" /\ inputs = 0
        /\ buffered = 0 /\ consumer = "none" /\ call = NoCall
        /\ asyncs = {} /\ outbox = 0

Message == Reading /\ inputs < MaxInputs /\ inputs' = inputs + 1

\* TlsLayer::ingest: handshake records and alerts go out as they are made.
TlsRecord == /\ Message /\ c.tls
             /\ c' \in Written(c, "record", FALSE)
             /\ UNCHANGED <<loop, deleted, peer, buffered, consumer, asyncs, outbox, call>>

\* handle_handshake_data: the request is refused.  The buffer keeps it, so more
\* bytes before the teardown are answered again.
Reject == /\ Message /\ c.state = "Handshaking" /\ c.proto # "http"
          /\ c' \in Written([c EXCEPT !.proto = "dicker"], "reject", TRUE)
          /\ UNCHANGED <<loop, deleted, peer, buffered, consumer, asyncs, outbox, call>>

\* handle_handshake_data: the request is good.  The reply is sent first, then
\* the consumer is started, whatever became of the reply.
Accept == /\ Message /\ c.state = "Handshaking" /\ c.proto # "http"
          /\ \E d \in Written([c EXCEPT !.proto = "dicker"], "ok", FALSE),
                leftover \in 0 .. 1 :
               /\ c' = apply_backpressure(
                         [d EXCEPT !.state = "Streaming", !.started = TRUE], leftover)
               /\ buffered' = leftover
          /\ consumer' = "reading"
          /\ UNCHANGED <<loop, deleted, peer, asyncs, outbox, call>>

\* handle_http_data: a whole answer, or the head of a download.
Http == /\ Message /\ c.state = "Handshaking" /\ c.proto # "dicker" /\ ~c.answered
        /\ LET d == [c EXCEPT !.proto = "http", !.answered = TRUE]
           IN  c' \in Written(d, "http", TRUE) \cup Written(d, "download", FALSE)
        /\ UNCHANGED <<loop, deleted, peer, buffered, consumer, asyncs, outbox, call>>

\* handle_data while streaming.
Data == /\ Message /\ c.state = "Streaming"
        /\ buffered' = buffered + 1
        /\ c' = apply_backpressure(c, buffered + 1)
        /\ UNCHANGED <<loop, deleted, peer, consumer, asyncs, outbox, call>>

\* The peer is gone, or TLS cannot go on.
ReadFails == /\ Reading /\ (peer = "gone" \/ c.tls)
             /\ c' = begin_teardown(c)
             /\ UNCHANGED <<loop, deleted, peer, inputs, buffered, consumer, asyncs, outbox, call>>

\* on_write_reply, on_write_tls and on_write_download.
WriteDone ==
  /\ Running /\ c.writes # <<>>
  /\ LET w == Head(c.writes)
         d == [c EXCEPT !.writes = Tail(@)]
     IN  \E ok \in BOOLEAN :
           IF w.kind = "download"
           THEN IF ~ok \/ c.last THEN c' = begin_teardown(d) ELSE c' \in pump_download(d)
           ELSE c' = IF ~ok \/ w.after THEN begin_teardown(d) ELSE d
  /\ UNCHANGED <<loop, deleted, peer, inputs, buffered, consumer, asyncs, outbox, call>>

Woken(w) == Running /\ ~c.closing /\ w \in asyncs /\ asyncs' = asyncs \ {w}

\* Faulty: the socket stays stopped.
on_resume_async_Ignored ==
  /\ Woken("resume")
  /\ UNCHANGED <<c, loop, deleted, peer, inputs, buffered, consumer, outbox, call>>
on_resume_async ==
  /\ Woken("resume")
  /\ c' = IF c.state = "Streaming" THEN [c EXCEPT !.paused = FALSE] ELSE c
  /\ UNCHANGED <<loop, deleted, peer, inputs, buffered, consumer, outbox, call>>

on_outbox_async ==
  /\ Woken("outbox")
  /\ outbox' = 0
  /\ IF outbox = 0 \/ c.teardown THEN c' = c ELSE c' \in Written(c, "outbox", FALSE)
  /\ UNCHANGED <<loop, deleted, peer, inputs, buffered, consumer, call>>

on_close_async ==
  /\ Woken("close")
  /\ c' = finalize_close([c EXCEPT !.teardown = TRUE, !.state = "Closing"])
  /\ UNCHANGED <<loop, deleted, peer, inputs, buffered, consumer, outbox, call>>

\* Faulty: the count of the handles still open is one too low.
IsLastOffByOne(h) == Cardinality(c.handles \ {h}) <= 1
IsLast(h) == c.handles = {h}

\* libuv: the socket's close callback comes after those of its writes.
MayClose(h) == h \in c.handles /\ (h = "tcp" => c.writes = <<>>)

\* on_handle_closed: after the last handle the consumer is joined and the
\* connection deleted.
on_handle_closed ==
  /\ Running /\ c.closing
  /\ \E h \in Handle :
       /\ MayClose(h)
       /\ c' = [c EXCEPT !.handles = @ \ {h}]
       /\ loop' = IF IsLast(h) /\ c.started THEN "join" ELSE "run"
       /\ deleted' = (IsLast(h) /\ ~c.started)
  /\ UNCHANGED <<peer, inputs, buffered, consumer, asyncs, outbox, call>>

Joined == /\ loop = "join" /\ consumer = "done"
          /\ loop' = "run" /\ deleted' = TRUE
          /\ UNCHANGED <<c, peer, inputs, buffered, consumer, asyncs, outbox, call>>

PeerGone == /\ peer = "here" /\ peer' = "gone"
            /\ UNCHANGED <<c, loop, deleted, inputs, buffered, consumer, asyncs, outbox, call>>

-----------------------------------------------------------------------------
(* The consumer thread *)

\* The messages read_exact() may want, and the one signal it gives.
Wants == IF call = NoCall THEN 1 .. MaxCount ELSE {call.need}
MustSignal(left) == ~call.signaled /\ left <= Low

\* read_exact() takes the next message of those it wants, and signals once when
\* the channel has drained.  With the last of them it returns: the consumer works
\* on what it has, answers it, or ends the upload.
ConsumerRead ==
  /\ consumer = "reading" /\ buffered > 0
  /\ buffered' = buffered - 1
  /\ IF MustSignal(buffered - 1) THEN Send("resume") ELSE asyncs' = asyncs
  /\ \E n \in Wants :
       \/ /\ n = 1 /\ call' = NoCall
          /\ consumer' \in {"reading", "posting", "leaving"}
       \/ /\ n > 1 /\ consumer' = consumer
          /\ call' = [need |-> n - 1, signaled |-> call.signaled \/ MustSignal(buffered - 1)]
  /\ UNCHANGED <<c, loop, deleted, peer, inputs, outbox>>

post == /\ consumer = "posting"
        /\ outbox' = outbox + 1 /\ Send("outbox")
        /\ consumer' = "reading"
        /\ UNCHANGED <<c, loop, deleted, peer, inputs, buffered, call>>

\* read_exact() is false: closed and nothing left.
ConsumerCutOff == /\ consumer = "reading" /\ buffered = 0 /\ c.closed
                  /\ consumer' = "leaving"
                  /\ UNCHANGED <<c, loop, deleted, peer, inputs, buffered, asyncs, outbox, call>>

\* The last statement of consumer_main.
ConsumerExit == /\ consumer = "leaving"
                /\ consumer' = "done" /\ Send("close")
                /\ UNCHANGED <<c, loop, deleted, peer, inputs, buffered, outbox, call>>

Consumer == ConsumerRead \/ post \/ ConsumerCutOff \/ ConsumerExit

Next == \/ TlsRecord \/ Reject \/ Accept \/ Http \/ Data \/ ReadFails \/ WriteDone
        \/ on_resume_async \/ on_outbox_async \/ on_close_async
        \/ on_handle_closed \/ Joined \/ PeerGone \/ Consumer

Spec == Init /\ [][Next]_vars

\* libuv looks at every handle in each turn of its loop; a peer that is here
\* need not read or write, so its messages and the completion of writes to it
\* are not promised.
FairSpec == /\ Spec /\ WF_vars(Consumer) /\ WF_vars(ReadFails /\ peer = "gone")
            /\ WF_vars(WriteDone /\ (peer = "gone" \/ c.closing))
            /\ WF_vars(on_resume_async) /\ WF_vars(on_outbox_async)
            /\ WF_vars(on_close_async) /\ WF_vars(on_handle_closed) /\ WF_vars(Joined)

-----------------------------------------------------------------------------
(* Properties *)

\* connection.cxx:875-941 - when the object is deleted nothing still points to
\* it: no write whose callback would use it, no open handle, no live consumer;
\* and the handles the consumer wakes the loop through are not closed before it
\* has made its last call on them.
NothingOutlives == /\ deleted => c.writes = <<>> /\ c.handles = {}
                   /\ deleted \/ c.closing => consumer \in {"none", "done"}

\* server.h:69 "Serves until stop() is called." - a connection being torn down
\* ends by being deleted: the loop is never left waiting for its consumer.
TornDownIsFreed == c.teardown ~> deleted

\* connection.cxx:176-188,223-228,586-592,875-941 - when the peer is gone the
\* connection is deleted, also if reading was paused when it went, or a reply
\* or download was under way, as long as no read_exact() wants more than the
\* high-water mark (MaxCount <= High): a larger one can leave the socket paused
\* for good, and then the peer's going is never noticed.
PeerGoneIsFreed == peer = "gone" ~> deleted
=============================================================================
