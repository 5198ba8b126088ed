------------------------------- MODULE Upload -------------------------------
(***************************************************************************)
(* One upload connection: the client's Worker (client/worker.h) with its   *)
(* NetworkClient (client/net.h) and the server's side of it                *)
(* (server/handshake.cxx and server/connection.cxx, handle_upload and      *)
(* handle_probe).  The connection is dialled, perhaps through a SOCKS5     *)
(* proxy, and wrapped in TLS when the URL says so.  Then the handshake     *)
(* settles the protocol version and with it accept mode: then the worker   *)
(* sends a batch of probes, reads the replies and uploads the units the    *)
(* server's filter wanted.  Without it every unit has its own header.      *)
(*                                                                         *)
(* Frames travel in order in both directions.  A faulty connection may     *)
(* drop at any time and lose a suffix of what is under way; a worker that  *)
(* waits for a reply may time out.  A unit is a file of Length blocks      *)
(* under a path of its own; its checksum, sent when the connection was     *)
(* asked for integrity, is the sequence of its blocks.                     *)
(* A peer of another release is one that knows protocol 1 only.            *)
(***************************************************************************)
EXTENDS Naturals, Sequences, FiniteSets

CONSTANTS Units,       \* units the scheduler gives this worker: 1 .. Units
          Length,      \* blocks of a unit when it was listed
          Window,      \* kProbeWindow
          MayReject    \* units the filter may turn down

ASSUME UploadAssumption == /\ Units \in Nat /\ Length \in Nat
                           /\ Window \in Nat \ {0} /\ MayReject \subseteq 1 .. Units

VARIABLES faulty,                    \* connections drop, replies are late, writes fail
          integrity,                 \* the client asks for checksums
          cver, smax, filter_,       \* client: version tried; server: newest one, filter
          given, tasks,              \* units queued so far, the worker's queue
          acceptMode,                \* worker: accept mode
          cw, nextKey, pending, ri,  \* worker: pc, nextKey, pending, loop index
          cur, sent, short,          \* unit being sent, its blocks so far, files that ended early
          done, skipped,             \* client events: finished (ok), skipped
          c2s, s2c, link,            \* the connection
          mode_,                     \* server: accept mode
          sv, accepted, su, got,     \* server: pc, accepted_, unit, its blocks
          disk, received, rejected   \* files; server events: finished (ok), skipped

fixed  == <<faulty, integrity, smax, filter_>>
agreed == <<fixed, cver, acceptMode, mode_>>
client == <<tasks, cw, nextKey, pending, ri, cur, sent, short, done, skipped>>
server == <<sv, accepted, su, got, disk, received, rejected>>
vars   == <<agreed, given, client, c2s, s2c, link, server>>

Unit == 1 .. Units

Frame(kind, key, unit, data) == [kind |-> kind, key |-> key, unit |-> unit, data |-> data]
Block(u, i) == <<u, i>>
Content(u, n) == [i \in 1 .. n |-> Block(u, i)]
NoFile == <<Block(0, 0)>>

NoKeys == [key \in {} |-> 0]

kMinProtocolVersion == 1
kProtocolVersion == 2

Init == /\ faulty \in BOOLEAN /\ filter_ \in BOOLEAN
        /\ integrity \in BOOLEAN
        /\ cver \in kMinProtocolVersion .. kProtocolVersion
        /\ smax \in kMinProtocolVersion .. kProtocolVersion
        /\ given = 0 /\ tasks = <<>> /\ acceptMode = FALSE
        /\ cw = "dial" /\ nextKey = 0 /\ pending = <<>> /\ ri = 1
        /\ cur = 0 /\ sent = 0 /\ short = {}
        /\ done = [u \in Unit |-> "none"] /\ skipped = {}
        /\ c2s = <<>> /\ s2c = <<>> /\ link = "down"
        /\ mode_ = FALSE
        /\ sv = "closed" /\ accepted = NoKeys /\ su = 0 /\ got = <<>>
        /\ disk = [u \in Unit |-> NoFile]
        /\ received = [u \in Unit |-> "none"] /\ rejected = {}

-----------------------------------------------------------------------------
(* The connection *)

\* network->enqueue(): on a dropped connection it fails as soon as the network
\* thread has noticed; until then the frame is taken and lost.
Enqueued(f) == c2s' = IF link = "up" THEN Append(c2s, f) ELSE c2s
EnqueueFails == link = "down" /\ c2s' = c2s

\* The loop thread writes to the client.
Reply(m) == s2c' = IF link = "up" THEN Append(s2c, m) ELSE s2c

At(kind) == sv # "closed" /\ c2s # <<>> /\ Head(c2s).kind = kind
Took == c2s' = Tail(c2s)

\* The server leaves the connection and tears it down.
Leave == sv' = "closed" /\ link' = "down"

-----------------------------------------------------------------------------
(* The client's network thread: NetworkClient::init, over a proxy or not, with *)
(* TLS or without, as the configuration has it *)

InitFails == cw' = "failed" /\ link' = "down" /\ UNCHANGED <<c2s, s2c, sv>>

\* The stream reaches the server, which makes a Connection of it.
Reached == link' = "up" /\ c2s' = <<>> /\ s2c' = <<>> /\ sv' = "hello"
Wrapped == cw' \in {"tls", "connect"}

\* tcpDial: one of the host's addresses, or of the proxy's, takes the connection.
tcpDial == /\ cw = "dial"
           /\ \/ Reached /\ Wrapped
              \/ cw' = "proxy" /\ UNCHANGED <<c2s, s2c, link, sv>>
              \/ faulty /\ InitFails
           /\ UNCHANGED <<agreed, given, tasks, nextKey, pending, ri, cur, sent, short, done,
                          skipped, accepted, su, got, disk, received, rejected>>

\* socks5Connect: the proxy lets the client in and connects it, or refuses.
socks5Connect == /\ cw = "proxy"
                 /\ \/ Reached /\ Wrapped
                    \/ faulty /\ InitFails
                 /\ UNCHANGED <<agreed, given, tasks, nextKey, pending, ri, cur, sent, short,
                                done, skipped, accepted, su, got, disk, received, rejected>>

\* TlsSession::handshake; the socket is closed when it fails.
TlsHandshake == /\ cw = "tls"
                /\ \/ link = "up" /\ cw' = "connect" /\ UNCHANGED <<c2s, s2c, link, sv>>
                   \/ (link = "down" \/ faulty) /\ InitFails
                /\ UNCHANGED <<agreed, given, tasks, nextKey, pending, ri, cur, sent, short,
                               done, skipped, accepted, su, got, disk, received, rejected>>

-----------------------------------------------------------------------------
(* The handshake *)

\* Worker::init, shake(): the request, signed, with the version to try.
Hello == /\ cw = "connect"
         /\ \/ Enqueued(Frame("hello", cver, 0, <<>>)) /\ cw' = "shake"
            \/ EnqueueFails /\ cw' = "failed"
         /\ UNCHANGED <<agreed, given, tasks, nextKey, pending, ri, cur,
                        sent, short, done, skipped, s2c, link, server>>

\* Faulty: accept mode whatever the client speaks.
mode_for_Any(version) == filter_
mode_for(version) == filter_ /\ version >= 2

\* parse_and_verify_handshake: the key first, then the version, then the rest.
Status(version) ==
  {"ok" : v \in {version} \cap (kMinProtocolVersion .. smax)}
  \cup {"BadVersion" : v \in {version} \ (kMinProtocolVersion .. smax)}
  \cup (IF faulty THEN {"error"} ELSE {})

\* handle_handshake_data, send_handshake_reply: the reply carries the mode from
\* version 2 on; after a refusal the connection is torn down.
Greet ==
  /\ At("hello") /\ sv = "hello"
  /\ LET version == Head(c2s).key IN
     \E status \in Status(version) :
       /\ Reply([status |-> status,
                 mode |-> status = "ok" /\ version >= 2 /\ mode_for(version)])
       /\ mode_' = (status = "ok" /\ mode_for(version))
       /\ IF status = "ok" THEN sv' = "unit" /\ link' = link ELSE Leave
  /\ Took
  /\ UNCHANGED <<fixed, cver, acceptMode, given, client, accepted,
                 su, got, disk, received, rejected>>

\* The reply: the worker starts, tries once more with version 1 or fails.
Shaken ==
  /\ cw = "shake" /\ s2c # <<>>
  /\ IF Head(s2c).status = "ok"
     THEN /\ cw' = "idle"
          /\ acceptMode' = (cver >= 2 /\ Head(s2c).mode)
     ELSE /\ cw' = IF Head(s2c).status = "BadVersion" /\ cver = kProtocolVersion
                   THEN "again" ELSE "failed"
          /\ UNCHANGED acceptMode
  /\ s2c' = Tail(s2c)
  /\ UNCHANGED <<fixed, cver, mode_, given, tasks, nextKey, pending,
                 ri, cur, sent, short, done, skipped, c2s, link, server>>

\* connect() once more: the old network thread is gone, its connection closed.
Reconnect ==
  /\ cw = "again"
  /\ cver' = kMinProtocolVersion
  /\ cw' = "dial" /\ link' = "down"
  /\ UNCHANGED <<fixed, acceptMode, mode_, given, tasks, nextKey, pending, ri, cur, sent,
                 short, done, skipped, c2s, s2c, server>>

ShakeFails == /\ cw = "shake" /\ s2c = <<>>
              /\ link = "down" \/ faulty
              /\ cw' = "failed"
              /\ UNCHANGED <<agreed, given, tasks, nextKey, pending, ri, cur,
                             sent, short, done, skipped, c2s, s2c, link, server>>

-----------------------------------------------------------------------------
(* The client's worker *)

\* The scheduler queues the next unit.
Give == /\ given < Units /\ cw \notin {"dial", "proxy", "tls", "connect", "shake", "again", "failed"}
        /\ given' = given + 1
        /\ tasks' = Append(tasks, given + 1)
        /\ UNCHANGED <<agreed, short, cw, nextKey, pending, ri, cur, sent, done, skipped,
                       c2s, s2c, link, server>>

\* Faulty: the batch is only resolved when it is full.
MustResolveFull(n, queued) == n >= Window
MustResolve(n, queued) == n >= Window \/ queued = <<>>

\* process() in accept mode: probe(), then perhaps resolve().
Probe ==
  /\ acceptMode /\ cw = "idle" /\ tasks # <<>>
  /\ tasks' = Tail(tasks)
  /\ nextKey' = nextKey + 1
  /\ pending' = Append(pending, [key |-> nextKey, unit |-> Head(tasks), accepted |-> FALSE])
  /\ \/ /\ Enqueued(Frame("probe", nextKey, Head(tasks), <<>>))
        /\ cw' = IF MustResolve(Len(pending'), tasks') THEN "await" ELSE "idle"
     \/ EnqueueFails /\ cw' = "failed"
  /\ UNCHANGED <<agreed, given, short, ri, cur, sent, done, skipped, s2c, link, server>>

\* resolve(): the batch is on the wire.
AwaitSent == /\ cw = "await"
             /\ \/ cw' = "recv" /\ ri' = 1 /\ pending' = pending
                \/ link = "down" /\ cw' = "failed" /\ ri' = ri /\ pending' = <<>>
             /\ UNCHANGED <<agreed, given, short, tasks, nextKey, cur, sent, done, skipped,
                            c2s, s2c, link, server>>

\* Faulty: the decision is taken from the neighbouring probe.
RecvReplyShifted ==
  /\ cw = "recv" /\ ri <= Len(pending) /\ s2c # <<>>
  /\ pending' = [pending EXCEPT ![IF ri > 1 THEN ri - 1 ELSE ri].accepted = Head(s2c).accepted]
  /\ s2c' = Tail(s2c) /\ ri' = ri + 1 /\ cw' = cw
  /\ UNCHANGED <<agreed, given, short, tasks, nextKey, cur, sent, done, skipped, c2s, link, server>>
\* One reply, in the order of the probes; another key ends the connection.
RecvReply ==
  /\ cw = "recv" /\ ri <= Len(pending) /\ s2c # <<>>
  /\ s2c' = Tail(s2c)
  /\ IF Head(s2c).key = pending[ri].key
     THEN /\ pending' = [pending EXCEPT ![ri].accepted = Head(s2c).accepted]
          /\ ri' = ri + 1 /\ cw' = cw
     ELSE pending' = <<>> /\ ri' = ri /\ cw' = "failed"
  /\ UNCHANGED <<agreed, given, short, tasks, nextKey, cur, sent, done, skipped, c2s, link, server>>

\* recvExact() fails: the connection is gone, or the reply took too long.
RecvFails == /\ cw = "recv" /\ ri <= Len(pending) /\ s2c = <<>>
             /\ link = "down" \/ faulty
             /\ cw' = "failed" /\ pending' = <<>>
             /\ UNCHANGED <<agreed, given, short, tasks, nextKey, ri, cur, sent, done, skipped,
                            c2s, s2c, link, server>>

AllReplies == /\ cw = "recv" /\ ri > Len(pending)
              /\ cw' = "send" /\ ri' = 1
              /\ UNCHANGED <<agreed, given, short, tasks, nextKey, pending, cur, sent, done,
                             skipped, c2s, s2c, link, server>>

\* A rejected unit of the batch, and the end of the batch.
SkipUnit == /\ cw = "send" /\ ri <= Len(pending) /\ ~pending[ri].accepted
            /\ skipped' = skipped \cup {pending[ri].unit}
            /\ ri' = ri + 1
            /\ UNCHANGED <<agreed, given, short, tasks, cw, nextKey, pending, cur, sent, done,
                           c2s, s2c, link, server>>

BatchDone == /\ cw = "send" /\ ri > Len(pending)
             /\ cw' = "idle" /\ pending' = <<>>
             /\ UNCHANGED <<agreed, given, short, tasks, nextKey, ri, cur, sent, done, skipped,
                            c2s, s2c, link, server>>

\* upload() returns false: the unit is reported as failed, resolve() gives up
\* the rest of its batch.
UnitFails(u) == /\ cw' = "failed" /\ pending' = <<>>
                /\ done' = [done EXCEPT ![u] = "failed"]

\* send() and upload() of unit u after header h.
BeginUnit(u, h) ==
  /\ cur' = u /\ sent' = 0
  /\ \/ Enqueued(h) /\ cw' = "blocks" /\ UNCHANGED <<pending, done>>
     \/ EnqueueFails /\ UnitFails(u)

SendAccepted == /\ cw = "send" /\ ri <= Len(pending) /\ pending[ri].accepted
                /\ BeginUnit(pending[ri].unit, Frame("accepted", pending[ri].key, 0, <<>>))
                /\ UNCHANGED <<agreed, given, short, tasks, nextKey, ri, skipped, s2c, link, server>>

SendUnit == /\ ~acceptMode /\ cw = "idle" /\ tasks # <<>>
            /\ tasks' = Tail(tasks)
            /\ BeginUnit(Head(tasks), Frame("unit", 0, Head(tasks), <<>>))
            /\ UNCHANGED <<agreed, given, short, nextKey, ri, skipped, s2c, link, server>>

MoreBlocks == sent < Length

SendBlock == /\ cw = "blocks" /\ MoreBlocks
             /\ \/ /\ Enqueued(Frame("data", 0, 0, Block(cur, sent + 1)))
                   /\ sent' = sent + 1 /\ UNCHANGED <<cw, pending, done>>
                \/ EnqueueFails /\ UnitFails(cur) /\ sent' = sent
             /\ UNCHANGED <<agreed, given, short, tasks, nextKey, ri, cur, skipped, s2c, link, server>>

Checksum(blocks) == IF integrity THEN blocks ELSE <<>>

\* The reader's end marker: EndOfUnit and the checksum of what was sent, which
\* is less than the unit if the file could not be read to its listed length.
EndUnit == /\ cw = "blocks"
           /\ short' = IF sent < Length THEN short \cup {cur} ELSE short
           /\ \/ /\ Enqueued(Frame("end", 0, 0, Checksum(Content(cur, sent))))
                 /\ cw' = IF acceptMode THEN "send" ELSE "idle"
                 /\ ri' = IF acceptMode THEN ri + 1 ELSE ri
                 /\ pending' = pending /\ done' = [done EXCEPT ![cur] = "ok"]
              \/ EnqueueFails /\ UnitFails(cur) /\ ri' = ri
           /\ UNCHANGED <<agreed, given, tasks, nextKey, cur, sent, skipped, s2c, link, server>>

\* finish(): the last frame of the connection.
Finish == /\ cw = "idle" /\ tasks = <<>> /\ given = Units
          /\ cw' = "finished"
          /\ Enqueued(Frame("bye", 0, 0, <<>>))
          /\ UNCHANGED <<agreed, given, short, tasks, nextKey, pending, ri, cur, sent, done,
                         skipped, s2c, link, server>>

\* A failed worker's connection is closed when the scheduler is destroyed.
Disconnect == /\ cw = "failed" /\ link = "up"
              /\ link' = "down"
              /\ UNCHANGED <<agreed, given, client, c2s, s2c, server>>

\* The connection drops: a suffix of what is under way is lost.
Drop == /\ faulty /\ link = "up"
        /\ link' = "down"
        /\ \E n \in 0 .. Len(c2s) : c2s' = SubSeq(c2s, 1, n)
        /\ \E n \in 0 .. Len(s2c) : s2c' = SubSeq(s2c, 1, n)
        /\ UNCHANGED <<agreed, given, client, server>>

-----------------------------------------------------------------------------
(* The server's consumer thread *)

Remember(f, ok) ==
  accepted' = IF ok THEN [key \in DOMAIN accepted \cup {f.key} |->
                            IF key = f.key THEN f.unit ELSE accepted[key]]
                    ELSE accepted

\* Faulty: the refusal is reported, yet the probe is answered as accepted.
AnswerAccepts(f, ok) ==
  /\ Remember(f, TRUE)
  /\ Reply([key |-> f.key, accepted |-> TRUE])
Answer(f, ok) ==
  /\ Remember(f, ok)
  /\ Reply([key |-> f.key, accepted |-> ok])

handle_probe ==
  /\ At("probe") /\ sv = "unit" /\ mode_
  /\ LET f == Head(c2s) IN
     \E ok \in IF f.unit \in MayReject THEN BOOLEAN ELSE {TRUE} :
       /\ Answer(f, ok)
       /\ rejected' = IF ok THEN rejected ELSE rejected \cup {f.unit}
  /\ Took
  /\ UNCHANGED <<agreed, given, client, link, sv, su, got, disk, received>>

\* Faulty: the key is looked up but the unit opened is the one probed last.
OpenLatest(f) == IF f.kind = "unit" THEN f.unit
                 ELSE accepted[CHOOSE key \in DOMAIN accepted :
                                 \A other \in DOMAIN accepted : other <= key]
OpenedUnit(f) == IF f.kind = "unit" THEN f.unit ELSE accepted[f.key]

\* A unit's header: the file is created, or emptied; an accepted key is used
\* once.  A header that does not fit the mode or an unknown key ends the
\* connection.
BeginReceive ==
  /\ At("accepted") \/ At("unit")
  /\ sv = "unit"
  /\ LET f == Head(c2s) IN
     IF \/ f.kind = "accepted" /\ mode_ /\ f.key \in DOMAIN accepted
        \/ f.kind = "unit" /\ ~mode_
     THEN /\ su' = OpenedUnit(f)
          /\ disk' = [disk EXCEPT ![OpenedUnit(f)] = <<>>]
          /\ accepted' = [key \in DOMAIN accepted \ {f.key} |-> accepted[key]]
          /\ sv' = "blocks" /\ got' = <<>> /\ link' = link
     ELSE Leave /\ UNCHANGED <<accepted, su, got, disk>>
  /\ Took
  /\ UNCHANGED <<agreed, given, client, s2c, received, rejected>>

\* open_sequential() or open_offset() refuses the path: the key is used up, the
\* unit fails and the connection ends.
OpenFails ==
  /\ faulty /\ sv = "unit"
  /\ \/ At("accepted") /\ mode_ /\ Head(c2s).key \in DOMAIN accepted
     \/ At("unit") /\ ~mode_
  /\ LET f == Head(c2s) IN
       /\ su' = OpenedUnit(f)
       /\ received' = [received EXCEPT ![OpenedUnit(f)] = "failed"]
       /\ accepted' = [key \in DOMAIN accepted \ {f.key} |-> accepted[key]]
  /\ Leave /\ Took
  /\ UNCHANGED <<agreed, given, client, s2c, got, disk, rejected>>

ReceiveBlock ==
  /\ At("data") /\ sv = "blocks"
  /\ disk' = [disk EXCEPT ![su] = Append(@, Head(c2s).data)]
  /\ got' = Append(got, Head(c2s).data)
  /\ Took
  /\ UNCHANGED <<agreed, given, client, s2c, link, sv, accepted, su, received, rejected>>

\* The block cannot be decoded or written: the unit fails.
ReceiveFails ==
  /\ faulty /\ At("data") /\ sv = "blocks"
  /\ received' = [received EXCEPT ![su] = "failed"]
  /\ Leave /\ Took
  /\ UNCHANGED <<agreed, given, client, s2c, accepted, su, got, disk, rejected>>

\* EndOfUnit and, with integrity checks, the checksum trailer.
EndReceive ==
  /\ At("end") /\ sv = "blocks"
  /\ IF Head(c2s).data = Checksum(got)
     THEN received' = [received EXCEPT ![su] = "ok"] /\ sv' = "unit" /\ link' = link
     ELSE received' = [received EXCEPT ![su] = "failed"] /\ Leave
  /\ Took
  /\ UNCHANGED <<agreed, given, client, s2c, accepted, su, got, disk, rejected>>

\* UnitType::End.
Bye == /\ At("bye") /\ sv = "unit"
       /\ Leave /\ Took
       /\ UNCHANGED <<agreed, given, client, s2c, accepted, su, got, disk, received, rejected>>

\* Faulty: a unit cut off by the end of the stream counts as received.
LostCountsAsOk == "ok"
LostOutcome == "failed"

\* Faulty: the end of the stream is only noticed between two units.
LostBetweenUnits ==
        /\ sv = "unit" /\ c2s = <<>> /\ link = "down"
        /\ sv' = "closed"
        /\ UNCHANGED <<agreed, given, client, c2s, s2c, link, accepted, su, got, disk,
                       received, rejected>>
\* read_exact() is false: the peer is gone and everything it sent was read.
Lost == /\ sv # "closed" /\ c2s = <<>> /\ link = "down"
        /\ received' = IF sv = "blocks" THEN [received EXCEPT ![su] = LostOutcome] ELSE received
        /\ sv' = "closed"
        /\ UNCHANGED <<agreed, given, client, c2s, s2c, link, accepted, su, got, disk, rejected>>

ClientStep == \/ tcpDial \/ socks5Connect \/ TlsHandshake \/ Hello \/ Shaken \/ Reconnect \/ ShakeFails
              \/ Give \/ Probe \/ AwaitSent \/ RecvReply \/ RecvFails \/ AllReplies
              \/ SkipUnit \/ BatchDone \/ SendAccepted \/ SendUnit \/ SendBlock
              \/ EndUnit \/ Finish \/ Disconnect
ServerStep == \/ Greet \/ handle_probe \/ BeginReceive \/ OpenFails \/ ReceiveBlock \/ ReceiveFails
              \/ EndReceive \/ Bye \/ Lost

Next == ClientStep \/ ServerStep \/ Drop

Spec == Init /\ [][Next]_vars

\* Both threads keep running; nothing obliges the connection to drop.
FairSpec == Spec /\ WF_vars(ClientStep) /\ WF_vars(ServerStep)

-----------------------------------------------------------------------------
(* Properties *)

\* README.md "A rejected unit is never written." (connection.cxx:613-712)
RejectedNeverWritten == \A u \in rejected : disk[u] = NoFile

\* connection.cxx:673-712 - whatever is written under a unit's path is a prefix
\* of that unit: headers, keys and blocks of different units are never mixed.
NoMisrouting == \A u \in Unit : disk[u] # NoFile => disk[u] = Content(u, Len(disk[u]))

\* connection.cxx:756-870 - a unit the server reports as received is complete
\* on its disk, wherever the connection broke off.
OkMeansComplete ==
  \A u \in Unit : received[u] = "ok" /\ u \notin short => disk[u] = Content(u, Length)

\* worker.h:300-308,321 - the client skips what the server turned down, and
\* uploads nothing else than what it accepted.
VerdictsAgree == /\ skipped \subseteq rejected
                 /\ \A u \in rejected : done[u] = "none"

\* worker.h:217-324, connection.cxx:667-712 - a client that follows its code
\* never sends a frame of a kind, or with a key, that the server does not expect
\* where it is and would answer by closing the connection.  (A hello of a version
\* the server does not know comes where one is expected: the server answers it
\* with a status before it closes, and the client dials again.)
FrameExpected ==
  sv # "closed" /\ c2s # <<>> =>
    LET f == Head(c2s) IN
    /\ f.kind \in {"data", "end"} <=> sv = "blocks"
    /\ f.kind = "hello" <=> sv = "hello"
    /\ f.kind \in {"probe", "accepted"} => mode_
    /\ f.kind = "unit" => ~mode_
    /\ f.kind = "accepted" => f.key \in DOMAIN accepted

\* worker.h:217-229,296-324 - without faults every unit is uploaded or skipped
\* and both sides finish: no one waits for a probe, a reply or a block that
\* the other side does not send.
AllSettled == ~faulty =>
              <>(/\ cw = "finished" /\ sv = "closed"
                 /\ \A u \in Unit : received[u] = "ok" \/ u \in skipped)

\* worker.h:296-324, connection.cxx:667-873 - whatever fails, both sides end.
BothEnd == <>(cw \in {"failed", "finished"} /\ sv = "closed")
=============================================================================
