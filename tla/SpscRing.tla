------------------------------ MODULE SpscRing ------------------------------
(***************************************************************************)
(* client/ring.h: the lock-free ring between a client's reader thread and  *)
(* its worker thread.  One producer thread runs push(), one consumer       *)
(* thread runs pop(), a third thread (the Scheduler's destructor) may run  *)
(* close().  Every atomic access of the source is a step of its own; the   *)
(* acquire/release pairs make the interleaving semantics exact for it.     *)
(*                                                                         *)
(* atomic::wait(g) is the futex protocol: comparing the gate with g and    *)
(* going to sleep is one step, and a sleeper runs again only when notified *)
(* and then compares once more.                                            *)
(***************************************************************************)
EXTENDS Naturals, Sequences

CONSTANTS Cap,       \* places of the ring (READ_RING)
          Value,     \* what can be pushed
          NoValue,   \* the content of a place never written
          MaxItems   \* bound: accepted pushes in a behaviour

ASSUME CapAssumption == Cap \in Nat \ {0}
ASSUME NoValueAssumption == NoValue \notin Value
ASSUME MaxItemsAssumption == MaxItems \in Nat

VARIABLES buf, head, tail, notEmptyGate, notFullGate, closed,
          pp, pv, pg,   \* producer: pc, value being pushed, gate it read
          cp, cg, out,  \* consumer: pc, gate it read, value being popped
          kp,           \* closer: pc
          sent, got,    \* history: values published, values handed out
          refused, ended

rvars == <<buf, head, tail, notEmptyGate, notFullGate, closed>>
pvars == <<pp, pv, pg, sent, refused>>
cvars == <<cp, cg, out, got, ended>>
vars  == <<rvars, pvars, cvars, kp>>

Slot(i) == i % Cap

Init == /\ buf = [s \in 0 .. Cap - 1 |-> NoValue]
        /\ head = 0 /\ tail = 0
        /\ notEmptyGate = 0 /\ notFullGate = 0
        /\ closed = FALSE
        /\ pp = "idle" /\ pv = NoValue /\ pg = 0
        /\ cp = "idle" /\ cg = 0 /\ out = NoValue
        /\ kp = "open"
        /\ sent = <<>> /\ got = <<>>
        /\ refused = FALSE /\ ended = FALSE

P(from, to) == pp = from /\ pp' = to
C(from, to) == cp = from /\ cp' = to
K(from, to) == kp = from /\ kp' = to

-----------------------------------------------------------------------------
(* push(v) *)

\* Faulty: accepts one value more than the ring has places for.
HasRoomOffByOne == tail - head <= Cap
HasRoom == tail - head < Cap

PushCall(v) == /\ P("idle", "closed1")
               /\ tail < MaxItems
               /\ pv' = v
               /\ UNCHANGED <<rvars, cvars, kp, pg, sent, refused>>

PushClosed == /\ pp = "closed1"
              /\ IF closed THEN pp' = "idle" /\ refused' = TRUE
                           ELSE pp' = "room1" /\ UNCHANGED refused
              /\ UNCHANGED <<rvars, cvars, kp, pv, pg, sent>>

PushRoom == /\ P("room1", IF HasRoom THEN "write" ELSE "gate")
            /\ UNCHANGED <<rvars, cvars, kp, pv, pg, sent, refused>>

PushGate == /\ P("gate", "room2")
            /\ pg' = notFullGate
            /\ UNCHANGED <<rvars, cvars, kp, pv, sent, refused>>

\* Faulty: the gate is not followed by a second look at head and closed.
PushRecheckSkipped ==
            /\ P("room2", "wait")
            /\ UNCHANGED <<rvars, cvars, kp, pv, pg, sent, refused>>
PushRecheckRoom ==
            /\ P("room2", IF HasRoom THEN "closed1" ELSE "closed2")
            /\ UNCHANGED <<rvars, cvars, kp, pv, pg, sent, refused>>

PushRecheckClosed ==
            /\ P("closed2", IF closed THEN "closed1" ELSE "wait")
            /\ UNCHANGED <<rvars, cvars, kp, pv, pg, sent, refused>>

PushWait == /\ P("wait", IF notFullGate = pg THEN "asleep" ELSE "closed1")
            /\ UNCHANGED <<rvars, cvars, kp, pv, pg, sent, refused>>

PushWrite == /\ P("write", "publish")
             /\ buf' = [buf EXCEPT ![Slot(tail)] = pv]
             /\ UNCHANGED <<head, tail, notEmptyGate, notFullGate, closed,
                            cvars, kp, pv, pg, sent, refused>>

PushPublish == /\ P("publish", "bump")
               /\ tail' = tail + 1
               /\ sent' = Append(sent, pv)
               /\ UNCHANGED <<buf, head, notEmptyGate, notFullGate, closed,
                              cvars, kp, pv, pg, refused>>

PushBump == /\ P("bump", "notify")
            /\ notEmptyGate' = notEmptyGate + 1
            /\ UNCHANGED <<buf, head, tail, notFullGate, closed,
                           cvars, kp, pv, pg, sent, refused>>

\* Faulty: the consumer is not notified.
PushNotifyLost == /\ P("notify", "idle")
                  /\ UNCHANGED <<rvars, cvars, kp, pv, pg, sent, refused>>
PushNotify == /\ P("notify", "idle")
              /\ cp' = IF cp = "asleep" THEN "wait" ELSE cp
              /\ UNCHANGED <<rvars, kp, pv, pg, sent, refused, cg, out, got, ended>>

Push == \/ \E v \in Value : PushCall(v)
        \/ PushClosed \/ PushRoom \/ PushGate \/ PushRecheckRoom
        \/ PushRecheckClosed \/ PushWait \/ PushWrite \/ PushPublish
        \/ PushBump \/ PushNotify

-----------------------------------------------------------------------------
(* pop(out) *)

PopCall == /\ C("idle", "empty1")
           /\ UNCHANGED <<rvars, pvars, kp, cg, out, got, ended>>

PopEmpty == /\ C("empty1", IF head # tail THEN "take" ELSE "closed1")
            /\ UNCHANGED <<rvars, pvars, kp, cg, out, got, ended>>

PopClosed == /\ C("closed1", IF closed THEN "drained" ELSE "gate")
             /\ UNCHANGED <<rvars, pvars, kp, cg, out, got, ended>>

\* Faulty: closed ends the pop without looking at tail again.
PopEndAtOnce == /\ C("drained", "idle")
                /\ ended' = TRUE
                /\ UNCHANGED <<rvars, pvars, kp, cg, out, got>>
PopDrained == /\ cp = "drained"
              /\ IF head = tail THEN cp' = "idle" /\ ended' = TRUE
                                ELSE cp' = "take" /\ UNCHANGED ended
              /\ UNCHANGED <<rvars, pvars, kp, cg, out, got>>

PopGate == /\ C("gate", "empty2")
           /\ cg' = notEmptyGate
           /\ UNCHANGED <<rvars, pvars, kp, out, got, ended>>

PopRecheckEmpty ==
           /\ C("empty2", IF head # tail THEN "empty1" ELSE "closed2")
           /\ UNCHANGED <<rvars, pvars, kp, cg, out, got, ended>>

PopRecheckClosed ==
           /\ C("closed2", IF closed THEN "empty1" ELSE "wait")
           /\ UNCHANGED <<rvars, pvars, kp, cg, out, got, ended>>

PopWait == /\ C("wait", IF notEmptyGate = cg THEN "asleep" ELSE "empty1")
           /\ UNCHANGED <<rvars, pvars, kp, cg, out, got, ended>>

\* Faulty: the place is handed back to the producer before it is read.
PopTakeLate == /\ C("take", "release")
               /\ out' = buf[Slot(head + 1)]
               /\ UNCHANGED <<rvars, pvars, kp, cg, got, ended>>
PopTake == /\ C("take", "release")
           /\ out' = buf[Slot(head)]
           /\ UNCHANGED <<rvars, pvars, kp, cg, got, ended>>

PopRelease == /\ C("release", "bump")
              /\ head' = head + 1
              /\ got' = Append(got, out)
              /\ UNCHANGED <<buf, tail, notEmptyGate, notFullGate, closed,
                             pvars, kp, cg, out, ended>>

PopBump == /\ C("bump", "notify")
           /\ notFullGate' = notFullGate + 1
           /\ UNCHANGED <<buf, head, tail, notEmptyGate, closed,
                          pvars, kp, cg, out, got, ended>>

PopNotify == /\ C("notify", "idle")
             /\ pp' = IF pp = "asleep" THEN "wait" ELSE pp
             /\ UNCHANGED <<rvars, kp, pv, pg, sent, refused, cg, out, got, ended>>

Pop == \/ PopCall \/ PopEmpty \/ PopClosed \/ PopDrained \/ PopGate
       \/ PopRecheckEmpty \/ PopRecheckClosed \/ PopWait \/ PopTake
       \/ PopRelease \/ PopBump \/ PopNotify

-----------------------------------------------------------------------------
(* close() *)

CloseStore == /\ K("open", "bumpE")
              /\ closed' = TRUE
              /\ UNCHANGED <<buf, head, tail, notEmptyGate, notFullGate, pvars, cvars>>

CloseBumpEmpty == /\ K("bumpE", "notifyE")
                  /\ notEmptyGate' = notEmptyGate + 1
                  /\ UNCHANGED <<buf, head, tail, notFullGate, closed, pvars, cvars>>

CloseNotifyEmpty ==
  /\ K("notifyE", "bumpF")
  /\ cp' = IF cp = "asleep" THEN "wait" ELSE cp
  /\ UNCHANGED <<rvars, pvars, cg, out, got, ended>>

\* Faulty: close() forgets the producers' gate.
CloseBumpNothing == /\ K("bumpF", "notifyF")
                    /\ UNCHANGED <<rvars, pvars, cvars>>
CloseBumpFull == /\ K("bumpF", "notifyF")
                 /\ notFullGate' = notFullGate + 1
                 /\ UNCHANGED <<buf, head, tail, notEmptyGate, closed, pvars, cvars>>

CloseNotifyFull ==
  /\ K("notifyF", "done")
  /\ pp' = IF pp = "asleep" THEN "wait" ELSE pp
  /\ UNCHANGED <<rvars, cvars, pv, pg, sent, refused>>

Close == \/ CloseStore \/ CloseBumpEmpty \/ CloseNotifyEmpty
         \/ CloseBumpFull \/ CloseNotifyFull

Next == Push \/ Pop \/ Close

Spec == Init /\ [][Next]_vars

(* A thread inside push(), pop() or close() keeps running; nobody is       *)
(* obliged to begin a call.                                                *)
PushStep  == pp # "idle" /\ Push
PopStep   == cp # "idle" /\ Pop
CloseStep == kp # "open" /\ Close
FairSpec  == Spec /\ WF_vars(PushStep) /\ WF_vars(PopStep) /\ WF_vars(CloseStep)

-----------------------------------------------------------------------------
(* Properties *)

PPC == {"idle", "closed1", "room1", "gate", "room2", "closed2", "wait",
        "asleep", "write", "publish", "bump", "notify"}
CPC == {"idle", "empty1", "closed1", "drained", "gate", "empty2", "closed2",
        "wait", "asleep", "take", "release", "bump", "notify"}
KPC == {"open", "bumpE", "notifyE", "bumpF", "notifyF", "done"}

\* Every variable of the ring and of its three threads has its type.
TypeOK == /\ buf \in [0 .. Cap - 1 -> Value \cup {NoValue}]
          /\ head \in Nat /\ tail \in Nat
          /\ notEmptyGate \in Nat /\ notFullGate \in Nat
          /\ closed \in BOOLEAN
          /\ pp \in PPC /\ pv \in Value \cup {NoValue} /\ pg \in Nat
          /\ cp \in CPC /\ cg \in Nat /\ out \in Value \cup {NoValue}
          /\ kp \in KPC
          /\ sent \in Seq(Value) /\ got \in Seq(Value)
          /\ refused \in BOOLEAN /\ ended \in BOOLEAN

\* ring.h:50,79 - the plain (non-atomic) write of a slot in push() and the
\* plain read of a slot in pop() never meet on the same slot.
NoSlotRace == ~ (pp = "write" /\ cp = "take" /\ Slot(tail) = Slot(head))

\* ring.h:50-52,79-80 - the consumer gets exactly the published values, in
\* the order they were published: no slot is overwritten before it is read.
FifoDelivery == /\ Len(got) <= Len(sent)
                /\ \A i \in 1 .. Len(got) : got[i] = sent[i]

\* ring.h:42-47,71-76 - a thread is asleep although what it waits for has
\* happened only while the thread that made it happen still has its notify
\* to do: no wake-up is lost between the check of the ring and the wait.
NoLostWakeup ==
  /\ cp = "asleep" => /\ head < tail => pp \in {"bump", "notify"}
                      /\ closed => kp \in {"bumpE", "notifyE"}
  /\ pp = "asleep" => /\ tail - head < Cap => cp \in {"bump", "notify"}
                      /\ closed => kp \in {"bumpE", "notifyE", "bumpF", "notifyF"}

\* ring.h:64-69 - pop() answers false only in a state in which the ring is
\* closed and holds nothing: what was published before the close is drained.
EndMeansDrained == [][ended' # ended => closed /\ head = tail]_vars

\* ring.h:31-84 - the ring implements the closable bounded queue; the close
\* and each accept, delivery, refusal and end happen in one atomic access.
Fifo == INSTANCE BoundedFifo
          WITH queue <- SubSeq(sent, head + 1, tail), delivered <- got,
               shut <- closed
ImplementsFifo == Fifo!Spec

\* ring.h:51-54,71-76 - as long as the consumer keeps calling pop(), every
\* published value is delivered.
AllDelivered == WF_vars(Pop) => \A n \in 1 .. MaxItems : Len(sent) >= n ~> Len(got) >= n

\* ring.h:23-29 - close() gets a blocked push() and a blocked pop() to return,
\* even if the other side never calls again.
CloseUnblocks == /\ closed ~> pp = "idle"
                 /\ closed ~> cp = "idle"
=============================================================================
