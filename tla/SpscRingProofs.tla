--------------------------- MODULE SpscRingProofs ---------------------------
(***************************************************************************)
(* The ring's safety for every capacity, every set of values and every     *)
(* number of pushes.                                                       *)
(***************************************************************************)
EXTENDS SpscRing, Integers, SequenceTheorems, TLAPS

-----------------------------------------------------------------------------
(* The inductive invariant, part by part. *)

\* head and tail count what was handed out and what was published, and are
\* never more than Cap apart.
Counts == /\ head <= tail /\ tail <= head + Cap
          /\ Len(sent) = tail /\ Len(got) = head

\* The occupied places hold the published values.
SlotsHold == \A i \in head .. tail - 1 : buf[Slot(i)] = sent[i + 1]

Delivered == \A i \in 1 .. head : got[i] = sent[i]

ProducerAt == /\ pp # "idle" => pv \in Value
              /\ pp \in {"write", "publish"} => tail - head < Cap
              /\ pp = "publish" => buf[Slot(tail)] = pv

ConsumerAt == /\ cp \in {"take", "release"} => head < tail
              /\ cp = "release" => out = sent[head + 1]
              /\ cp = "drained" => closed

CloserAt == closed <=> kp # "open"

\* A consumer that found the ring empty after reading the gate holds a stale
\* gate value as soon as the producer has published and bumped.
ConsumerGate ==
  /\ cg <= notEmptyGate
  /\ cp \in {"closed2", "wait", "asleep"} /\ head < tail /\ cg = notEmptyGate
        => pp = "bump"
  /\ cp \in {"wait", "asleep"} /\ closed /\ cg = notEmptyGate => kp = "bumpE"

ProducerGate ==
  /\ pg <= notFullGate
  /\ pp \in {"closed2", "wait", "asleep"} /\ tail - head < Cap /\ pg = notFullGate
        => cp = "bump"
  /\ pp \in {"wait", "asleep"} /\ closed /\ pg = notFullGate
        => kp \in {"bumpE", "notifyE", "bumpF"}

RingInv == /\ TypeOK /\ Counts /\ SlotsHold /\ Delivered
           /\ ProducerAt /\ ConsumerAt /\ CloserAt
           /\ ConsumerGate /\ ProducerGate /\ NoLostWakeup

-----------------------------------------------------------------------------
(* Slots. *)

\* The slot of a sequence number is a place of the ring (ring.h:50, tl & Mask).
LEMMA SlotRange == \A i \in Nat : Slot(i) \in 0 .. Cap - 1
  BY CapAssumption DEF Slot

\* Fewer than Cap consecutive sequence numbers have different slots.
LEMMA SlotsDiffer ==
  \A i, j \in Nat : i < j /\ j - i < Cap => Slot(i) # Slot(j)
<1> SUFFICES ASSUME NEW i \in Nat, NEW j \in Nat, i < j, j - i < Cap,
                    i % Cap = j % Cap
             PROVE  FALSE
  BY DEF Slot
<1>1. i = Cap * (i \div Cap) + (i % Cap) BY CapAssumption
<1>2. j = Cap * (j \div Cap) + (j % Cap) BY CapAssumption
<1>3. (i \div Cap) \in Int /\ (j \div Cap) \in Int BY CapAssumption
<1>4. PICK d \in Int : d = (j \div Cap) - (i \div Cap) BY <1>3
<1>5. j - i = Cap * d BY <1>1, <1>2, <1>3, <1>4, CapAssumption
<1>6. CASE d <= 0
  <2>1. Cap * d <= 0 BY <1>6, CapAssumption
  <2> QED BY <2>1, <1>5
<1>7. CASE d >= 1
  <2>1. Cap * d >= Cap BY <1>7, CapAssumption
  <2> QED BY <2>1, <1>5, CapAssumption
<1> QED BY <1>6, <1>7

-----------------------------------------------------------------------------
(* The invariant is inductive. *)

\* Actions that leave the places, the counters and the histories alone keep
\* the part of the invariant that is about them.
LEMMA DataKept ==
  ASSUME RingInv, UNCHANGED <<buf, head, tail, sent, got>>
  PROVE  Counts' /\ SlotsHold' /\ Delivered'
  BY DEF RingInv, Counts, SlotsHold, Delivered

LEMMA RingInit == Init => RingInv
<1> SUFFICES ASSUME Init PROVE RingInv
  OBVIOUS
<1>1. buf \in [0 .. Cap - 1 -> Value \cup {NoValue}]
  BY DEF Init
<1>2. /\ sent \in Seq(Value) /\ got \in Seq(Value)
      /\ Len(sent) = 0 /\ Len(got) = 0
  BY DEF Init
<1>3. closed \in BOOLEAN /\ refused \in BOOLEAN /\ ended \in BOOLEAN
  BY DEF Init
<1>4. TypeOK
  BY <1>1, <1>2, <1>3 DEF Init, TypeOK, PPC, CPC, KPC
<1>5. Counts /\ SlotsHold /\ Delivered
  BY <1>2, CapAssumption DEF Init, Counts, SlotsHold, Delivered
<1> QED
  BY <1>4, <1>5 DEF Init, RingInv, ProducerAt, ConsumerAt, CloserAt, ConsumerGate,
     ProducerGate, NoLostWakeup

LEMMA RingStep == RingInv /\ [Next]_vars => RingInv'
<1> SUFFICES ASSUME RingInv, [Next]_vars PROVE RingInv'
  OBVIOUS
<1> USE CapAssumption
<1>0. ASSUME NEW v \in Value, PushCall(v) PROVE RingInv'
  <2>1. Counts' /\ SlotsHold' /\ Delivered'
    BY <1>0, DataKept DEF PushCall, rvars, cvars
  <2> QED BY <1>0, <2>1 DEF PushCall, P, rvars, cvars, RingInv, TypeOK, ProducerAt,
      ConsumerAt, CloserAt, ConsumerGate, ProducerGate, NoLostWakeup, PPC, CPC, KPC
<1>1. CASE PushClosed
  <2>1. Counts' /\ SlotsHold' /\ Delivered'
    BY <1>1, DataKept DEF PushClosed, rvars, pvars, cvars
  <2>2. refused' \in BOOLEAN
    BY <1>1 DEF PushClosed, RingInv, TypeOK
  <2> QED BY <1>1, <2>1, <2>2 DEF PushClosed, rvars, pvars, cvars, RingInv, TypeOK, ProducerAt,
      ConsumerAt, CloserAt, ConsumerGate, ProducerGate, NoLostWakeup, PPC, CPC, KPC
<1>2. CASE PushRoom
  <2>1. Counts' /\ SlotsHold' /\ Delivered'
    BY <1>2, DataKept DEF PushRoom, rvars, pvars, cvars
  <2> QED BY <1>2, <2>1 DEF PushRoom, P, HasRoom, rvars, pvars, cvars, RingInv, TypeOK, ProducerAt,
      ConsumerAt, CloserAt, ConsumerGate, ProducerGate, NoLostWakeup, PPC, CPC, KPC
<1>3. CASE PushGate
  <2>1. Counts' /\ SlotsHold' /\ Delivered'
    BY <1>3, DataKept DEF PushGate, rvars, pvars, cvars
  <2> QED BY <1>3, <2>1 DEF PushGate, P, rvars, pvars, cvars, RingInv, TypeOK, ProducerAt,
      ConsumerAt, CloserAt, ConsumerGate, ProducerGate, NoLostWakeup, PPC, CPC, KPC
<1>4. CASE PushRecheckRoom
  <2>1. Counts' /\ SlotsHold' /\ Delivered'
    BY <1>4, DataKept DEF PushRecheckRoom, rvars, pvars, cvars
  <2> QED BY <1>4, <2>1 DEF PushRecheckRoom, P, HasRoom, rvars, pvars, cvars, RingInv, TypeOK, ProducerAt,
      ConsumerAt, CloserAt, ConsumerGate, ProducerGate, NoLostWakeup, PPC, CPC, KPC
<1>5. CASE PushRecheckClosed
  <2>1. Counts' /\ SlotsHold' /\ Delivered'
    BY <1>5, DataKept DEF PushRecheckClosed, rvars, pvars, cvars
  <2> QED BY <1>5, <2>1 DEF PushRecheckClosed, P, rvars, pvars, cvars, RingInv, TypeOK, ProducerAt,
      ConsumerAt, CloserAt, ConsumerGate, ProducerGate, NoLostWakeup, PPC, CPC, KPC
<1>6. CASE PushWait
  <2>1. Counts' /\ SlotsHold' /\ Delivered'
    BY <1>6, DataKept DEF PushWait, rvars, pvars, cvars
  <2> QED BY <1>6, <2>1 DEF PushWait, P, rvars, pvars, cvars, RingInv, TypeOK, ProducerAt,
      ConsumerAt, CloserAt, ConsumerGate, ProducerGate, NoLostWakeup, PPC, CPC, KPC
<1>7. CASE PushBump
  <2>1. Counts' /\ SlotsHold' /\ Delivered'
    BY <1>7, DataKept DEF PushBump, rvars, pvars, cvars
  <2> QED BY <1>7, <2>1 DEF PushBump, P, rvars, pvars, cvars, RingInv, TypeOK, ProducerAt,
      ConsumerAt, CloserAt, ConsumerGate, ProducerGate, NoLostWakeup, PPC, CPC, KPC
<1>8. CASE PushNotify
  <2>1. Counts' /\ SlotsHold' /\ Delivered'
    BY <1>8, DataKept DEF PushNotify, rvars, pvars, cvars
  <2> QED BY <1>8, <2>1 DEF PushNotify, P, rvars, pvars, cvars, RingInv, TypeOK, ProducerAt,
      ConsumerAt, CloserAt, ConsumerGate, ProducerGate, NoLostWakeup, PPC, CPC, KPC
<1>9. CASE PopCall
  <2>1. Counts' /\ SlotsHold' /\ Delivered'
    BY <1>9, DataKept DEF PopCall, rvars, pvars, cvars
  <2> QED BY <1>9, <2>1 DEF PopCall, C, rvars, pvars, cvars, RingInv, TypeOK, ProducerAt,
      ConsumerAt, CloserAt, ConsumerGate, ProducerGate, NoLostWakeup, PPC, CPC, KPC
<1>10. CASE PopEmpty
  <2>1. Counts' /\ SlotsHold' /\ Delivered'
    BY <1>10, DataKept DEF PopEmpty, rvars, pvars, cvars
  <2> QED BY <1>10, <2>1 DEF PopEmpty, C, rvars, pvars, cvars, RingInv, TypeOK, ProducerAt,
      ConsumerAt, CloserAt, ConsumerGate, ProducerGate, NoLostWakeup, PPC, CPC, KPC
<1>11. CASE PopClosed
  <2>1. Counts' /\ SlotsHold' /\ Delivered'
    BY <1>11, DataKept DEF PopClosed, rvars, pvars, cvars
  <2> QED BY <1>11, <2>1 DEF PopClosed, C, rvars, pvars, cvars, RingInv, TypeOK, ProducerAt,
      ConsumerAt, CloserAt, ConsumerGate, ProducerGate, NoLostWakeup, PPC, CPC, KPC
<1>12. CASE PopDrained
  <2>1. Counts' /\ SlotsHold' /\ Delivered'
    BY <1>12, DataKept DEF PopDrained, rvars, pvars, cvars
  <2>2. ended' \in BOOLEAN
    BY <1>12 DEF PopDrained, RingInv, TypeOK
  <2>3. cp' \in {"idle", "take"} /\ (cp' = "take" => head < tail)
    BY <1>12 DEF PopDrained, RingInv, TypeOK, Counts
  <2>4. UNCHANGED <<rvars, pvars, kp, cg, out, got>> /\ cp = "drained"
    BY <1>12 DEF PopDrained
  <2> QED BY <2>1, <2>2, <2>3, <2>4 DEF rvars, pvars, cvars, RingInv, TypeOK, ProducerAt,
      ConsumerAt, CloserAt, ConsumerGate, ProducerGate, NoLostWakeup, PPC, CPC, KPC
<1>13. CASE PopGate
  <2>1. Counts' /\ SlotsHold' /\ Delivered'
    BY <1>13, DataKept DEF PopGate, rvars, pvars, cvars
  <2> QED BY <1>13, <2>1 DEF PopGate, C, rvars, pvars, cvars, RingInv, TypeOK, ProducerAt,
      ConsumerAt, CloserAt, ConsumerGate, ProducerGate, NoLostWakeup, PPC, CPC, KPC
<1>14. CASE PopRecheckEmpty
  <2>1. Counts' /\ SlotsHold' /\ Delivered'
    BY <1>14, DataKept DEF PopRecheckEmpty, rvars, pvars, cvars
  <2> QED BY <1>14, <2>1 DEF PopRecheckEmpty, C, rvars, pvars, cvars, RingInv, TypeOK, ProducerAt,
      ConsumerAt, CloserAt, ConsumerGate, ProducerGate, NoLostWakeup, PPC, CPC, KPC
<1>15. CASE PopRecheckClosed
  <2>1. Counts' /\ SlotsHold' /\ Delivered'
    BY <1>15, DataKept DEF PopRecheckClosed, rvars, pvars, cvars
  <2> QED BY <1>15, <2>1 DEF PopRecheckClosed, C, rvars, pvars, cvars, RingInv, TypeOK, ProducerAt,
      ConsumerAt, CloserAt, ConsumerGate, ProducerGate, NoLostWakeup, PPC, CPC, KPC
<1>16. CASE PopWait
  <2>1. Counts' /\ SlotsHold' /\ Delivered'
    BY <1>16, DataKept DEF PopWait, rvars, pvars, cvars
  <2> QED BY <1>16, <2>1 DEF PopWait, C, rvars, pvars, cvars, RingInv, TypeOK, ProducerAt,
      ConsumerAt, CloserAt, ConsumerGate, ProducerGate, NoLostWakeup, PPC, CPC, KPC
<1>17. CASE PopTake
  <2>1. Counts' /\ SlotsHold' /\ Delivered'
    BY <1>17, DataKept DEF PopTake, rvars, pvars, cvars
  <2>2. Slot(head) \in 0 .. Cap - 1 /\ buf[Slot(head)] = sent[head + 1]
    <3>1. head \in Nat /\ head \in head .. tail - 1
      BY <1>17 DEF PopTake, C, RingInv, TypeOK, ConsumerAt
    <3> QED BY <3>1, SlotRange DEF RingInv, SlotsHold
  <2>3. buf[Slot(head)] \in Value \cup {NoValue}
    BY <2>2 DEF RingInv, TypeOK
  <2> QED BY <1>17, <2>1, <2>2, <2>3 DEF PopTake, C, rvars, pvars, cvars, RingInv, TypeOK, ProducerAt,
      ConsumerAt, CloserAt, ConsumerGate, ProducerGate, NoLostWakeup, PPC, CPC, KPC
<1>18. CASE PopBump
  <2>1. Counts' /\ SlotsHold' /\ Delivered'
    BY <1>18, DataKept DEF PopBump, rvars, pvars, cvars
  <2> QED BY <1>18, <2>1 DEF PopBump, C, rvars, pvars, cvars, RingInv, TypeOK, ProducerAt,
      ConsumerAt, CloserAt, ConsumerGate, ProducerGate, NoLostWakeup, PPC, CPC, KPC
<1>19. CASE PopNotify
  <2>1. Counts' /\ SlotsHold' /\ Delivered'
    BY <1>19, DataKept DEF PopNotify, rvars, pvars, cvars
  <2> QED BY <1>19, <2>1 DEF PopNotify, C, rvars, pvars, cvars, RingInv, TypeOK, ProducerAt,
      ConsumerAt, CloserAt, ConsumerGate, ProducerGate, NoLostWakeup, PPC, CPC, KPC
<1>20. CASE CloseStore
  <2>1. Counts' /\ SlotsHold' /\ Delivered'
    BY <1>20, DataKept DEF CloseStore, rvars, pvars, cvars
  <2> QED BY <1>20, <2>1 DEF CloseStore, K, rvars, pvars, cvars, RingInv, TypeOK, ProducerAt,
      ConsumerAt, CloserAt, ConsumerGate, ProducerGate, NoLostWakeup, PPC, CPC, KPC
<1>21. CASE CloseBumpEmpty
  <2>1. Counts' /\ SlotsHold' /\ Delivered'
    BY <1>21, DataKept DEF CloseBumpEmpty, rvars, pvars, cvars
  <2> QED BY <1>21, <2>1 DEF CloseBumpEmpty, K, rvars, pvars, cvars, RingInv, TypeOK, ProducerAt,
      ConsumerAt, CloserAt, ConsumerGate, ProducerGate, NoLostWakeup, PPC, CPC, KPC
<1>22. CASE CloseNotifyEmpty
  <2>1. Counts' /\ SlotsHold' /\ Delivered'
    BY <1>22, DataKept DEF CloseNotifyEmpty, rvars, pvars, cvars
  <2> QED BY <1>22, <2>1 DEF CloseNotifyEmpty, K, rvars, pvars, cvars, RingInv, TypeOK, ProducerAt,
      ConsumerAt, CloserAt, ConsumerGate, ProducerGate, NoLostWakeup, PPC, CPC, KPC
<1>23. CASE CloseBumpFull
  <2>1. Counts' /\ SlotsHold' /\ Delivered'
    BY <1>23, DataKept DEF CloseBumpFull, rvars, pvars, cvars
  <2> QED BY <1>23, <2>1 DEF CloseBumpFull, K, rvars, pvars, cvars, RingInv, TypeOK, ProducerAt,
      ConsumerAt, CloserAt, ConsumerGate, ProducerGate, NoLostWakeup, PPC, CPC, KPC
<1>24. CASE CloseNotifyFull
  <2>1. Counts' /\ SlotsHold' /\ Delivered'
    BY <1>24, DataKept DEF CloseNotifyFull, rvars, pvars, cvars
  <2> QED BY <1>24, <2>1 DEF CloseNotifyFull, K, rvars, pvars, cvars, RingInv, TypeOK, ProducerAt,
      ConsumerAt, CloserAt, ConsumerGate, ProducerGate, NoLostWakeup, PPC, CPC, KPC
<1>25. CASE PushWrite
  <2>1. /\ Slot(tail) \in 0 .. Cap - 1
        /\ buf' = [buf EXCEPT ![Slot(tail)] = pv]
        /\ UNCHANGED <<head, tail, sent, got>>
        /\ tail - head < Cap /\ pv \in Value
    BY <1>25, SlotRange DEF PushWrite, P, cvars, RingInv, TypeOK, ProducerAt
  <2>2. SlotsHold'
    <3> SUFFICES ASSUME NEW i \in head .. tail - 1 PROVE buf'[Slot(i)] = sent[i + 1]
      BY <2>1 DEF SlotsHold
    <3>1. i \in Nat /\ i < tail /\ tail - i < Cap /\ tail \in Nat
      BY <2>1 DEF RingInv, TypeOK
    <3>2. Slot(i) # Slot(tail) /\ Slot(i) \in 0 .. Cap - 1
      BY <3>1, SlotsDiffer, SlotRange
    <3>3. buf[Slot(i)] = sent[i + 1]
      BY DEF RingInv, SlotsHold
    <3> QED BY <2>1, <3>2, <3>3 DEF RingInv, TypeOK
  <2>3. Counts' /\ Delivered'
    BY <2>1 DEF RingInv, Counts, Delivered
  <2>4. TypeOK'
    BY <1>25, <2>1 DEF PushWrite, P, cvars, RingInv, TypeOK, PPC
  <2>5. ProducerAt'
    BY <1>25, <2>1 DEF PushWrite, P, RingInv, TypeOK, ProducerAt
  <2> QED BY <1>25, <2>2, <2>3, <2>4, <2>5 DEF PushWrite, P, cvars, RingInv,
      ConsumerAt, CloserAt, ConsumerGate, ProducerGate, NoLostWakeup
<1>26. CASE PushPublish
  <2>1. /\ tail' = tail + 1 /\ sent' = Append(sent, pv) /\ pv \in Value
        /\ pp' = "bump" /\ pp = "publish"
        /\ tail - head < Cap /\ buf[Slot(tail)] = pv
        /\ UNCHANGED <<buf, head, got, notEmptyGate, notFullGate, closed, kp,
                       cp, cg, out, pv, pg, refused, ended>>
    BY <1>26 DEF PushPublish, P, cvars, RingInv, ProducerAt
  <2>2. /\ sent' \in Seq(Value) /\ Len(sent') = tail + 1 /\ sent'[tail + 1] = pv
        /\ \A i \in 1 .. tail : sent'[i] = sent[i]
    BY <2>1 DEF RingInv, TypeOK, Counts
  <2>3. Counts' BY <2>1, <2>2 DEF RingInv, TypeOK, Counts
  <2>4. SlotsHold'
    <3>0. tail' - 1 = tail
      BY <2>1 DEF RingInv, TypeOK
    <3> SUFFICES ASSUME NEW i \in head .. tail PROVE buf[Slot(i)] = sent'[i + 1]
      BY <2>1, <3>0 DEF SlotsHold
    <3>1. CASE i = tail BY <3>1, <2>1, <2>2
    <3>2. CASE i # tail
      <4>1. i \in head .. tail - 1 /\ i + 1 \in 1 .. tail
        BY <3>2 DEF RingInv, TypeOK
      <4> QED BY <4>1, <2>2 DEF RingInv, SlotsHold
    <3> QED BY <3>1, <3>2
  <2>5. Delivered' BY <2>1, <2>2 DEF RingInv, TypeOK, Counts, Delivered
  <2>6. TypeOK' BY <2>1, <2>2 DEF RingInv, TypeOK, PPC
  <2>7. ConsumerAt' BY <2>1, <2>2 DEF RingInv, TypeOK, Counts, ConsumerAt
  <2> QED BY <2>1, <2>3, <2>4, <2>5, <2>6, <2>7 DEF RingInv, TypeOK,
      ProducerAt, CloserAt, ConsumerGate, ProducerGate, NoLostWakeup
<1>27. CASE PopRelease
  <2>1. /\ head' = head + 1 /\ got' = Append(got, out) /\ out = sent[head + 1]
        /\ cp' = "bump" /\ cp = "release" /\ head < tail
        /\ UNCHANGED <<buf, tail, sent, notEmptyGate, notFullGate, closed, kp,
                       pp, pv, pg, cg, out, refused, ended>>
    BY <1>27 DEF PopRelease, C, pvars, RingInv, ConsumerAt
  <2>2. head + 1 \in 1 .. Len(sent) /\ out \in Value
    BY <2>1 DEF RingInv, TypeOK, Counts
  <2>3. /\ got' \in Seq(Value) /\ Len(got') = head + 1 /\ got'[head + 1] = out
        /\ \A i \in 1 .. head : got'[i] = got[i]
    BY <2>1, <2>2 DEF RingInv, TypeOK, Counts
  <2>4. Counts' BY <2>1, <2>3 DEF RingInv, TypeOK, Counts
  <2>5. SlotsHold' BY <2>1 DEF RingInv, TypeOK, SlotsHold
  <2>6. Delivered'
    <3> SUFFICES ASSUME NEW i \in 1 .. head + 1 PROVE got'[i] = sent[i]
      BY <2>1 DEF Delivered
    <3>1. CASE i = head + 1 BY <3>1, <2>1, <2>3
    <3>2. CASE i # head + 1
      <4>1. i \in 1 .. head BY <3>2 DEF RingInv, TypeOK
      <4> QED BY <4>1, <2>3 DEF RingInv, Delivered
    <3> QED BY <3>1, <3>2
  <2>7. TypeOK' BY <2>1, <2>3 DEF RingInv, TypeOK, CPC
  <2> QED BY <2>1, <2>4, <2>5, <2>6, <2>7 DEF RingInv, TypeOK,
      ProducerAt, ConsumerAt, CloserAt, ConsumerGate, ProducerGate, NoLostWakeup
<1>28. CASE UNCHANGED vars
  BY <1>28 DEF vars, rvars, pvars, cvars, RingInv, TypeOK, Counts, SlotsHold,
     Delivered, ProducerAt, ConsumerAt, CloserAt, ConsumerGate, ProducerGate,
     NoLostWakeup
<1> QED
  BY <1>0, <1>1, <1>2, <1>3, <1>4, <1>5, <1>6, <1>7, <1>8, <1>9, <1>10,
     <1>11, <1>12, <1>13, <1>14, <1>15, <1>16, <1>17, <1>18, <1>19,
     <1>20, <1>21, <1>22, <1>23, <1>24, <1>25, <1>26, <1>27, <1>28
  DEF Next, Push, Pop, Close

-----------------------------------------------------------------------------
(* Results. *)

\* ring.h - the ring and its threads keep their types in every behaviour.
THEOREM RingTypeCorrect == Spec => []TypeOK
<1>1. RingInv => TypeOK BY DEF RingInv
<1> QED BY <1>1, RingInit, RingStep, PTL DEF Spec

\* ring.h:50,78 - push()'s write and pop()'s read of a slot never coincide,
\* whatever the capacity: between the two, tail - head < Cap and head < tail.
THEOREM RingNoSlotRace == Spec => []NoSlotRace
<1>1. RingInv => NoSlotRace
  <2> SUFFICES ASSUME RingInv, pp = "write", cp = "take" PROVE Slot(tail) # Slot(head)
    BY DEF NoSlotRace
  <2>1. head \in Nat /\ tail \in Nat /\ head < tail /\ tail - head < Cap
    BY DEF RingInv, TypeOK, ProducerAt, ConsumerAt
  <2> QED BY <2>1, SlotsDiffer
<1> QED BY <1>1, RingInit, RingStep, PTL DEF Spec

\* ring.h:50-52,78-79 - pop() hands out exactly the published values in order.
THEOREM RingFifoDelivery == Spec => []FifoDelivery
<1>1. RingInv => FifoDelivery
  BY DEF RingInv, TypeOK, Counts, Delivered, FifoDelivery
<1> QED BY <1>1, RingInit, RingStep, PTL DEF Spec

\* ring.h:42-47,69-74 - no wake-up is lost, for any number of values.
THEOREM RingNoLostWakeup == Spec => []NoLostWakeup
<1>1. RingInv => NoLostWakeup BY DEF RingInv
<1> QED BY <1>1, RingInit, RingStep, PTL DEF Spec

\* ring.h:64-68 - pop() answers false only when closed and drained.
THEOREM RingEndMeansDrained == Spec => EndMeansDrained
<1>1. RingInv /\ [Next]_vars => [ended' # ended => closed /\ head = tail]_vars
  <2> SUFFICES ASSUME RingInv, Next, ended' # ended PROVE closed /\ head = tail
    OBVIOUS
  <2>1. PopDrained
    BY DEF Next, Push, Pop, Close, PushCall, PushClosed, PushRoom, PushGate,
       PushRecheckRoom, PushRecheckClosed, PushWait, PushWrite, PushPublish,
       PushBump, PushNotify, PopCall, PopEmpty, PopClosed, PopGate,
       PopRecheckEmpty, PopRecheckClosed, PopWait, PopTake, PopRelease, PopBump,
       PopNotify, CloseStore, CloseBumpEmpty, CloseNotifyEmpty, CloseBumpFull,
       CloseNotifyFull, cvars
  <2> QED BY <2>1 DEF PopDrained, RingInv, ConsumerAt
<1> QED BY <1>1, RingInit, RingStep, PTL DEF Spec, EndMeansDrained

-----------------------------------------------------------------------------
(* The ring implements the closable bounded queue. *)

LEMMA Slice ==
  ASSUME NEW s \in Seq(Value), NEW h \in Nat, NEW n \in Nat, h <= n, n <= Len(s)
  PROVE  /\ SubSeq(s, h + 1, n) \in Seq(Value) /\ Len(SubSeq(s, h + 1, n)) = n - h
         /\ \A i \in 1 .. n - h : SubSeq(s, h + 1, n)[i] = s[h + i]
<1>1. \A i \in h + 1 .. n : s[i] \in Value
  OBVIOUS
<1>2. PICK m \in Int : m = h + 1
  OBVIOUS
<1>3. SubSeq(s, m, n) \in Seq(Value)
  BY <1>1, <1>2, SubSeqProperties
<1>4. Len(SubSeq(s, m, n)) = IF m <= n THEN n - m + 1 ELSE 0
  BY <1>1, <1>2, SubSeqProperties
<1>5. \A i \in 1 .. n - m + 1 : SubSeq(s, m, n)[i] = s[m + i - 1]
  BY <1>1, <1>2, SubSeqProperties
<1>6. n - m + 1 = n - h /\ \A i \in 1 .. n - h : m + i - 1 = h + i
  BY <1>2
<1>7. \A i \in 1 .. n - h : SubSeq(s, m, n)[i] = s[h + i]
  BY <1>5, <1>6
<1>8. Len(SubSeq(s, m, n)) = n - h
  BY <1>2, <1>4
<1> QED BY <1>2, <1>3, <1>7, <1>8

\* What lies between head and tail: one more value after a publication.
LEMMA QueueGrows ==
  ASSUME NEW s \in Seq(Value), NEW v \in Value, NEW h \in Nat, h <= Len(s)
  PROVE  SubSeq(Append(s, v), h + 1, Len(s) + 1) = Append(SubSeq(s, h + 1, Len(s)), v)
<1> DEFINE a == Append(s, v)
           n == Len(s)
<1>1. /\ a \in Seq(Value) /\ Len(a) = n + 1 /\ a[n + 1] = v
      /\ n \in Nat /\ \A i \in 1 .. n : a[i] = s[i]
  OBVIOUS
<1>2. SubSeq(a, h + 1, n + 1) = SubSeq(a, h + 1, n) \o <<v>>
  <2>1. h + 1 \in 1 .. Len(a) /\ n + 1 \in h + 1 .. Len(a) /\ (n + 1) - 1 = n
    BY <1>1
  <2> HIDE DEF a, n
  <2> QED BY <1>1, <2>1, SubSeqRecursiveSecond
<1>3. SubSeq(a, h + 1, n) = SubSeq(s, h + 1, n)
  <2>1. \A i \in h + 1 .. n : a[i] = s[i]
    BY <1>1
  <2> HIDE DEF a, n
  <2>2. /\ SubSeq(s, h + 1, n) \in Seq(Value) /\ SubSeq(a, h + 1, n) \in Seq(Value)
        /\ Len(SubSeq(s, h + 1, n)) = Len(SubSeq(a, h + 1, n))
        /\ Len(SubSeq(s, h + 1, n)) = n - h
        /\ \A i \in 1 .. n - h : SubSeq(s, h + 1, n)[i] = s[h + i]
        /\ \A i \in 1 .. n - h : SubSeq(a, h + 1, n)[i] = a[h + i]
    <3>1. h <= n /\ n <= Len(s) /\ n <= Len(a)
      BY <1>1 DEF n
    <3> QED BY <1>1, <3>1, Slice
  <2>3. \A i \in 1 .. n - h : a[h + i] = s[h + i]
    BY <2>1, <1>1
  <2> QED BY <2>2, <2>3, SeqEqual
<1>4. SubSeq(s, h + 1, n) \in Seq(Value)
  <2>1. h <= n /\ n <= Len(s) /\ n \in Nat
    BY <1>1
  <2> HIDE DEF n
  <2> QED BY <2>1, Slice
<1> HIDE DEF a, n
<1> QED BY <1>2, <1>3, <1>4, AppendIsConcat DEF a, n

\* ... and one less after a release.
LEMMA QueueShrinks ==
  ASSUME NEW s \in Seq(Value), NEW h \in Nat, h < Len(s)
  PROVE  /\ SubSeq(s, h + 1, Len(s)) # <<>>
         /\ Head(SubSeq(s, h + 1, Len(s))) = s[h + 1]
         /\ Tail(SubSeq(s, h + 1, Len(s))) = SubSeq(s, h + 2, Len(s))
<1>1. h + 1 \in 1 .. Len(s) /\ Len(s) \in h + 1 .. Len(s) /\ (h + 1) + 1 = h + 2
  OBVIOUS
<1>2. Len(SubSeq(s, h + 1, Len(s))) > 0
  <2>1. PICK n \in Nat : n = Len(s) /\ h < n
    OBVIOUS
  <2>2. Len(SubSeq(s, h + 1, n)) = n - h
    BY <2>1, Slice
  <2> QED BY <2>1, <2>2
<1>3. SubSeq(s, h + 1, Len(s)) # <<>>
  BY <1>2, EmptySeq
<1>4. /\ Head(SubSeq(s, h + 1, Len(s))) = s[h + 1]
      /\ Tail(SubSeq(s, h + 1, Len(s))) = SubSeq(s, (h + 1) + 1, Len(s))
  BY <1>1, HeadTailOfSubSeq
<1> QED BY <1>1, <1>3, <1>4

LEMMA QueueLength ==
  ASSUME NEW s \in Seq(Value), NEW h \in Nat, h <= Len(s)
  PROVE  Len(SubSeq(s, h + 1, Len(s))) = Len(s) - h
<1>1. PICK n \in Nat : n = Len(s)
  OBVIOUS
<1>2. Len(SubSeq(s, h + 1, n)) = n - h
  BY <1>1, Slice
<1> QED BY <1>1, <1>2

LEMMA RingFifoInit == Init => Fifo!Init
  BY SubSeqEmpty DEF Init, Fifo!Init

LEMMA RingFifoStep == RingInv /\ [Next]_vars => [Fifo!Next]_Fifo!fvars
<1> SUFFICES ASSUME RingInv, [Next]_vars
             PROVE  Fifo!Next \/ UNCHANGED Fifo!fvars
  OBVIOUS
<1> USE DEF Fifo!Next, Fifo!fvars
<1>0. /\ sent \in Seq(Value) /\ got \in Seq(Value) /\ head \in Nat /\ tail \in Nat
      /\ head <= tail /\ Len(sent) = tail /\ Len(got) = head
  BY DEF RingInv, TypeOK, Counts
<1>1. CASE PushPublish
  <2>1. /\ tail' = tail + 1 /\ sent' = Append(sent, pv) /\ pv \in Value
        /\ tail - head < Cap /\ UNCHANGED <<head, got, closed, refused, ended>>
    BY <1>1 DEF PushPublish, P, cvars, RingInv, ProducerAt
  <2>2. SubSeq(sent, head + 1, tail)' = Append(SubSeq(sent, head + 1, tail), pv)
    BY <1>0, <2>1, QueueGrows
  <2>3. Len(SubSeq(sent, head + 1, tail)) < Cap
    BY <1>0, <2>1, QueueLength
  <2> QED BY <2>1, <2>2, <2>3 DEF Fifo!Accept
<1>2. CASE PopRelease
  <2>1. /\ head' = head + 1 /\ got' = Append(got, out) /\ out = sent[head + 1]
        /\ head < tail /\ UNCHANGED <<tail, sent, closed, refused, ended>>
    BY <1>2 DEF PopRelease, C, pvars, RingInv, ConsumerAt
  <2>2. /\ SubSeq(sent, head + 1, tail) # <<>>
        /\ Head(SubSeq(sent, head + 1, tail)) = out
        /\ Tail(SubSeq(sent, head + 1, tail)) = SubSeq(sent, head + 2, tail)
    BY <1>0, <2>1, QueueShrinks
  <2>3. SubSeq(sent, head + 1, tail)' = SubSeq(sent, head + 2, tail)
    BY <1>0, <2>1
  <2> QED BY <2>1, <2>2, <2>3 DEF Fifo!Deliver
<1>3. CASE PushClosed
  <2>1. UNCHANGED <<sent, head, tail, got, closed, ended>>
    BY <1>3 DEF PushClosed, rvars, cvars
  <2>2. \/ closed /\ refused' = TRUE
        \/ UNCHANGED refused
    BY <1>3 DEF PushClosed
  <2> QED BY <2>1, <2>2 DEF Fifo!Refuse
<1>4. CASE PopDrained
  <2>1. UNCHANGED <<sent, head, tail, got, closed, refused>> /\ closed
    BY <1>4 DEF PopDrained, rvars, pvars, RingInv, ConsumerAt
  <2>2. \/ head = tail /\ ended' = TRUE
        \/ UNCHANGED ended
    BY <1>4 DEF PopDrained
  <2>3. head = tail => SubSeq(sent, head + 1, tail) = <<>>
    BY <1>0, SubSeqEmpty
  <2> QED BY <2>1, <2>2, <2>3 DEF Fifo!End
<1>5. CASE CloseStore
  BY <1>5 DEF CloseStore, pvars, cvars, Fifo!Close
<1>6. CASE /\ ~PushPublish /\ ~PopRelease /\ ~PushClosed /\ ~PopDrained /\ ~CloseStore
  <2>1. UNCHANGED <<sent, head, tail, got, closed, refused, ended>>
    BY <1>6 DEF Next, Push, Pop, Close, PushCall, PushRoom, PushGate,
       PushRecheckRoom, PushRecheckClosed, PushWait, PushWrite, PushBump,
       PushNotify, PopCall, PopEmpty, PopClosed, PopGate, PopRecheckEmpty,
       PopRecheckClosed, PopWait, PopTake, PopBump, PopNotify, CloseBumpEmpty,
       CloseNotifyEmpty, CloseBumpFull, CloseNotifyFull, vars, rvars, pvars, cvars
  <2> QED BY <2>1
<1> QED BY <1>1, <1>2, <1>3, <1>4, <1>5, <1>6

\* ring.h:31-84 - every behaviour of the ring, seen through what lies between
\* head and tail, is one of the closable bounded queue.
THEOREM RingImplementsFifo == Spec => ImplementsFifo
BY RingInit, RingStep, RingFifoInit, RingFifoStep, PTL DEF Spec, ImplementsFifo, Fifo!Spec
=============================================================================
