--------------------------- MODULE StorageReader ---------------------------
(***************************************************************************)
(* client/storageReader.h with its user in client/worker.h and the disk    *)
(* limiter of client/storage.h.  Every worker thread has a reader thread   *)
(* of its own.  ReadAhead block buffers circulate between the two: the     *)
(* reader pops a free index from `spare', fills the buffer and pushes it   *)
(* to `ready'; the worker sends the block and pushes the index back.  All  *)
(* readers share the permits of one counting semaphore, a lock-free one    *)
(* (storage.h): it is modelled by its atomic operations.                   *)
(*                                                                         *)
(* A unit is its number of blocks.  `ready' is used as SPSC and modelled   *)
(* by what module SpscRing is shown to implement.  `spare' is not: both    *)
(* the worker (recycle) and the reader (a read that returned nothing) push *)
(* to it, so a push is three steps, the load of tail, the write of the     *)
(* place it names and the store of tail + 1: two producers may write the   *)
(* same place, and a store may take the tail back behind what the other    *)
(* one pushed.  Places and tail are counted from the ring's head.          *)
(***************************************************************************)
EXTENDS Naturals, Sequences, FiniteSets

CONSTANTS Reader,     \* the worker/reader pairs
          Permits,    \* diskConcurrency
          ReadAhead,  \* READ_AHEAD: buffers per reader
          Ring,       \* READ_RING: places of each ring
          Blocks,     \* reader -> the sizes its units may have, in blocks
          MaxUnits,   \* bound: units a worker is given
          Shrinking   \* readers whose files may shrink or vanish once listed

ASSUME ReaderAssumption == IsFiniteSet(Reader)
ASSUME PermitsAssumption == Permits \in Nat \ {0}
ASSUME RingAssumption == ReadAhead \in Nat \ {0} /\ Ring \in Nat /\ ReadAhead < Ring
ASSUME BoundsAssumption == Blocks \in [Reader -> SUBSET Nat] /\ MaxUnits \in Nat
ASSUME ShrinkingAssumption == Shrinking \subseteq Reader

VARIABLES permits, semp,       \* the semaphore, and what each acquire() last saw of it
          ready,               \* the contents of the ready ring, oldest first
          spare, spareTail,    \* the places of the spare ring written since the head,
                               \* and how many of them have been pushed
          rp, rem, blk, ridx,  \* reader: pc, blocks to read, next block, buffer in hand
          rpos,                \* reader: the tail it loaded in spare.push()
          wp, widx, wpos,      \* worker: pc, buffer in hand, the tail it loaded
          units, seen, failed  \* worker: units left, blocks got, network failed

rvars == <<rp, rem, blk, ridx, rpos, semp>>
wvars == <<wp, widx, wpos, units, seen, failed>>
spares == <<spare, spareTail>>
vars  == <<permits, spares, ready, rvars, wvars>>

Buffer == 1 .. ReadAhead
None   == 0
Eof    == [idx |-> None, blk |-> 0, eof |-> TRUE]

Init == /\ permits = Permits /\ semp = [r \in Reader |-> 0]
        /\ spare = [r \in Reader |-> [i \in Buffer |-> i]]
        /\ spareTail = [r \in Reader |-> ReadAhead]
        /\ ready = [r \in Reader |-> <<>>]
        /\ rp = [r \in Reader |-> "idle"]
        /\ rem = [r \in Reader |-> 0] /\ blk = [r \in Reader |-> 0]
        /\ ridx = [r \in Reader |-> None] /\ rpos = [r \in Reader |-> 0]
        /\ wp = [r \in Reader |-> "idle"]
        /\ widx = [r \in Reader |-> None] /\ wpos = [r \in Reader |-> 0]
        /\ units = [r \in Reader |-> MaxUnits]
        /\ seen = [r \in Reader |-> 0]
        /\ failed = [r \in Reader |-> FALSE]

\* The write of place pos, which lies behind the last one or has been written before.
WriteAt(places, pos, i) == IF pos < Len(places) THEN [places EXCEPT ![pos + 1] = i]
                           ELSE Append(places, i)

-----------------------------------------------------------------------------
(* StorageReader::process, on r's reader thread *)

\* Semaphore::acquire: load, compare-and-swap as long as there is a permit, and
\* sleep on a value of 0.
Saw(r, p) == /\ semp' = [semp EXCEPT ![r] = p]
             /\ rp' = [rp EXCEPT ![r] = IF p > 0 THEN "cas" ELSE "wait"]

AcquireLoad(r) == /\ rp[r] = "acquire" /\ Saw(r, permits)
                  /\ UNCHANGED <<permits, spares, ready, rem, blk, ridx, rpos, wvars>>

\* Faulty: a plain store of the value seen, less one.
AcquireStore(r) == /\ rp[r] = "cas"
                   /\ permits' = semp[r] - 1 /\ semp' = [semp EXCEPT ![r] = 0]
                   /\ rp' = [rp EXCEPT ![r] = "loop"]
                   /\ UNCHANGED <<spares, ready, rem, blk, ridx, rpos, wvars>>
AcquireCas(r) == /\ rp[r] = "cas"
                 /\ IF permits = semp[r]
                    THEN /\ permits' = permits - 1 /\ semp' = [semp EXCEPT ![r] = 0]
                         /\ rp' = [rp EXCEPT ![r] = "loop"]
                    ELSE Saw(r, permits) /\ permits' = permits
                 /\ UNCHANGED <<spares, ready, rem, blk, ridx, rpos, wvars>>

\* permits.wait(0): the value is checked and the thread put to sleep in one step.
AcquireWait(r) == /\ rp[r] = "wait"
                  /\ rp' = [rp EXCEPT ![r] = IF permits = 0 THEN "asleep" ELSE "acquire"]
                  /\ UNCHANGED <<permits, semp, spares, ready, rem, blk, ridx, rpos, wvars>>

\* The file cannot be opened: the loop is not entered.
OpenFails(r) == /\ r \in Shrinking
                /\ rp[r] = "loop" /\ blk[r] = 0
                /\ rp' = [rp EXCEPT ![r] = "release"]
                /\ UNCHANGED <<permits, spares, ready, rem, blk, ridx, rpos, semp, wvars>>

\* The pop moves the head, from which the tail and the place of a push under
\* way are counted.
PopSpare(r) ==
  /\ rp[r] = "loop" /\ rem[r] > 0 /\ spareTail[r] > 0
  /\ ridx' = [ridx EXCEPT ![r] = Head(spare[r])]
  /\ spare' = [spare EXCEPT ![r] = Tail(@)] /\ spareTail' = [spareTail EXCEPT ![r] = @ - 1]
  /\ wpos' = [wpos EXCEPT ![r] = IF wp[r] \in {"write", "store"} THEN @ - 1 ELSE @]
  /\ rp' = [rp EXCEPT ![r] = "read"]
  /\ UNCHANGED <<permits, ready, rem, blk, rpos, semp, wp, widx, units, seen, failed>>

\* readAt() brings the block, or nothing.
ReadAt(r) ==
  /\ rp[r] = "read"
  /\ \/ rp' = [rp EXCEPT ![r] = "push"]
     \/ r \in Shrinking /\ rp' = [rp EXCEPT ![r] = "putback"]
  /\ UNCHANGED <<permits, spares, ready, rem, blk, ridx, rpos, semp, wvars>>

\* spare.push() of a buffer that nothing was read into.
PutBackLoad(r) ==
  /\ rp[r] = "putback"
  /\ rpos' = [rpos EXCEPT ![r] = spareTail[r]]
  /\ rp' = [rp EXCEPT ![r] = "putbackWrite"]
  /\ UNCHANGED <<permits, spares, ready, rem, blk, ridx, semp, wvars>>

PutBackWrite(r) ==
  /\ rp[r] = "putbackWrite"
  /\ spare' = [spare EXCEPT ![r] = WriteAt(@, rpos[r], ridx[r])]
  /\ ridx' = [ridx EXCEPT ![r] = None]
  /\ rp' = [rp EXCEPT ![r] = "putbackStore"]
  /\ UNCHANGED <<permits, spareTail, ready, rem, blk, rpos, semp, wvars>>

PutBackStore(r) ==
  /\ rp[r] = "putbackStore"
  /\ spareTail' = [spareTail EXCEPT ![r] = rpos[r] + 1]
  /\ rp' = [rp EXCEPT ![r] = "release"]
  /\ UNCHANGED <<permits, spare, ready, rem, blk, ridx, rpos, semp, wvars>>

\* Faulty: the index is handed over but kept for the next block as well.
PushReadyKeeps(r) ==
  /\ rp[r] = "push" /\ Len(ready[r]) < Ring
  /\ ready' = [ready EXCEPT ![r] = Append(@, [idx |-> ridx[r], blk |-> blk[r], eof |-> FALSE])]
  /\ rem' = [rem EXCEPT ![r] = @ - 1]
  /\ blk' = [blk EXCEPT ![r] = @ + 1]
  /\ rp' = [rp EXCEPT ![r] = IF rem[r] > 1 THEN "read" ELSE "loop"]
  /\ UNCHANGED <<permits, spares, ridx, rpos, semp, wvars>>
PushReady(r) ==
  /\ rp[r] = "push" /\ Len(ready[r]) < Ring
  /\ ready' = [ready EXCEPT ![r] = Append(@, [idx |-> ridx[r], blk |-> blk[r], eof |-> FALSE])]
  /\ ridx' = [ridx EXCEPT ![r] = None]
  /\ rem' = [rem EXCEPT ![r] = @ - 1]
  /\ blk' = [blk EXCEPT ![r] = @ + 1]
  /\ rp' = [rp EXCEPT ![r] = "loop"]
  /\ UNCHANGED <<permits, spares, rpos, semp, wvars>>

LoopEnds(r) == /\ rp[r] = "loop" /\ rem[r] = 0
               /\ rp' = [rp EXCEPT ![r] = "release"]
               /\ UNCHANGED <<permits, spares, ready, rem, blk, ridx, rpos, semp, wvars>>

\* Semaphore::release: the permit is back before a sleeper is told.
ReleaseAdd(r) == /\ rp[r] = "release"
                 /\ permits' = permits + 1
                 /\ rp' = [rp EXCEPT ![r] = "notify"]
                 /\ UNCHANGED <<spares, ready, rem, blk, ridx, rpos, semp, wvars>>

Asleep == {q \in Reader : rp[q] = "asleep"}
\* Faulty: nobody is told.
NotifyNobody(r) == /\ rp[r] = "notify"
                   /\ rp' = [rp EXCEPT ![r] = "eof"]
                   /\ UNCHANGED <<permits, spares, ready, rem, blk, ridx, rpos, semp, wvars>>
notify_one(r) == /\ rp[r] = "notify"
                 /\ \/ Asleep = {} /\ rp' = [rp EXCEPT ![r] = "eof"]
                    \/ \E q \in Asleep : rp' = [rp EXCEPT ![r] = "eof", ![q] = "acquire"]
                 /\ UNCHANGED <<permits, spares, ready, rem, blk, ridx, rpos, semp, wvars>>

PushEof(r) == /\ rp[r] = "eof" /\ Len(ready[r]) < Ring
              /\ ready' = [ready EXCEPT ![r] = Append(@, Eof)]
              /\ rp' = [rp EXCEPT ![r] = "idle"]
              /\ UNCHANGED <<permits, spares, rem, blk, ridx, rpos, semp, wvars>>

ReaderStep(r) == \/ AcquireLoad(r) \/ AcquireCas(r) \/ AcquireWait(r) \/ OpenFails(r) \/ PopSpare(r) \/ ReadAt(r)
                 \/ PutBackLoad(r) \/ PutBackWrite(r) \/ PutBackStore(r) \/ PushReady(r)
                 \/ LoopEnds(r) \/ ReleaseAdd(r) \/ notify_one(r) \/ PushEof(r)

-----------------------------------------------------------------------------
(* Worker::upload, on r's worker thread *)

\* The header is queued and the read submitted; a network failure before that
\* submits nothing.
Submit(r, n) ==
  /\ wp[r] = "idle" /\ rp[r] = "idle" /\ units[r] > 0
  /\ units' = [units EXCEPT ![r] = @ - 1]
  /\ seen' = [seen EXCEPT ![r] = 0]
  /\ rem' = [rem EXCEPT ![r] = n]
  /\ blk' = [blk EXCEPT ![r] = 0]
  /\ rp' = [rp EXCEPT ![r] = "acquire"]
  /\ wp' = [wp EXCEPT ![r] = "next"]
  /\ UNCHANGED <<permits, spares, ready, ridx, rpos, semp, widx, wpos, failed>>

\* next() returned a block: it is compressed and sent, or, after a failure,
\* only drained.
NextBlock(r) ==
  /\ wp[r] = "next" /\ ready[r] # <<>> /\ ~Head(ready[r]).eof
  /\ widx' = [widx EXCEPT ![r] = Head(ready[r]).idx]
  /\ seen' = [seen EXCEPT ![r] = @ + 1]
  /\ ready' = [ready EXCEPT ![r] = Tail(@)]
  /\ wp' = [wp EXCEPT ![r] = IF failed[r] THEN "recycle" ELSE "send"]
  /\ UNCHANGED <<permits, spares, rvars, wpos, units, failed>>

\* Faulty: the failed unit is left without drainStorage().
SendBlockLeaves(r) ==
  /\ wp[r] = "send"
  /\ \/ wp' = [wp EXCEPT ![r] = "recycle"]
     \/ wp' = [wp EXCEPT ![r] = "stopped"]
  /\ UNCHANGED <<permits, spares, ready, rvars, widx, wpos, units, seen, failed>>
SendBlock(r) ==
  /\ wp[r] = "send"
  /\ wp' = [wp EXCEPT ![r] = "recycle"]
  /\ \E ok \in BOOLEAN : failed' = [failed EXCEPT ![r] = ~ok]
  /\ UNCHANGED <<permits, spares, ready, rvars, widx, wpos, units, seen>>

\* spare.push() of the block's buffer.
RecycleLoad(r) ==
  /\ wp[r] = "recycle"
  /\ wpos' = [wpos EXCEPT ![r] = spareTail[r]]
  /\ wp' = [wp EXCEPT ![r] = "write"]
  /\ UNCHANGED <<permits, spares, ready, rvars, widx, units, seen, failed>>

RecycleWrite(r) ==
  /\ wp[r] = "write"
  /\ spare' = [spare EXCEPT ![r] = WriteAt(@, wpos[r], widx[r])]
  /\ widx' = [widx EXCEPT ![r] = None]
  /\ wp' = [wp EXCEPT ![r] = "store"]
  /\ UNCHANGED <<permits, spareTail, ready, rvars, wpos, units, seen, failed>>

RecycleStore(r) ==
  /\ wp[r] = "store"
  /\ spareTail' = [spareTail EXCEPT ![r] = wpos[r] + 1]
  /\ wp' = [wp EXCEPT ![r] = "next"]
  /\ UNCHANGED <<permits, spare, ready, rvars, widx, wpos, units, seen, failed>>

\* next() returned the end marker: end of the unit, or of the drain.  The
\* unit's last frames may fail to be queued as well; a worker whose unit
\* failed takes no further one.
NextEof(r) ==
  /\ wp[r] = "next" /\ ready[r] # <<>> /\ Head(ready[r]).eof
  /\ ready' = [ready EXCEPT ![r] = Tail(@)]
  /\ \E ok \in BOOLEAN :
       wp' = [wp EXCEPT ![r] = IF ok /\ ~failed[r] THEN "idle" ELSE "stopped"]
  /\ UNCHANGED <<permits, spares, rvars, widx, wpos, units, seen, failed>>

WorkerStep(r) == NextBlock(r) \/ SendBlock(r) \/ RecycleLoad(r) \/ RecycleWrite(r)
                 \/ RecycleStore(r) \/ NextEof(r)

Next == \E r \in Reader : \/ ReaderStep(r) \/ WorkerStep(r)
                          \/ \E n \in Blocks[r] : Submit(r, n)

Spec == Init /\ [][Next]_vars

\* Threads keep running; a worker need not be given another unit.
FairSpec == Spec /\ \A r \in Reader : WF_vars(ReaderStep(r)) /\ WF_vars(WorkerStep(r))

-----------------------------------------------------------------------------
(* Properties *)

\* Where buffer i of reader r is: in the spare ring, pushed or about to be, in the
\* reader's hands, in the ready ring, in the worker's hands.
Pushed(r) == 1 .. spareTail[r] \cup {k \in {wpos[r] + 1} : wp[r] = "store"}
                         \cup {k \in {rpos[r] + 1} : rp[r] = "putbackStore"}
Places(r, i) ==
  {<<"spare", k>> : k \in {k \in Pushed(r) : spare[r][k] = i}}
  \cup {<<"ready", k>> : k \in {k \in DOMAIN ready[r] : ready[r][k].idx = i}}
  \cup {p \in {<<"reader", 0>>} : ridx[r] = i}
  \cup {p \in {<<"worker", 0>>} : widx[r] = i}

\* storageReader.h:129-142,159-161, worker.h:362-372 - a buffer is in one place
\* at a time, so the reader never fills a block the worker is still sending; and
\* none is lost, but for what the two pushes of a shrinking file overwrite.
BuffersConserved ==
  \A r \in Reader, i \in Buffer :
    /\ Cardinality(Places(r, i)) <= 1
    /\ r \notin Shrinking => Places(r, i) # {}

\* storageReader.h:118-153, worker.h:207-215 - Filled carries no unit: a worker
\* gets its unit's blocks in order only because nothing of an earlier unit is
\* ever left in the ring.
BlocksInOrder ==
  \A r \in Reader :
    /\ wp[r] \in {"idle", "stopped"} => ready[r] = <<>>
    /\ \A k \in DOMAIN ready[r] :
         ~ready[r][k].eof => ready[r][k].blk = seen[r] + k - 1

\* storage.h:26-42, storageReader.h:121,150 - at most diskConcurrency readers
\* are between acquire() and release(), and no permit gets lost.
Reading(r) == rp[r] \in {"loop", "read", "putback", "putbackWrite", "putbackStore", "push",
                          "release"}
PermitsConserved == permits + Cardinality({r \in Reader : Reading(r)}) = Permits

\* storageReader.h:121-152, storage.h:26-42 - every submitted read ends: no reader
\* sleeps on while a permit is free, although the permit is given back before a
\* sleeper is told and a third reader may take it in between, and although a
\* reader keeps its permit while it waits for its own worker to return buffers.
ReadsEnd == \A r \in Reader : wp[r] = "next" ~> wp[r] \in {"idle", "stopped"}
=============================================================================
