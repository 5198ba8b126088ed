------------------------ MODULE StorageReaderProofs ------------------------
(***************************************************************************)
(* The storage readers for every number of readers, permits, buffers and   *)
(* blocks: no buffer is in two hands, a worker gets its blocks in order,   *)
(* and the permits of the disk limiter are conserved.                      *)
(***************************************************************************)
EXTENDS StorageReader, Integers, FiniteSetTheorems, SequenceTheorems, TLAPS

-----------------------------------------------------------------------------
(* The inductive invariant, part by part. *)

Filled == [idx : Buffer \cup {None}, blk : Nat, eof : BOOLEAN]

ReaderPc == {"idle", "acquire", "cas", "wait", "asleep", "loop", "read", "putback",
             "putbackWrite", "putbackStore", "push", "release", "notify", "eof"}
WorkerPc == {"idle", "next", "send", "recycle", "write", "store", "stopped"}

\* Every variable of the readers, the workers and their rings has its type.
TypeOK == /\ permits \in Nat /\ semp \in [Reader -> Nat]
          /\ spare \in [Reader -> Seq(Buffer)] /\ spareTail \in [Reader -> Nat]
          /\ ready \in [Reader -> Seq(Filled)]
          /\ rp \in [Reader -> ReaderPc]
          /\ rem \in [Reader -> Nat] /\ blk \in [Reader -> Nat]
          /\ ridx \in [Reader -> Buffer \cup {None}] /\ rpos \in [Reader -> Nat]
          /\ wp \in [Reader -> WorkerPc]
          /\ widx \in [Reader -> Buffer \cup {None}] /\ wpos \in [Reader -> Nat]
          /\ units \in [Reader -> Nat] /\ seen \in [Reader -> Nat]
          /\ failed \in [Reader -> BOOLEAN]

\* The value a compare-and-swap is about to be tried with has a permit to take,
\* and a buffer is taken only for a block that is left to read.
Counts(r) == /\ rp[r] = "cas" => semp[r] > 0
             /\ rp[r] \in {"read", "push"} => rem[r] > 0

\* A thread has a buffer in hand just between taking and giving it.
Hands(r) == /\ ridx[r] # None <=> rp[r] \in {"read", "push", "putback", "putbackWrite"}
            /\ widx[r] # None <=> wp[r] \in {"send", "recycle", "write"}
            /\ \A k \in DOMAIN ready[r] : ready[r][k].eof <=> ready[r][k].idx = None

\* No buffer is in two places.  The places of spare behind the tail count as well:
\* a store under way may bring them back.
Apart(r) ==
  /\ \A j, k \in DOMAIN spare[r] : spare[r][j] = spare[r][k] => j = k
  /\ \A j, k \in DOMAIN ready[r] :
       ready[r][j].idx = ready[r][k].idx /\ ready[r][j].idx # None => j = k
  /\ \A j \in DOMAIN spare[r], k \in DOMAIN ready[r] : spare[r][j] # ready[r][k].idx
  /\ \A j \in DOMAIN spare[r] : spare[r][j] # ridx[r] /\ spare[r][j] # widx[r]
  /\ \A k \in DOMAIN ready[r] :
       ready[r][k].idx # None => ready[r][k].idx # ridx[r] /\ ready[r][k].idx # widx[r]
  /\ ridx[r] = widx[r] => ridx[r] = None

\* No buffer of a reader whose files keep their size is in none.
Somewhere(r, i) == \/ \E j \in DOMAIN spare[r] : spare[r][j] = i
                   \/ \E k \in DOMAIN ready[r] : ready[r][k].idx = i
                   \/ ridx[r] = i \/ widx[r] = i
Kept(r) == r \notin Shrinking => \A i \in Buffer : Somewhere(r, i)

\* The tail a producer of spare has loaded is the ring's, but for a worker
\* overtaken by the reader's push of a block it could not read; the reader then
\* pops nothing before the worker has stored.
Pushing(r) == wp[r] \in {"write", "store"}
Tails(r) ==
  /\ spareTail[r] <= Len(spare[r])
  /\ Pushing(r) /\ wpos[r] # spareTail[r]
       => r \in Shrinking /\ rp[r] \in {"release", "notify", "eof", "idle"}
  /\ wp[r] = "write" => wpos[r] <= Len(spare[r])
  /\ wp[r] = "store" => wpos[r] < Len(spare[r])
  /\ rp[r] \in {"putback", "putbackWrite", "putbackStore"} => r \in Shrinking
  /\ rp[r] = "putbackWrite" => rpos[r] <= Len(spare[r])
  /\ rp[r] = "putbackStore" => rpos[r] < Len(spare[r])
  /\ r \notin Shrinking => Len(spare[r]) = IF wp[r] = "store" THEN spareTail[r] + 1 ELSE spareTail[r]

\* The ready ring holds blocks of one unit, the end marker last, and it holds
\* that marker just when the reader is done and the worker is not.
Away(r) == wp[r] \in {"idle", "stopped"}
InOrder(r) ==
  /\ Away(r) => rp[r] = "idle" /\ ready[r] = <<>>
  /\ rp[r] # "idle" => /\ \A k \in DOMAIN ready[r] : ~ready[r][k].eof
                       /\ blk[r] = seen[r] + Len(ready[r])
  /\ rp[r] = "idle" /\ ~Away(r) =>
       Len(ready[r]) > 0 /\ ready[r][Len(ready[r])].eof
  /\ \A k \in DOMAIN ready[r] : ready[r][k].eof => k = Len(ready[r])
  /\ \A k \in DOMAIN ready[r] : ~ready[r][k].eof => ready[r][k].blk = seen[r] + k - 1

PairInv(r) == Counts(r) /\ Hands(r) /\ Apart(r) /\ Kept(r) /\ Tails(r) /\ InOrder(r)

StorageInv == TypeOK /\ PermitsConserved /\ \A r \in Reader : PairInv(r)

-----------------------------------------------------------------------------
(* What the rings' operations return. *)

LEMMA AppendFacts ==
  ASSUME NEW S, NEW s \in Seq(S), NEW x \in S
  PROVE  /\ Append(s, x) \in Seq(S) /\ Len(s) \in Nat
         /\ Len(Append(s, x)) = Len(s) + 1 /\ Append(s, x)[Len(s) + 1] = x
         /\ \A k \in 1 .. Len(s) : Append(s, x)[k] = s[k]
         /\ DOMAIN s = 1 .. Len(s) /\ DOMAIN Append(s, x) = 1 .. Len(s) + 1
BY AppendProperties, LenProperties

LEMMA TailFacts ==
  ASSUME NEW S, NEW s \in Seq(S), s # <<>>
  PROVE  /\ Tail(s) \in Seq(S) /\ Len(s) \in Nat /\ Len(s) > 0
         /\ Head(s) = s[1] /\ s[1] \in S
         /\ Len(Tail(s)) = Len(s) - 1
         /\ \A k \in 1 .. Len(s) - 1 : Tail(s)[k] = s[k + 1]
         /\ DOMAIN s = 1 .. Len(s) /\ DOMAIN Tail(s) = 1 .. Len(s) - 1
<1>1. Len(s) \in Nat /\ Len(s) > 0 /\ DOMAIN s = 1 .. Len(s)
  BY EmptySeq, LenProperties
<1>2. Tail(s) \in Seq(S) /\ Len(Tail(s)) = Len(s) - 1 /\ Head(s) \in S
  BY HeadTailProperties
<1>3. DOMAIN Tail(s) = 1 .. Len(s) - 1
  BY <1>2, LenProperties
<1> QED BY <1>1, <1>2, <1>3

-----------------------------------------------------------------------------
(* Frame: a pair whose variables stay the same keeps its invariant. *)

Same(q) == /\ spare'[q] = spare[q] /\ spareTail'[q] = spareTail[q] /\ ready'[q] = ready[q]
           /\ rp'[q] = rp[q] /\ rem'[q] = rem[q] /\ blk'[q] = blk[q] /\ ridx'[q] = ridx[q]
           /\ rpos'[q] = rpos[q] /\ semp'[q] = semp[q]
           /\ wp'[q] = wp[q] /\ widx'[q] = widx[q] /\ wpos'[q] = wpos[q]
           /\ seen'[q] = seen[q]

LEMMA SamePair ==
  ASSUME NEW q, PairInv(q), Same(q)
  PROVE  PairInv(q)'
<1>1. Counts(q)' /\ Hands(q)' /\ Tails(q)' /\ InOrder(q)'
  BY DEF PairInv, Same, Counts, Hands, Tails, Pushing, InOrder, Away
<1>2. Apart(q)'
  BY DEF PairInv, Same, Apart
<1>3. Kept(q)'
  BY DEF PairInv, Same, Kept, Somewhere
<1> QED BY <1>1, <1>2, <1>3 DEF PairInv

\* A pair of which only the pcs and the semaphore's value have changed keeps
\* its buffers apart.
LEMMA SameBuffers ==
  ASSUME NEW q, PairInv(q), spare'[q] = spare[q], ready'[q] = ready[q],
         ridx'[q] = ridx[q], widx'[q] = widx[q]
  PROVE  Apart(q)' /\ Kept(q)'
<1>1. Apart(q)'
  BY DEF PairInv, Apart
<1>2. Kept(q)'
  BY DEF PairInv, Kept, Somewhere
<1> QED BY <1>1, <1>2

\* A pair whose reader goes on, with nothing new in its hand, keeps its invariant.
LEMMA Moved ==
  ASSUME TypeOK, NEW r \in Reader, PairInv(r), Counts(r)',
         spare'[r] = spare[r], spareTail'[r] = spareTail[r], ready'[r] = ready[r],
         blk'[r] = blk[r], ridx'[r] = ridx[r], rpos'[r] = rpos[r],
         wp'[r] = wp[r], widx'[r] = widx[r], wpos'[r] = wpos[r], seen'[r] = seen[r],
         rp[r] # "idle", rp'[r] # "idle",
         rp[r] \in {"read", "push"} <=> rp'[r] \in {"read", "push"},
         rp[r] \notin {"putback", "putbackWrite"},
         rp'[r] \notin {"putback", "putbackWrite", "putbackStore"},
         rp[r] \in {"release", "notify", "eof"} => rp'[r] \in {"release", "notify", "eof"}
  PROVE  PairInv(r)'
<1>1. Apart(r)' /\ Kept(r)'
  BY SameBuffers
<1>2. Hands(r)'
  BY DEF PairInv, Hands
<1>3. InOrder(r)'
  BY DEF PairInv, InOrder, Away
<1>4. Tails(r)'
  BY DEF PairInv, Tails, Pushing
<1> QED BY <1>1, <1>2, <1>3, <1>4 DEF PairInv

-----------------------------------------------------------------------------
(* The invariant is inductive: one lemma per action. *)

\* The step of r's threads keeps the types and r's invariant, and touches nothing
\* of another pair.
Keeps(r) == TypeOK' /\ PairInv(r)' /\ \A q \in Reader \ {r} : Same(q)

\* Steps of the reader that move no buffer.
Moves(r) == \/ AcquireLoad(r) \/ AcquireCas(r) \/ AcquireWait(r) \/ OpenFails(r) \/ ReadAt(r)
            \/ PutBackLoad(r) \/ PutBackStore(r) \/ LoopEnds(r) \/ ReleaseAdd(r)

LEMMA MovesStep ==
  ASSUME StorageInv, NEW r \in Reader, Moves(r)
  PROVE  Keeps(r)
<1> USE DEF StorageInv
<1>1. Len(spare[r]) \in Nat
  BY DEF TypeOK
<1>2. TypeOK'
  <2>1. CASE AcquireLoad(r)
    BY <1>1, <2>1 DEF AcquireLoad, Saw, TypeOK, PairInv, Counts, wvars, spares, ReaderPc
  <2>2. CASE AcquireCas(r)
    <3>1. CASE permits = semp[r]
      <4>1. semp[r] \in Nat /\ semp[r] > 0
        BY <2>2 DEF AcquireCas, StorageInv, TypeOK, PairInv, Counts
      <4>2. /\ permits' = permits - 1 /\ semp' = [semp EXCEPT ![r] = 0]
            /\ rp' = [rp EXCEPT ![r] = "loop"]
        BY <2>2, <3>1 DEF AcquireCas
      <4>3. permits - 1 \in Nat
        BY <3>1, <4>1
      <4> QED BY <2>2, <4>2, <4>3 DEF AcquireCas, TypeOK, wvars, spares, ReaderPc
    <3>2. CASE permits # semp[r]
      <4>1. /\ permits' = permits /\ semp' = [semp EXCEPT ![r] = permits]
            /\ rp' = [rp EXCEPT ![r] = IF permits > 0 THEN "cas" ELSE "wait"]
        BY <2>2, <3>2 DEF AcquireCas, Saw
      <4> QED BY <2>2, <4>1 DEF AcquireCas, TypeOK, wvars, spares, ReaderPc
    <3> QED BY <3>1, <3>2
  <2>3. CASE AcquireWait(r)
    BY <1>1, <2>3 DEF AcquireWait, TypeOK, PairInv, Counts, wvars, spares, ReaderPc
  <2>4. CASE OpenFails(r)
    BY <1>1, <2>4 DEF OpenFails, TypeOK, PairInv, Counts, wvars, spares, ReaderPc
  <2>5. CASE ReadAt(r)
    BY <1>1, <2>5 DEF ReadAt, TypeOK, PairInv, Counts, wvars, spares, ReaderPc
  <2>6. CASE PutBackLoad(r)
    BY <1>1, <2>6 DEF PutBackLoad, TypeOK, PairInv, Counts, wvars, spares, ReaderPc
  <2>7. CASE LoopEnds(r)
    BY <1>1, <2>7 DEF LoopEnds, TypeOK, PairInv, Counts, wvars, spares, ReaderPc
  <2>8. CASE ReleaseAdd(r)
    <3>1. permits' \in Nat
      BY <2>8 DEF ReleaseAdd, TypeOK
    <3>2. rp' \in [Reader -> ReaderPc]
      BY <2>8 DEF ReleaseAdd, TypeOK, ReaderPc
    <3> QED BY <2>8, <3>1, <3>2 DEF ReleaseAdd, TypeOK, wvars, spares
  <2>9. CASE PutBackStore(r)
    <3>1. rp' \in [Reader -> ReaderPc]
      BY <2>9 DEF PutBackStore, TypeOK, ReaderPc
    <3>2. spareTail' \in [Reader -> Nat]
      BY <2>9 DEF PutBackStore, TypeOK
    <3> QED BY <2>9, <3>1, <3>2 DEF PutBackStore, TypeOK, wvars
  <2> QED BY <2>1, <2>2, <2>3, <2>4, <2>5, <2>6, <2>7, <2>8, <2>9 DEF Moves
<1>3. \A q \in Reader \ {r} : Same(q)
  <2>1. CASE AcquireLoad(r) \/ AcquireCas(r) \/ AcquireWait(r)
    BY <2>1 DEF TypeOK, AcquireLoad, AcquireCas, AcquireWait, Saw, wvars, spares, Same
  <2>2. CASE OpenFails(r) \/ ReadAt(r) \/ PutBackLoad(r)
    BY <2>2 DEF TypeOK, OpenFails, ReadAt, PutBackLoad, wvars, spares, Same
  <2>3. CASE PutBackStore(r) \/ LoopEnds(r) \/ ReleaseAdd(r)
    BY <2>3 DEF TypeOK, PutBackStore, LoopEnds, ReleaseAdd, wvars, spares, Same
  <2> QED BY <2>1, <2>2, <2>3 DEF Moves
<1>4. PairInv(r)'
  <2>1. CASE AcquireLoad(r) \/ AcquireCas(r) \/ AcquireWait(r) \/ OpenFails(r) \/ LoopEnds(r)
             \/ ReleaseAdd(r)
    <3>1. /\ spare'[r] = spare[r] /\ spareTail'[r] = spareTail[r] /\ ready'[r] = ready[r]
          /\ blk'[r] = blk[r] /\ ridx'[r] = ridx[r] /\ rpos'[r] = rpos[r]
          /\ wp'[r] = wp[r] /\ widx'[r] = widx[r] /\ wpos'[r] = wpos[r] /\ seen'[r] = seen[r]
      BY <2>1 DEF AcquireLoad, AcquireCas, AcquireWait, OpenFails, LoopEnds, ReleaseAdd, wvars, spares
    <3>2. \/ rp[r] \in {"acquire", "cas", "wait"} /\ rp'[r] \in {"cas", "wait", "asleep", "acquire", "loop"}
          \/ rp[r] = "loop" /\ rp'[r] = "release"
          \/ rp[r] = "release" /\ rp'[r] = "notify"
      BY <2>1 DEF TypeOK, AcquireLoad, AcquireCas, AcquireWait, OpenFails, LoopEnds, ReleaseAdd, Saw
    <3>3. Counts(r)'
      BY <2>1 DEF TypeOK, PairInv, Counts, AcquireLoad, AcquireCas, AcquireWait, OpenFails, LoopEnds,
         ReleaseAdd, Saw
    <3> QED BY <3>1, <3>2, <3>3, Moved
  <2>2. CASE ReadAt(r) \/ PutBackLoad(r)
    <3>1. /\ spare'[r] = spare[r] /\ spareTail'[r] = spareTail[r] /\ ready'[r] = ready[r]
          /\ rem'[r] = rem[r] /\ blk'[r] = blk[r] /\ ridx'[r] = ridx[r]
          /\ wp'[r] = wp[r] /\ widx'[r] = widx[r] /\ wpos'[r] = wpos[r] /\ seen'[r] = seen[r]
          /\ \/ rp[r] = "read" /\ rp'[r] = "push"
             \/ rp[r] = "read" /\ rp'[r] = "putback" /\ r \in Shrinking
             \/ rp[r] = "putback" /\ rp'[r] = "putbackWrite" /\ rpos'[r] = spareTail[r]
      BY <2>2 DEF TypeOK, ReadAt, PutBackLoad, wvars, spares
    <3>2. Apart(r)' /\ Kept(r)'
      BY <3>1, SameBuffers
    <3>3. Counts(r)' /\ Hands(r)' /\ InOrder(r)'
      BY <3>1 DEF PairInv, Counts, Hands, InOrder, Away
    <3>4. Tails(r)'
      BY <3>1 DEF PairInv, Tails, Pushing
    <3> QED BY <3>2, <3>3, <3>4 DEF PairInv
  <2>3. CASE PutBackStore(r)
    <3>1. /\ spare'[r] = spare[r] /\ ready'[r] = ready[r]
          /\ blk'[r] = blk[r] /\ ridx'[r] = ridx[r]
          /\ wp'[r] = wp[r] /\ widx'[r] = widx[r] /\ wpos'[r] = wpos[r] /\ seen'[r] = seen[r]
          /\ rp[r] = "putbackStore" /\ rp'[r] = "release" /\ spareTail'[r] = rpos[r] + 1
      BY <2>3 DEF TypeOK, PutBackStore, wvars
    <3>2. Apart(r)' /\ Kept(r)'
      BY <3>1, SameBuffers
    <3>3. Counts(r)' /\ Hands(r)' /\ InOrder(r)'
      BY <3>1 DEF PairInv, Counts, Hands, InOrder, Away
    <3>4. Tails(r)'
      BY <1>1, <3>1 DEF TypeOK, PairInv, Tails, Pushing
    <3> QED BY <3>2, <3>3, <3>4 DEF PairInv
  <2> QED BY <2>1, <2>2, <2>3 DEF Moves
<1> QED BY <1>2, <1>3, <1>4 DEF Keeps

\* Steps of the worker that move no buffer.
LEMMA WorkerMovesStep ==
  ASSUME StorageInv, NEW r \in Reader, SendBlock(r) \/ RecycleLoad(r) \/ RecycleStore(r)
  PROVE  Keeps(r)
<1> USE DEF StorageInv
<1>1. Len(spare[r]) \in Nat
  BY DEF TypeOK
<1>2. TypeOK'
  <2>1. CASE SendBlock(r)
    <3>1. failed' \in [Reader -> BOOLEAN]
      BY <2>1 DEF SendBlock, TypeOK
    <3>2. wp' \in [Reader -> WorkerPc]
      BY <2>1 DEF SendBlock, TypeOK, WorkerPc
    <3> QED BY <2>1, <3>1, <3>2 DEF SendBlock, TypeOK, rvars, spares
  <2>2. CASE RecycleLoad(r)
    BY <2>2 DEF TypeOK, RecycleLoad, rvars, spares, WorkerPc
  <2>3. CASE RecycleStore(r)
    <3>1. spareTail' \in [Reader -> Nat]
      BY <2>3 DEF TypeOK, RecycleStore
    <3>2. wp' \in [Reader -> WorkerPc]
      BY <2>3 DEF TypeOK, RecycleStore, WorkerPc
    <3> QED BY <2>3, <3>1, <3>2 DEF TypeOK, RecycleStore, rvars
  <2> QED BY <2>1, <2>2, <2>3
<1>3. \A q \in Reader \ {r} : Same(q)
  BY DEF TypeOK, SendBlock, RecycleLoad, RecycleStore, rvars, spares, Same
<1>4. Apart(r)' /\ Kept(r)'
  BY SameBuffers DEF SendBlock, RecycleLoad, RecycleStore, rvars, spares
<1>5. /\ spare'[r] = spare[r] /\ ready'[r] = ready[r] /\ semp'[r] = semp[r] /\ rem'[r] = rem[r]
      /\ blk'[r] = blk[r] /\ ridx'[r] = ridx[r] /\ rp'[r] = rp[r] /\ rpos'[r] = rpos[r]
      /\ widx'[r] = widx[r] /\ seen'[r] = seen[r]
      /\ \/ wp[r] = "send" /\ wp'[r] = "recycle" /\ spareTail'[r] = spareTail[r]
         \/ wp[r] = "recycle" /\ wp'[r] = "write" /\ wpos'[r] = spareTail[r] /\ spareTail'[r] = spareTail[r]
         \/ wp[r] = "store" /\ wp'[r] = "next" /\ spareTail'[r] = wpos[r] + 1
  BY DEF TypeOK, SendBlock, RecycleLoad, RecycleStore, rvars, spares
<1>6. Counts(r)' /\ Hands(r)' /\ InOrder(r)'
  BY <1>5 DEF PairInv, Counts, Hands, InOrder, Away
<1>7. Tails(r)'
  <2>1. Tails(r) /\ spareTail[r] \in Nat /\ wpos[r] \in Nat
    BY <1>1 DEF TypeOK, PairInv
  <2>2. CASE wp[r] = "send" /\ wp'[r] = "recycle" /\ spareTail'[r] = spareTail[r]
    BY <1>5, <2>1, <2>2 DEF Tails, Pushing
  <2>3. CASE /\ wp[r] = "recycle" /\ wp'[r] = "write"
             /\ wpos'[r] = spareTail[r] /\ spareTail'[r] = spareTail[r]
    BY <1>5, <2>1, <2>3 DEF Tails, Pushing
  <2>4. CASE wp[r] = "store" /\ wp'[r] = "next" /\ spareTail'[r] = wpos[r] + 1
    BY <1>5, <2>1, <2>4 DEF Tails, Pushing
  <2> QED BY <1>5, <2>2, <2>3, <2>4
<1> QED BY <1>2, <1>3, <1>4, <1>6, <1>7 DEF PairInv, Keeps

LEMMA SubmitStep ==
  ASSUME StorageInv, NEW r \in Reader, NEW n \in Blocks[r], Submit(r, n)
  PROVE  Keeps(r)
<1> USE DEF StorageInv
<1>1. Len(spare[r]) \in Nat /\ ready[r] = <<>>
  BY DEF TypeOK, PairInv, InOrder, Away, Submit
<1>2. TypeOK'
  <2>1. n \in Nat
    BY BoundsAssumption
  <2>4. units[r] - 1 \in Nat
    BY DEF TypeOK, Submit, spares
  <2>2. /\ units' \in [Reader -> Nat] /\ seen' \in [Reader -> Nat]
        /\ rem' \in [Reader -> Nat] /\ blk' \in [Reader -> Nat]
    BY <2>1, <2>4 DEF TypeOK, Submit, spares
  <2>3. rp' \in [Reader -> ReaderPc] /\ wp' \in [Reader -> WorkerPc]
    BY DEF TypeOK, Submit, WorkerPc, ReaderPc
  <2> QED BY <2>2, <2>3 DEF TypeOK, Submit, spares
<1>3. \A q \in Reader \ {r} : Same(q)
  BY DEF TypeOK, Submit, Same, spares
<1>4. Apart(r)' /\ Kept(r)'
  BY SameBuffers DEF Submit, spares
<1>5. Counts(r)' /\ Hands(r)' /\ Tails(r)' /\ InOrder(r)'
  <2>1. /\ rp'[r] = "acquire" /\ wp'[r] = "next" /\ seen'[r] = 0 /\ blk'[r] = 0
        /\ ready'[r] = <<>> /\ ridx'[r] = ridx[r] /\ widx'[r] = widx[r]
        /\ wp[r] = "idle" /\ rp[r] = "idle" /\ DOMAIN ready'[r] = {} /\ Len(ready'[r]) = 0
        /\ spare'[r] = spare[r] /\ spareTail'[r] = spareTail[r]
    BY <1>1 DEF TypeOK, Submit, spares
  <2>2. Counts(r)' /\ Hands(r)' /\ InOrder(r)'
    BY <2>1 DEF PairInv, Counts, Hands, InOrder, Away
  <2>3. Tails(r)'
    BY <2>1 DEF PairInv, Tails, Pushing
  <2> QED BY <2>2, <2>3
<1> QED BY <1>2, <1>3, <1>4, <1>5 DEF PairInv, Keeps

\* The reader may wake another one: that one's pc changes, and nothing else.
LEMMA NotifyStep ==
  ASSUME StorageInv, NEW r \in Reader, notify_one(r)
  PROVE  TypeOK' /\ \A q \in Reader : PairInv(q)'
<1> USE DEF StorageInv
<1>1. TypeOK'
  BY DEF TypeOK, notify_one, wvars, spares, ReaderPc, Asleep
<1>2. ASSUME NEW q \in Reader PROVE PairInv(q)'
  <2>1. \/ rp'[q] = rp[q]
        \/ rp[q] = "notify" /\ rp'[q] = "eof"
        \/ rp[q] = "asleep" /\ rp'[q] = "acquire"
    BY DEF TypeOK, notify_one, Asleep
  <2>2. /\ spare'[q] = spare[q] /\ spareTail'[q] = spareTail[q] /\ ready'[q] = ready[q]
        /\ blk'[q] = blk[q] /\ ridx'[q] = ridx[q] /\ rpos'[q] = rpos[q] /\ semp'[q] = semp[q]
        /\ rem'[q] = rem[q] /\ wp'[q] = wp[q] /\ widx'[q] = widx[q] /\ wpos'[q] = wpos[q] /\ seen'[q] = seen[q]
    BY DEF notify_one, wvars, spares
  <2>3. CASE rp'[q] = rp[q]
    BY <2>2, <2>3, SamePair DEF Same
  <2>4. CASE rp'[q] # rp[q]
    <3>1. Counts(q)'
      BY <2>1, <2>4 DEF Counts
    <3> QED BY <2>1, <2>2, <2>4, <3>1, Moved
  <2> QED BY <2>3, <2>4
<1> QED BY <1>1, <1>2

\* A buffer goes from the front of spare to the reader.
LEMMA PopSpareStep ==
  ASSUME StorageInv, NEW r \in Reader, PopSpare(r)
  PROVE  Keeps(r)
<1> USE DEF StorageInv
<1>1. /\ spare[r] \in Seq(Buffer) /\ spare[r] # <<>> /\ rp[r] = "loop" /\ ridx[r] = None
      /\ spare'[r] = Tail(spare[r]) /\ ridx'[r] = Head(spare[r]) /\ rp'[r] = "read"
      /\ spareTail[r] \in Nat /\ spareTail[r] > 0 /\ spareTail'[r] = spareTail[r] - 1
      /\ wpos'[r] = IF wp[r] \in {"write", "store"} THEN wpos[r] - 1 ELSE wpos[r]
      /\ ready'[r] = ready[r] /\ widx'[r] = widx[r] /\ wp'[r] = wp[r]
      /\ rem'[r] = rem[r] /\ rem[r] > 0
  <2>1. spare[r] # <<>>
    BY DEF TypeOK, PopSpare, PairInv, Tails
  <2> QED BY <2>1 DEF TypeOK, PopSpare, PairInv, Hands
<1>2. /\ spare'[r] \in Seq(Buffer) /\ Len(spare[r]) \in Nat /\ Len(spare[r]) > 0
      /\ ridx'[r] = spare[r][1] /\ spare[r][1] \in Buffer
      /\ Len(spare'[r]) = Len(spare[r]) - 1
      /\ \A k \in 1 .. Len(spare[r]) - 1 : spare'[r][k] = spare[r][k + 1]
      /\ DOMAIN spare[r] = 1 .. Len(spare[r]) /\ DOMAIN spare'[r] = 1 .. Len(spare[r]) - 1
  BY <1>1, TailFacts
<1>3. wp[r] \in {"write", "store"} => wpos[r] = spareTail[r]
  BY <1>1 DEF PairInv, Tails, Pushing
<1>4. TypeOK'
  <2>1. wpos' \in [Reader -> Nat]
    <3>1. wpos'[r] \in Nat
      BY <1>1, <1>3 DEF TypeOK
    <3> QED BY <3>1 DEF TypeOK, PopSpare
  <2>2. spare' \in [Reader -> Seq(Buffer)] /\ ridx' \in [Reader -> Buffer \cup {None}]
    BY <1>1, <1>2 DEF TypeOK, PopSpare
  <2>3. rp' \in [Reader -> ReaderPc]
    BY DEF TypeOK, PopSpare, ReaderPc
  <2>4. spareTail' \in [Reader -> Nat]
    <3>1. spareTail'[r] \in Nat
      BY <1>1
    <3> QED BY <3>1 DEF TypeOK, PopSpare
  <2> QED BY <2>1, <2>2, <2>3, <2>4 DEF TypeOK, PopSpare
<1>5. \A q \in Reader \ {r} : Same(q)
  BY DEF TypeOK, PopSpare, Same
<1>6. Apart(r)'
  BY <1>1, <1>2 DEF PairInv, Apart, None
<1>7. Kept(r)'
  <2> SUFFICES ASSUME r \notin Shrinking, NEW i \in Buffer PROVE Somewhere(r, i)'
    BY DEF Kept
  <2>1. CASE \E j \in DOMAIN spare[r] : spare[r][j] = i
    <3> PICK j \in DOMAIN spare[r] : spare[r][j] = i
      BY <2>1
    <3>1. CASE j = 1
      BY <1>1, <1>2, <3>1 DEF Somewhere
    <3>2. CASE j # 1
      <4>1. j - 1 \in DOMAIN spare'[r] /\ spare'[r][j - 1] = i
        BY <1>2, <3>2
      <4> QED BY <4>1 DEF Somewhere
    <3> QED BY <3>1, <3>2
  <2>2. CASE ~ \E j \in DOMAIN spare[r] : spare[r][j] = i
    BY <1>1, <2>2 DEF PairInv, Kept, Somewhere, Buffer, None
  <2> QED BY <2>1, <2>2
<1>8. Hands(r)'
  BY <1>1, <1>2 DEF PairInv, Hands, Buffer, None
<1>9. Counts(r)' /\ Tails(r)'
  BY <1>1, <1>2, <1>3 DEF TypeOK, PairInv, Counts, Tails, Pushing
<1>10. InOrder(r)'
  BY <1>1 DEF PairInv, PopSpare, InOrder, Away
<1> QED BY <1>4, <1>5, <1>6, <1>7, <1>8, <1>9, <1>10 DEF PairInv, Keeps

\* A buffer goes from the hand that has it to a place of spare; what stood there
\* is gone, and in none of the other places.
LEMMA Written ==
  ASSUME TypeOK, NEW r \in Reader, NEW pos \in Nat, pos <= Len(spare[r]), NEW i \in Buffer,
         spare' = [spare EXCEPT ![r] = WriteAt(@, pos, i)]
  PROVE  /\ spare' \in [Reader -> Seq(Buffer)]
         /\ Len(spare[r]) \in Nat
         /\ pos < Len(spare[r]) => Len(spare'[r]) = Len(spare[r])
         /\ pos = Len(spare[r]) => Len(spare'[r]) = Len(spare[r]) + 1
         /\ pos + 1 \in DOMAIN spare'[r] /\ spare'[r][pos + 1] = i
         /\ \A k \in DOMAIN spare'[r] :
              k # pos + 1 => k \in DOMAIN spare[r] /\ spare'[r][k] = spare[r][k]
         /\ \A k \in DOMAIN spare[r] :
              k # pos + 1 => k \in DOMAIN spare'[r] /\ spare'[r][k] = spare[r][k]
<1>1. PICK s \in Seq(Buffer) : s = spare[r]
  BY DEF TypeOK
<1>2. PICK t : t = WriteAt(s, pos, i)
  OBVIOUS
<1>4. /\ t \in Seq(Buffer) /\ Len(s) \in Nat
      /\ pos < Len(s) => Len(t) = Len(s)
      /\ pos = Len(s) => Len(t) = Len(s) + 1
      /\ pos + 1 \in DOMAIN t /\ t[pos + 1] = i
      /\ \A k \in DOMAIN t : k # pos + 1 => k \in DOMAIN s /\ t[k] = s[k]
      /\ \A k \in DOMAIN s : k # pos + 1 => k \in DOMAIN t /\ t[k] = s[k]
  <2>1. Len(s) \in Nat
    BY LenProperties
  <2>2. \A k : k \in DOMAIN s <=> k \in 1 .. Len(s)
    BY LenProperties
  <2>3. CASE pos < Len(s)
    <3>1. t = [s EXCEPT ![pos + 1] = i]
      BY <1>2, <2>3 DEF WriteAt
    <3>2. pos + 1 \in 1 .. Len(s)
      BY <2>1, <2>3
    <3>3. /\ [s EXCEPT ![pos + 1] = i] \in Seq(Buffer)
          /\ Len([s EXCEPT ![pos + 1] = i]) = Len(s)
          /\ \A k \in 1 .. Len(s) : [s EXCEPT ![pos + 1] = i][k] = IF k = pos + 1 THEN i ELSE s[k]
      BY <3>2, ExceptSeq
    <3>4. \A k : k \in DOMAIN t <=> k \in 1 .. Len(s)
      BY <2>2, <3>1
    <3>5. t \in Seq(Buffer) /\ Len(t) = Len(s)
      BY <3>1, <3>3
    <3>6. pos + 1 \in DOMAIN t /\ t[pos + 1] = i
      BY <3>1, <3>2, <3>3, <3>4
    <3>7. \A k \in 1 .. Len(s) : k # pos + 1 => t[k] = s[k]
      BY <3>1, <3>3
    <3> QED BY <2>1, <2>2, <2>3, <3>4, <3>5, <3>6, <3>7
  <2>4. CASE pos = Len(s)
    <3>1. t = Append(s, i)
      BY <1>2, <2>1, <2>4 DEF WriteAt
    <3>2. /\ t \in Seq(Buffer)
          /\ Len(t) = Len(s) + 1 /\ t[Len(s) + 1] = i
          /\ \A k \in 1 .. Len(s) : t[k] = s[k]
      BY <3>1, AppendFacts
    <3>3. \A k : k \in DOMAIN t <=> k \in 1 .. Len(s) + 1
      BY <3>1, AppendFacts
    <3> QED BY <2>1, <2>2, <2>4, <3>2, <3>3
  <2>5. pos < Len(s) \/ pos = Len(s)
    BY <1>1, <2>1
  <2> QED BY <2>3, <2>4, <2>5
<1>5. spare'[r] = t
  BY <1>1, <1>2 DEF TypeOK
<1>3. spare' \in [Reader -> Seq(Buffer)]
  BY <1>1, <1>2, <1>4 DEF TypeOK
<1> QED BY <1>1, <1>3, <1>4, <1>5, Zenon

LEMMA PutBackWriteStep ==
  ASSUME StorageInv, NEW r \in Reader, PutBackWrite(r)
  PROVE  Keeps(r)
<1>1. TypeOK /\ PairInv(r)
  BY DEF StorageInv
<1>2. /\ rp[r] = "putbackWrite" /\ rp'[r] = "putbackStore" /\ ridx'[r] = None
      /\ ready'[r] = ready[r] /\ widx'[r] = widx[r] /\ wp'[r] = wp[r] /\ wpos'[r] = wpos[r]
      /\ spareTail'[r] = spareTail[r] /\ rpos'[r] = rpos[r] /\ blk'[r] = blk[r] /\ seen'[r] = seen[r]
      /\ semp'[r] = semp[r] /\ rem'[r] = rem[r]
      /\ spare' = [spare EXCEPT ![r] = WriteAt(@, rpos[r], ridx[r])]
  BY <1>1 DEF TypeOK, PutBackWrite, wvars
<1>3. /\ r \in Shrinking /\ rpos[r] <= Len(spare[r]) /\ ridx[r] \in Buffer
      /\ rpos[r] \in Nat /\ wpos[r] \in Nat /\ spareTail[r] \in Nat
  BY <1>1, <1>2 DEF TypeOK, PairInv, Hands, Tails
<1>4. /\ spare' \in [Reader -> Seq(Buffer)]
      /\ Len(spare[r]) \in Nat
      /\ rpos[r] < Len(spare[r]) => Len(spare'[r]) = Len(spare[r])
      /\ rpos[r] = Len(spare[r]) => Len(spare'[r]) = Len(spare[r]) + 1
      /\ rpos[r] + 1 \in DOMAIN spare'[r] /\ spare'[r][rpos[r] + 1] = ridx[r]
      /\ \A k \in DOMAIN spare'[r] :
           k # rpos[r] + 1 => k \in DOMAIN spare[r] /\ spare'[r][k] = spare[r][k]
      /\ \A k \in DOMAIN spare[r] :
           k # rpos[r] + 1 => k \in DOMAIN spare'[r] /\ spare'[r][k] = spare[r][k]
  BY <1>1, <1>2, <1>3, Written, Zenon
<1>5. TypeOK'
  <2>1. rp' \in [Reader -> ReaderPc] /\ ridx' \in [Reader -> Buffer \cup {None}]
    BY <1>1 DEF TypeOK, PutBackWrite, ReaderPc
  <2> QED BY <1>1, <1>4, <2>1 DEF TypeOK, PutBackWrite, wvars
<1>6. \A q \in Reader \ {r} : Same(q)
  BY <1>1 DEF TypeOK, PutBackWrite, Same, wvars
<1>7. Apart(r)'
  <2>1. Apart(r) /\ ridx[r] # None
    BY <1>1, <1>3 DEF PairInv, Buffer, None
  <2>2. \A j \in DOMAIN spare'[r] :
          \/ j = rpos[r] + 1 /\ spare'[r][j] = ridx[r]
          \/ j # rpos[r] + 1 /\ j \in DOMAIN spare[r] /\ spare'[r][j] = spare[r][j]
    BY <1>4
  <2>3. \A j, k \in DOMAIN spare'[r] : spare'[r][j] = spare'[r][k] => j = k
    BY <2>1, <2>2 DEF Apart
  <2>4. \A j \in DOMAIN spare'[r], k \in DOMAIN ready'[r] : spare'[r][j] # ready'[r][k].idx
    BY <1>2, <2>1, <2>2 DEF Apart
  <2>5. \A j \in DOMAIN spare'[r] : spare'[r][j] # None /\ spare'[r][j] # widx[r]
    <3>1. \A j \in DOMAIN spare[r] : spare[r][j] # None
      <4>1. spare[r] \in Seq(Buffer)
        BY <1>1 DEF TypeOK
      <4>2. \A j \in DOMAIN spare[r] : spare[r][j] \in Buffer
        BY <4>1, LenProperties
      <4> QED BY <4>2 DEF Buffer, None
    <3> QED BY <3>1, <2>1, <2>2 DEF Apart
  <2> QED BY <1>2, <2>1, <2>3, <2>4, <2>5 DEF Apart
<1>8. Kept(r)'
  BY <1>3 DEF Kept
<1>9. Counts(r)' /\ Hands(r)' /\ InOrder(r)'
  BY <1>1, <1>2 DEF PairInv, Counts, Hands, InOrder, Away
<1>10. Tails(r)'
  BY <1>1, <1>2, <1>3, <1>4 DEF PairInv, Tails, Pushing
<1> QED BY <1>5, <1>6, <1>7, <1>8, <1>9, <1>10 DEF PairInv, Keeps

LEMMA RecycleWriteStep ==
  ASSUME StorageInv, NEW r \in Reader, RecycleWrite(r)
  PROVE  Keeps(r)
<1>1. TypeOK /\ PairInv(r)
  BY DEF StorageInv
<1>2. /\ wp[r] = "write" /\ wp'[r] = "store" /\ widx'[r] = None
      /\ ready'[r] = ready[r] /\ ridx'[r] = ridx[r] /\ rp'[r] = rp[r] /\ rpos'[r] = rpos[r]
      /\ spareTail'[r] = spareTail[r] /\ wpos'[r] = wpos[r] /\ blk'[r] = blk[r] /\ seen'[r] = seen[r]
      /\ semp'[r] = semp[r] /\ rem'[r] = rem[r]
      /\ spare' = [spare EXCEPT ![r] = WriteAt(@, wpos[r], widx[r])]
  BY <1>1 DEF TypeOK, RecycleWrite, rvars
<1>3. /\ wpos[r] <= Len(spare[r]) /\ widx[r] \in Buffer
      /\ rpos[r] \in Nat /\ wpos[r] \in Nat /\ spareTail[r] \in Nat
  BY <1>1, <1>2 DEF TypeOK, PairInv, Hands, Tails
<1>4. /\ spare' \in [Reader -> Seq(Buffer)]
      /\ Len(spare[r]) \in Nat
      /\ wpos[r] < Len(spare[r]) => Len(spare'[r]) = Len(spare[r])
      /\ wpos[r] = Len(spare[r]) => Len(spare'[r]) = Len(spare[r]) + 1
      /\ wpos[r] + 1 \in DOMAIN spare'[r] /\ spare'[r][wpos[r] + 1] = widx[r]
      /\ \A k \in DOMAIN spare'[r] :
           k # wpos[r] + 1 => k \in DOMAIN spare[r] /\ spare'[r][k] = spare[r][k]
      /\ \A k \in DOMAIN spare[r] :
           k # wpos[r] + 1 => k \in DOMAIN spare'[r] /\ spare'[r][k] = spare[r][k]
  BY <1>1, <1>2, <1>3, Written, Zenon
<1>5. TypeOK'
  <2>1. wp' \in [Reader -> WorkerPc] /\ widx' \in [Reader -> Buffer \cup {None}]
    BY <1>1 DEF TypeOK, RecycleWrite, WorkerPc
  <2> QED BY <1>1, <1>4, <2>1 DEF TypeOK, RecycleWrite, rvars
<1>6. \A q \in Reader \ {r} : Same(q)
  BY <1>1 DEF TypeOK, RecycleWrite, Same, rvars
<1>7. Apart(r)'
  <2>1. Apart(r) /\ widx[r] # None
    BY <1>1, <1>3 DEF PairInv, Buffer, None
  <2>2. \A j \in DOMAIN spare'[r] :
          \/ j = wpos[r] + 1 /\ spare'[r][j] = widx[r]
          \/ j # wpos[r] + 1 /\ j \in DOMAIN spare[r] /\ spare'[r][j] = spare[r][j]
    BY <1>4
  <2>3. \A j, k \in DOMAIN spare'[r] : spare'[r][j] = spare'[r][k] => j = k
    BY <2>1, <2>2 DEF Apart
  <2>4. \A j \in DOMAIN spare'[r], k \in DOMAIN ready'[r] : spare'[r][j] # ready'[r][k].idx
    BY <1>2, <2>1, <2>2 DEF Apart
  <2>5. \A j \in DOMAIN spare'[r] : spare'[r][j] # None /\ spare'[r][j] # ridx[r]
    <3>1. \A j \in DOMAIN spare[r] : spare[r][j] # None
      <4>1. spare[r] \in Seq(Buffer)
        BY <1>1 DEF TypeOK
      <4>2. \A j \in DOMAIN spare[r] : spare[r][j] \in Buffer
        BY <4>1, LenProperties
      <4> QED BY <4>2 DEF Buffer, None
    <3> QED BY <3>1, <2>1, <2>2 DEF Apart
  <2> QED BY <1>2, <2>1, <2>3, <2>4, <2>5 DEF Apart
<1>8. Kept(r)'
  <2> SUFFICES ASSUME r \notin Shrinking, NEW i \in Buffer PROVE Somewhere(r, i)'
    BY DEF Kept
  <2>1. Somewhere(r, i) /\ wpos[r] + 1 \notin DOMAIN spare[r]
    BY <1>1, <1>2, <1>3 DEF TypeOK, PairInv, Kept, Tails, Pushing
  <2>2. CASE widx[r] = i
    BY <1>4, <2>2 DEF Somewhere
  <2>3. CASE widx[r] # i
    BY <1>2, <1>4, <2>1, <2>3 DEF Somewhere
  <2> QED BY <2>2, <2>3
<1>9. Counts(r)' /\ Hands(r)' /\ InOrder(r)'
  BY <1>1, <1>2 DEF PairInv, Counts, Hands, InOrder, Away
<1>10. Tails(r)'
  BY <1>1, <1>2, <1>3, <1>4 DEF PairInv, Tails, Pushing
<1> QED BY <1>5, <1>6, <1>7, <1>8, <1>9, <1>10 DEF PairInv, Keeps

\* What follows the last element of the ready ring.
LEMMA Readied ==
  ASSUME TypeOK, NEW r \in Reader, NEW x \in Filled,
         ready' = [ready EXCEPT ![r] = Append(@, x)]
  PROVE  /\ ready' \in [Reader -> Seq(Filled)]
         /\ Len(ready[r]) \in Nat /\ Len(ready'[r]) = Len(ready[r]) + 1
         /\ ready'[r][Len(ready[r]) + 1] = x
         /\ Len(ready[r]) + 1 \in DOMAIN ready'[r]
         /\ \A k \in DOMAIN ready[r] :
              k \in DOMAIN ready'[r] /\ ready'[r][k] = ready[r][k]
         /\ \A k \in DOMAIN ready'[r] :
              k = Len(ready[r]) + 1 \/ (k \in DOMAIN ready[r] /\ k # Len(ready[r]) + 1)
<1>1. PICK s \in Seq(Filled) : s = ready[r]
  BY DEF TypeOK
<1>2. ready'[r] = Append(s, x)
  BY <1>1 DEF TypeOK
<1>3. /\ Append(s, x) \in Seq(Filled) /\ Len(s) \in Nat
      /\ Len(Append(s, x)) = Len(s) + 1 /\ Append(s, x)[Len(s) + 1] = x
      /\ \A k \in 1 .. Len(s) : Append(s, x)[k] = s[k]
      /\ DOMAIN s = 1 .. Len(s) /\ DOMAIN Append(s, x) = 1 .. Len(s) + 1
  BY AppendFacts, Zenon
<1>4. ready' \in [Reader -> Seq(Filled)]
  BY <1>1, <1>3 DEF TypeOK
<1>5. /\ Len(s) + 1 \in DOMAIN Append(s, x)
      /\ \A k \in DOMAIN s : k \in DOMAIN Append(s, x) /\ Append(s, x)[k] = s[k]
      /\ \A k \in DOMAIN Append(s, x) : k = Len(s) + 1 \/ (k \in DOMAIN s /\ k # Len(s) + 1)
  BY <1>3
<1>6. /\ Len(s) \in Nat /\ Len(Append(s, x)) = Len(s) + 1 /\ Append(s, x)[Len(s) + 1] = x
  BY <1>3
<1> QED BY <1>1, <1>2, <1>4, <1>5, <1>6, Zenon

\* What stays when the worker takes the first element of the ready ring.
LEMMA Taken ==
  ASSUME TypeOK, NEW r \in Reader, ready[r] # <<>>,
         ready' = [ready EXCEPT ![r] = Tail(@)]
  PROVE  /\ ready' \in [Reader -> Seq(Filled)]
         /\ Len(ready[r]) \in Nat /\ Len(ready[r]) > 0 /\ Len(ready'[r]) = Len(ready[r]) - 1
         /\ 1 \in DOMAIN ready[r] /\ Head(ready[r]) = ready[r][1] /\ ready[r][1] \in Filled
         /\ \A k \in DOMAIN ready'[r] : /\ k \in Nat /\ k + 1 \in DOMAIN ready[r] /\ k + 1 # 1
                                       /\ ready'[r][k] = ready[r][k + 1]
         /\ \A k \in DOMAIN ready[r] : k # 1 => k \in Nat /\ k - 1 \in DOMAIN ready'[r]
<1>1. PICK s \in Seq(Filled) : s = ready[r]
  BY DEF TypeOK
<1>2. ready'[r] = Tail(s)
  BY <1>1 DEF TypeOK
<1>3. /\ Tail(s) \in Seq(Filled) /\ Len(s) \in Nat /\ Len(s) > 0
      /\ Head(s) = s[1] /\ s[1] \in Filled
      /\ Len(Tail(s)) = Len(s) - 1
      /\ \A k \in 1 .. Len(s) - 1 : Tail(s)[k] = s[k + 1]
      /\ DOMAIN s = 1 .. Len(s) /\ DOMAIN Tail(s) = 1 .. Len(s) - 1
  <2>1. s # <<>>
    BY <1>1
  <2> QED BY <2>1, TailFacts, Zenon
<1>4. ready' \in [Reader -> Seq(Filled)]
  BY <1>1, <1>3 DEF TypeOK
<1>5. /\ 1 \in DOMAIN s
      /\ \A k \in DOMAIN Tail(s) : k \in Nat /\ k + 1 \in DOMAIN s /\ k + 1 # 1 /\ Tail(s)[k] = s[k + 1]
      /\ \A k \in DOMAIN s : k # 1 => k \in Nat /\ k - 1 \in DOMAIN Tail(s)
  BY <1>3
<1>6. /\ Len(s) \in Nat /\ Len(s) > 0 /\ Len(Tail(s)) = Len(s) - 1
      /\ Head(s) = s[1] /\ s[1] \in Filled
  BY <1>3
<1> QED BY <1>1, <1>2, <1>4, <1>5, <1>6, Zenon

LEMMA PushReadyStep ==
  ASSUME StorageInv, NEW r \in Reader, PushReady(r)
  PROVE  Keeps(r)
<1>1. TypeOK /\ PairInv(r)
  BY DEF StorageInv
<1>2. PICK x : x = [idx |-> ridx[r], blk |-> blk[r], eof |-> FALSE]
  OBVIOUS
<1>3. /\ rp[r] = "push" /\ rp'[r] = "loop" /\ ridx'[r] = None
      /\ spare'[r] = spare[r] /\ spareTail'[r] = spareTail[r] /\ widx'[r] = widx[r]
      /\ wp'[r] = wp[r] /\ wpos'[r] = wpos[r] /\ rpos'[r] = rpos[r] /\ seen'[r] = seen[r]
      /\ blk'[r] = blk[r] + 1 /\ semp'[r] = semp[r]
      /\ ready' = [ready EXCEPT ![r] = Append(@, x)]
  BY <1>1, <1>2 DEF TypeOK, PushReady, wvars, spares
<1>4. /\ ridx[r] \in Buffer /\ ridx[r] # None /\ blk[r] \in Nat /\ seen[r] \in Nat
      /\ x \in Filled /\ x.idx = ridx[r] /\ x.blk = blk[r] /\ x.eof = FALSE
  BY <1>1, <1>2, <1>3 DEF TypeOK, PairInv, Hands, Filled
<1>5. /\ ready' \in [Reader -> Seq(Filled)]
      /\ Len(ready[r]) \in Nat /\ Len(ready'[r]) = Len(ready[r]) + 1
      /\ ready'[r][Len(ready[r]) + 1] = x
      /\ Len(ready[r]) + 1 \in DOMAIN ready'[r]
      /\ \A k \in DOMAIN ready[r] : k \in DOMAIN ready'[r] /\ ready'[r][k] = ready[r][k]
      /\ \A k \in DOMAIN ready'[r] :
           k = Len(ready[r]) + 1 \/ (k \in DOMAIN ready[r] /\ k # Len(ready[r]) + 1)
  BY <1>1, <1>3, <1>4, Readied, Zenon
<1>6. TypeOK'
  <2>1. rp' \in [Reader -> ReaderPc] /\ ridx' \in [Reader -> Buffer \cup {None}]
    BY <1>1 DEF TypeOK, PushReady, ReaderPc
  <2>2. blk' \in [Reader -> Nat]
    BY <1>1 DEF TypeOK, PushReady
  <2>3. rem' \in [Reader -> Nat]
    BY <1>1 DEF TypeOK, PushReady, PairInv, Counts
  <2> QED BY <1>1, <1>5, <2>1, <2>2, <2>3 DEF TypeOK, PushReady, wvars, spares
<1>7. \A q \in Reader \ {r} : Same(q)
  BY <1>1 DEF TypeOK, PushReady, Same, wvars, spares
<1>8. Apart(r)'
  <2>1. Apart(r)
    BY <1>1 DEF PairInv
  <2>2. \A k \in DOMAIN ready'[r] :
          \/ k = Len(ready[r]) + 1 /\ ready'[r][k].idx = ridx[r]
          \/ k # Len(ready[r]) + 1 /\ k \in DOMAIN ready[r] /\ ready'[r][k] = ready[r][k]
    BY <1>4, <1>5
  <2>3. \A j \in DOMAIN spare[r] : spare[r][j] # None
    <3>1. spare[r] \in Seq(Buffer)
      BY <1>1 DEF TypeOK
    <3>2. \A j \in DOMAIN spare[r] : spare[r][j] \in Buffer
      BY <3>1, LenProperties
    <3> QED BY <3>2 DEF Buffer, None
  <2>4. \A j, k \in DOMAIN ready'[r] :
          ready'[r][j].idx = ready'[r][k].idx /\ ready'[r][j].idx # None => j = k
    BY <1>4, <2>1, <2>2 DEF Apart
  <2>5. \A j \in DOMAIN spare[r], k \in DOMAIN ready'[r] : spare[r][j] # ready'[r][k].idx
    BY <2>1, <2>2 DEF Apart
  <2>6. \A k \in DOMAIN ready'[r] : ready'[r][k].idx # None => ready'[r][k].idx # widx[r]
    BY <1>4, <2>1, <2>2 DEF Apart
  <2> QED BY <1>3, <2>1, <2>3, <2>4, <2>5, <2>6 DEF Apart
<1>9. Kept(r)'
  <2> SUFFICES ASSUME r \notin Shrinking, NEW i \in Buffer PROVE Somewhere(r, i)'
    BY DEF Kept
  <2>1. Somewhere(r, i)
    BY <1>1 DEF PairInv, Kept
  <2>2. CASE ridx[r] = i
    BY <1>4, <1>5, <2>2 DEF Somewhere
  <2>3. CASE ridx[r] # i
    BY <1>3, <1>5, <2>1, <2>3 DEF Somewhere
  <2> QED BY <2>2, <2>3
<1>10. Counts(r)' /\ Hands(r)'
  BY <1>1, <1>3, <1>4, <1>5 DEF PairInv, Counts, Hands
<1>11. InOrder(r)'
  <2>1. InOrder(r) /\ ~Away(r)
    BY <1>1, <1>3 DEF PairInv, InOrder
  <2>2. \A k \in DOMAIN ready'[r] : ~ready'[r][k].eof /\ ready'[r][k].blk = seen[r] + k - 1
    BY <1>3, <1>4, <1>5, <2>1 DEF InOrder
  <2>3. blk[r] + 1 = seen[r] + Len(ready'[r])
    BY <1>3, <1>4, <1>5, <2>1 DEF InOrder
  <2> QED BY <1>3, <2>1, <2>2, <2>3 DEF InOrder, Away
<1>12. Tails(r)'
  BY <1>1, <1>3 DEF PairInv, Tails, Pushing
<1> QED BY <1>6, <1>7, <1>8, <1>9, <1>10, <1>11, <1>12 DEF PairInv, Keeps

LEMMA PushEofStep ==
  ASSUME StorageInv, NEW r \in Reader, PushEof(r)
  PROVE  Keeps(r)
<1>1. TypeOK /\ PairInv(r)
  BY DEF StorageInv
<1>2. /\ rp[r] = "eof" /\ rp'[r] = "idle" /\ ridx'[r] = ridx[r]
      /\ spare'[r] = spare[r] /\ spareTail'[r] = spareTail[r] /\ widx'[r] = widx[r]
      /\ wp'[r] = wp[r] /\ wpos'[r] = wpos[r] /\ rpos'[r] = rpos[r] /\ seen'[r] = seen[r]
      /\ blk'[r] = blk[r] /\ semp'[r] = semp[r] /\ rem'[r] = rem[r]
      /\ ready' = [ready EXCEPT ![r] = Append(@, Eof)]
  BY <1>1 DEF TypeOK, PushEof, wvars, spares
<1>3. Eof \in Filled /\ Eof.idx = None /\ Eof.eof = TRUE
  BY DEF Eof, Filled
<1>4. /\ ready' \in [Reader -> Seq(Filled)]
      /\ Len(ready[r]) \in Nat /\ Len(ready'[r]) = Len(ready[r]) + 1
      /\ ready'[r][Len(ready[r]) + 1] = Eof
      /\ Len(ready[r]) + 1 \in DOMAIN ready'[r]
      /\ \A k \in DOMAIN ready[r] : k \in DOMAIN ready'[r] /\ ready'[r][k] = ready[r][k]
      /\ \A k \in DOMAIN ready'[r] :
           k = Len(ready[r]) + 1 \/ (k \in DOMAIN ready[r] /\ k # Len(ready[r]) + 1)
  BY <1>1, <1>2, <1>3, Readied, Zenon
<1>5. TypeOK'
  <2>1. rp' \in [Reader -> ReaderPc]
    BY <1>1 DEF TypeOK, PushEof, ReaderPc
  <2> QED BY <1>1, <1>4, <2>1 DEF TypeOK, PushEof, wvars, spares
<1>6. \A q \in Reader \ {r} : Same(q)
  BY <1>1 DEF TypeOK, PushEof, Same, wvars, spares
<1>7. \A k \in DOMAIN ready'[r] :
        \/ k = Len(ready[r]) + 1 /\ ready'[r][k].idx = None /\ ready'[r][k].eof
        \/ k # Len(ready[r]) + 1 /\ k \in DOMAIN ready[r] /\ ready'[r][k] = ready[r][k]
  BY <1>3, <1>4
<1>8. Apart(r)'
  <2>1. Apart(r)
    BY <1>1 DEF PairInv
  <2>3. \A j \in DOMAIN spare[r] : spare[r][j] # None
    <3>1. spare[r] \in Seq(Buffer)
      BY <1>1 DEF TypeOK
    <3>2. \A j \in DOMAIN spare[r] : spare[r][j] \in Buffer
      BY <3>1, LenProperties
    <3> QED BY <3>2 DEF Buffer, None
  <2> QED BY <1>2, <1>7, <2>1, <2>3 DEF Apart
<1>9. Kept(r)'
  BY <1>1, <1>2, <1>4 DEF PairInv, Kept, Somewhere
<1>10. Counts(r)' /\ Hands(r)'
  BY <1>1, <1>2, <1>7 DEF PairInv, Counts, Hands
<1>11. InOrder(r)'
  BY <1>1, <1>2, <1>3, <1>4, <1>7 DEF PairInv, InOrder, Away
<1>12. Tails(r)'
  BY <1>1, <1>2 DEF PairInv, Tails, Pushing
<1> QED BY <1>5, <1>6, <1>8, <1>9, <1>10, <1>11, <1>12 DEF PairInv, Keeps

LEMMA NextBlockStep ==
  ASSUME StorageInv, NEW r \in Reader, NextBlock(r)
  PROVE  Keeps(r)
<1>1. TypeOK /\ PairInv(r)
  BY DEF StorageInv
<1>2. /\ wp[r] = "next" /\ wp'[r] \in {"recycle", "send"} /\ widx'[r] = Head(ready[r]).idx
      /\ spare'[r] = spare[r] /\ spareTail'[r] = spareTail[r] /\ ridx'[r] = ridx[r]
      /\ rp'[r] = rp[r] /\ wpos'[r] = wpos[r] /\ rpos'[r] = rpos[r] /\ seen'[r] = seen[r] + 1
      /\ blk'[r] = blk[r] /\ semp'[r] = semp[r] /\ rem'[r] = rem[r]
      /\ ready[r] # <<>> /\ ~Head(ready[r]).eof
      /\ ready' = [ready EXCEPT ![r] = Tail(@)]
      /\ seen[r] \in Nat /\ widx[r] = None
  BY <1>1 DEF TypeOK, NextBlock, rvars, spares, PairInv, Hands
<1>3. /\ ready' \in [Reader -> Seq(Filled)]
      /\ Len(ready[r]) \in Nat /\ Len(ready[r]) > 0 /\ Len(ready'[r]) = Len(ready[r]) - 1
      /\ 1 \in DOMAIN ready[r] /\ Head(ready[r]) = ready[r][1] /\ ready[r][1] \in Filled
      /\ \A k \in DOMAIN ready'[r] : /\ k \in Nat /\ k + 1 \in DOMAIN ready[r] /\ k + 1 # 1
                                    /\ ready'[r][k] = ready[r][k + 1]
      /\ \A k \in DOMAIN ready[r] : k # 1 => k \in Nat /\ k - 1 \in DOMAIN ready'[r]
  BY <1>1, <1>2, Taken, Zenon
<1>4. widx'[r] = ready[r][1].idx /\ ready[r][1].idx # None /\ ready[r][1].idx \in Buffer \cup {None}
  BY <1>1, <1>2, <1>3 DEF PairInv, Hands, Filled
<1>5. TypeOK'
  <2>1. widx' \in [Reader -> Buffer \cup {None}]
    BY <1>1, <1>3, <1>4 DEF TypeOK, NextBlock
  <2>2. wp' \in [Reader -> WorkerPc]
    BY <1>1 DEF TypeOK, NextBlock, WorkerPc
  <2>3. seen' \in [Reader -> Nat]
    BY <1>1 DEF TypeOK, NextBlock
  <2> QED BY <1>1, <1>3, <2>1, <2>2, <2>3 DEF TypeOK, NextBlock, rvars, spares
<1>6. \A q \in Reader \ {r} : Same(q)
  BY <1>1 DEF TypeOK, NextBlock, Same, rvars, spares
<1>7. Apart(r)'
  <2>1. Apart(r)
    BY <1>1 DEF PairInv
  <2>2. \A j, k \in DOMAIN ready'[r] :
          ready'[r][j].idx = ready'[r][k].idx /\ ready'[r][j].idx # None => j = k
    <3> SUFFICES ASSUME NEW j \in DOMAIN ready'[r], NEW k \in DOMAIN ready'[r],
                        ready'[r][j].idx = ready'[r][k].idx, ready'[r][j].idx # None
                 PROVE  j = k
      OBVIOUS
    <3>1. /\ j \in Nat /\ k \in Nat /\ j + 1 \in DOMAIN ready[r] /\ k + 1 \in DOMAIN ready[r]
          /\ ready[r][j + 1].idx = ready[r][k + 1].idx /\ ready[r][j + 1].idx # None
      BY <1>3
    <3>2. j + 1 = k + 1
      BY <2>1, <3>1 DEF Apart
    <3> QED BY <3>1, <3>2
  <2>3. \A k \in DOMAIN ready'[r] :
          ready'[r][k].idx # None => ready'[r][k].idx # ridx[r] /\ ready'[r][k].idx # widx'[r]
    <3> SUFFICES ASSUME NEW k \in DOMAIN ready'[r], ready'[r][k].idx # None
                 PROVE  ready'[r][k].idx # ridx[r] /\ ready'[r][k].idx # widx'[r]
      OBVIOUS
    <3>1. PICK l \in DOMAIN ready[r] : l # 1 /\ ready'[r][k] = ready[r][l]
      BY <1>3
    <3> QED BY <1>3, <1>4, <2>1, <3>1, Zenon DEF Apart
  <2>4. \A j \in DOMAIN spare[r], k \in DOMAIN ready'[r] : spare[r][j] # ready'[r][k].idx
    <3>1. ASSUME NEW k \in DOMAIN ready'[r]
          PROVE  \E l \in DOMAIN ready[r] : ready'[r][k].idx = ready[r][l].idx
      BY <1>3
    <3>2. \A j \in DOMAIN spare[r], k \in DOMAIN ready[r] : spare[r][j] # ready[r][k].idx
      BY <2>1 DEF Apart
    <3> QED BY <3>1, <3>2, Zenon
  <2>5. /\ \A j \in DOMAIN spare[r] : spare[r][j] # ridx[r] /\ spare[r][j] # widx'[r]
        /\ ridx[r] # widx'[r]
    BY <1>3, <1>4, <2>1 DEF Apart
  <2> QED BY <1>2, <2>1, <2>2, <2>3, <2>4, <2>5 DEF Apart
<1>8. Kept(r)'
  <2> SUFFICES ASSUME r \notin Shrinking, NEW i \in Buffer PROVE Somewhere(r, i)'
    BY DEF Kept
  <2>1. Somewhere(r, i)
    BY <1>1 DEF PairInv, Kept
  <2>2. CASE \E k \in DOMAIN ready[r] : ready[r][k].idx = i
    <3> PICK k \in DOMAIN ready[r] : ready[r][k].idx = i
      BY <2>2
    <3>1. CASE k = 1
      BY <1>4, <3>1 DEF Somewhere
    <3>2. CASE k # 1
      <4>1. k - 1 \in DOMAIN ready'[r] /\ ready'[r][k - 1].idx = i
        <5>1. k \in Nat /\ k - 1 \in DOMAIN ready'[r]
          BY <1>3, <3>2, Zenon
        <5>2. (k - 1) + 1 = k
          BY <5>1
        <5>3. ready'[r][k - 1] = ready[r][(k - 1) + 1]
          BY <1>3, <5>1, Zenon
        <5> QED BY <5>1, <5>2, <5>3
      <4> QED BY <4>1 DEF Somewhere
    <3> QED BY <3>1, <3>2
  <2>3. CASE ~ \E k \in DOMAIN ready[r] : ready[r][k].idx = i
    BY <1>2, <2>1, <2>3 DEF Somewhere, Buffer, None
  <2> QED BY <2>2, <2>3
<1>9. Counts(r)' /\ Hands(r)'
  BY <1>1, <1>2, <1>3, <1>4 DEF PairInv, Counts, Hands
<1>10. InOrder(r)'
  <2>1. InOrder(r) /\ ~Away(r) /\ ~Away(r)' /\ blk[r] \in Nat
    BY <1>1, <1>2 DEF TypeOK, PairInv, Away
  <2>2. \A k \in DOMAIN ready'[r] :
          ~ready'[r][k].eof => ready'[r][k].blk = (seen[r] + 1) + k - 1
    <3> SUFFICES ASSUME NEW k \in DOMAIN ready'[r], ~ready'[r][k].eof
                 PROVE  ready'[r][k].blk = (seen[r] + 1) + k - 1
      OBVIOUS
    <3>1. k \in Nat /\ k + 1 \in DOMAIN ready[r] /\ ready'[r][k] = ready[r][k + 1]
      BY <1>3
    <3>2. ready[r][k + 1].blk = seen[r] + (k + 1) - 1
      BY <2>1, <3>1 DEF InOrder
    <3>3. (seen[r] + 1) + k - 1 = seen[r] + (k + 1) - 1
      <4>1. seen[r] \in Nat /\ k \in Nat
        BY <1>2, <3>1
      <4> QED BY <4>1
    <3> QED BY <3>1, <3>2, <3>3
  <2>3. \A k \in DOMAIN ready'[r] : ready'[r][k].eof => k = Len(ready'[r])
    <3> SUFFICES ASSUME NEW k \in DOMAIN ready'[r], ready'[r][k].eof
                 PROVE  k = Len(ready'[r])
      OBVIOUS
    <3>1. k \in Nat /\ k + 1 \in DOMAIN ready[r] /\ ready'[r][k] = ready[r][k + 1]
      BY <1>3
    <3>2. k + 1 = Len(ready[r])
      BY <2>1, <3>1 DEF InOrder
    <3>3. Len(ready[r]) \in Nat /\ Len(ready'[r]) = Len(ready[r]) - 1
      BY <1>3
    <3> QED BY <3>1, <3>2, <3>3
  <2>4. rp[r] # "idle" => /\ \A k \in DOMAIN ready'[r] : ~ready'[r][k].eof
                          /\ blk[r] = (seen[r] + 1) + Len(ready'[r])
    BY <1>2, <1>3, <2>1 DEF InOrder
  <2>5. rp[r] = "idle" => Len(ready'[r]) > 0 /\ ready'[r][Len(ready'[r])].eof
    <3> SUFFICES ASSUME rp[r] = "idle" PROVE Len(ready'[r]) > 0 /\ ready'[r][Len(ready'[r])].eof
      OBVIOUS
    <3>1. Len(ready[r]) > 0 /\ ready[r][Len(ready[r])].eof /\ Len(ready[r]) # 1
      BY <1>2, <1>3, <2>1 DEF InOrder
    <3>2. Len(ready[r]) \in Nat /\ Len(ready'[r]) = Len(ready[r]) - 1
      BY <1>3
    <3>3. Len(ready'[r]) \in Nat /\ Len(ready'[r]) > 0 /\ Len(ready'[r]) + 1 = Len(ready[r])
      <4>1. Len(ready[r]) > 0 /\ Len(ready[r]) # 1
        BY <3>1
      <4>2. PICK n \in Nat : n = Len(ready[r])
        BY <3>2
      <4>3. n > 0 /\ n # 1 /\ Len(ready'[r]) = n - 1
        BY <3>2, <4>1, <4>2
      <4>4. n - 1 \in Nat /\ n - 1 > 0 /\ (n - 1) + 1 = n
        BY <4>3
      <4> QED BY <4>2, <4>3, <4>4
    <3>4. ready'[r] \in Seq(Filled)
      BY <1>3
    <3>5. Len(ready'[r]) \in 1 .. Len(ready'[r])
      BY <3>3
    <3>6. Len(ready'[r]) \in DOMAIN ready'[r]
      BY <3>4, <3>5, LenProperties
    <3>7. ready'[r][Len(ready'[r])] = ready[r][Len(ready'[r]) + 1]
      BY <1>3, <3>6
    <3> QED BY <3>1, <3>3, <3>7
  <2> QED BY <1>2, <2>1, <2>2, <2>3, <2>4, <2>5 DEF InOrder
<1>11. Tails(r)'
  BY <1>1, <1>2 DEF PairInv, Tails, Pushing
<1> QED BY <1>5, <1>6, <1>7, <1>8, <1>9, <1>10, <1>11 DEF PairInv, Keeps

LEMMA NextEofStep ==
  ASSUME StorageInv, NEW r \in Reader, NextEof(r)
  PROVE  Keeps(r)
<1>1. TypeOK /\ PairInv(r)
  BY DEF StorageInv
<1>2. /\ wp[r] = "next" /\ wp'[r] \in {"idle", "stopped"} /\ widx'[r] = widx[r]
      /\ spare'[r] = spare[r] /\ spareTail'[r] = spareTail[r] /\ ridx'[r] = ridx[r]
      /\ rp'[r] = rp[r] /\ wpos'[r] = wpos[r] /\ rpos'[r] = rpos[r] /\ seen'[r] = seen[r]
      /\ blk'[r] = blk[r] /\ semp'[r] = semp[r] /\ rem'[r] = rem[r]
      /\ ready[r] # <<>> /\ Head(ready[r]).eof
      /\ ready' = [ready EXCEPT ![r] = Tail(@)]
  BY <1>1 DEF TypeOK, NextEof, rvars, spares
<1>3. /\ ready' \in [Reader -> Seq(Filled)]
      /\ Len(ready[r]) \in Nat /\ Len(ready[r]) > 0 /\ Len(ready'[r]) = Len(ready[r]) - 1
      /\ 1 \in DOMAIN ready[r] /\ Head(ready[r]) = ready[r][1] /\ ready[r][1] \in Filled
      /\ \A k \in DOMAIN ready'[r] : /\ k \in Nat /\ k + 1 \in DOMAIN ready[r] /\ k + 1 # 1
                                    /\ ready'[r][k] = ready[r][k + 1]
      /\ \A k \in DOMAIN ready[r] : k # 1 => k \in Nat /\ k - 1 \in DOMAIN ready'[r]
  BY <1>1, <1>2, Taken, Zenon
<1>4. Len(ready[r]) = 1 /\ rp[r] = "idle" /\ ready[r][1].idx = None
  BY <1>1, <1>2, <1>3 DEF PairInv, InOrder, Hands, Away
<1>5. ready'[r] = <<>> /\ DOMAIN ready'[r] = {}
  <2>1. ready'[r] \in Seq(Filled) /\ Len(ready'[r]) = 0
    BY <1>1, <1>3, <1>4
  <2> QED BY <2>1, EmptySeq
<1>6. \A k \in DOMAIN ready[r] : k = 1
  BY <1>3, <1>5
<1>7. TypeOK'
  <2>1. wp' \in [Reader -> WorkerPc]
    BY <1>1 DEF TypeOK, NextEof, WorkerPc
  <2> QED BY <1>1, <1>3, <2>1 DEF TypeOK, NextEof, rvars, spares
<1>8. \A q \in Reader \ {r} : Same(q)
  BY <1>1 DEF TypeOK, NextEof, Same, rvars, spares
<1>9. Apart(r)'
  BY <1>1, <1>2, <1>5 DEF PairInv, Apart
<1>10. Kept(r)'
  BY <1>1, <1>2, <1>4, <1>6 DEF PairInv, Kept, Somewhere, Buffer, None
<1>11. Counts(r)' /\ Hands(r)'
  BY <1>1, <1>2, <1>5 DEF PairInv, Counts, Hands
<1>12. InOrder(r)'
  BY <1>2, <1>4, <1>5 DEF InOrder, Away
<1>13. Tails(r)'
  BY <1>1, <1>2 DEF PairInv, Tails, Pushing
<1> QED BY <1>7, <1>8, <1>9, <1>10, <1>11, <1>12, <1>13 DEF PairInv, Keeps

-----------------------------------------------------------------------------
(* The semaphore. *)

Readers == {r \in Reader : Reading(r)}

\* A reader begins to read with a permit less, stops with one more, and nothing
\* else changes either.
LEMMA PermitsStep ==
  ASSUME StorageInv, [Next]_vars
  PROVE  PermitsConserved'
<1>1. TypeOK /\ permits + Cardinality(Readers) = Permits /\ Permits \in Nat
  BY PermitsAssumption DEF StorageInv, PermitsConserved, Readers
<1>2. IsFiniteSet(Readers) /\ Cardinality(Readers) \in Nat
  <2>1. Readers \in SUBSET Reader
    BY DEF Readers
  <2>2. IsFiniteSet(Readers)
    BY <2>1, ReaderAssumption, FS_Subset
  <2> QED BY <2>2, FS_CardinalityType
<1>3. \/ permits' = permits /\ Readers' = Readers
      \/ \E r \in Reader : r \notin Readers /\ permits' = permits - 1 /\ Readers' = Readers \cup {r}
      \/ \E r \in Reader : r \in Readers /\ permits' = permits + 1 /\ Readers' = Readers \ {r}
  <2>1. ASSUME permits' = permits, \A q \in Reader : Reading(q)' <=> Reading(q)
        PROVE  permits' = permits /\ Readers' = Readers
    BY <2>1 DEF Readers
  <2>2. ASSUME NEW r \in Reader, AcquireCas(r), permits = semp[r]
        PROVE  r \notin Readers /\ permits' = permits - 1 /\ Readers' = Readers \cup {r}
    <3>1. /\ permits' = permits - 1 /\ rp[r] = "cas" /\ rp'[r] = "loop"
          /\ \A q \in Reader \ {r} : rp'[q] = rp[q]
      BY <1>1, <2>2 DEF AcquireCas, TypeOK
    <3> QED BY <3>1 DEF Readers, Reading
  <2>3. ASSUME NEW r \in Reader, ReleaseAdd(r)
        PROVE  r \in Readers /\ permits' = permits + 1 /\ Readers' = Readers \ {r}
    <3>1. /\ permits' = permits + 1 /\ rp[r] = "release" /\ rp'[r] = "notify"
          /\ \A q \in Reader \ {r} : rp'[q] = rp[q]
      BY <1>1, <2>3 DEF ReleaseAdd, TypeOK
    <3> QED BY <3>1 DEF Readers, Reading
  <2>4. ASSUME NEW r \in Reader, ReaderStep(r), ~ReleaseAdd(r), ~(AcquireCas(r) /\ permits = semp[r])
        PROVE  permits' = permits /\ \A q \in Reader : Reading(q)' <=> Reading(q)
    <3>1. permits' = permits
      BY <2>4 DEF ReaderStep, AcquireLoad, AcquireCas, AcquireWait, OpenFails, PopSpare, ReadAt, PutBackLoad,
         PutBackWrite, PutBackStore, PushReady, LoopEnds, notify_one, PushEof
    <3>2. \A q \in Reader :
            \/ rp'[q] = rp[q]
            \/ /\ rp[q] \in {"acquire", "cas", "wait", "asleep", "notify", "eof"}
               /\ rp'[q] \in {"cas", "wait", "asleep", "acquire", "eof", "idle"}
            \/ /\ rp[q] \in {"loop", "read", "putback", "putbackWrite", "putbackStore", "push"}
               /\ rp'[q] \in {"loop", "read", "putback", "putbackWrite", "putbackStore", "push",
                              "release"}
      <4>1. CASE AcquireLoad(r) \/ AcquireCas(r) \/ AcquireWait(r) \/ PushEof(r)
        BY <1>1, <2>4, <4>1 DEF TypeOK, AcquireLoad, AcquireCas, AcquireWait, PushEof, Saw
      <4>2. CASE OpenFails(r) \/ PopSpare(r) \/ ReadAt(r) \/ PutBackLoad(r) \/ PutBackWrite(r)
                 \/ PutBackStore(r) \/ PushReady(r) \/ LoopEnds(r)
        BY <1>1, <4>2 DEF TypeOK, OpenFails, PopSpare, ReadAt, PutBackLoad, PutBackWrite, PutBackStore,
           PushReady, LoopEnds
      <4>3. CASE notify_one(r)
        BY <1>1, <4>3 DEF TypeOK, notify_one, Asleep
      <4> QED BY <2>4, <4>1, <4>2, <4>3 DEF ReaderStep
    <3> QED BY <3>1, <3>2 DEF Reading
  <2>5. ASSUME NEW r \in Reader, WorkerStep(r)
        PROVE  permits' = permits /\ \A q \in Reader : Reading(q)' <=> Reading(q)
    BY <2>5 DEF WorkerStep, NextBlock, SendBlock, RecycleLoad, RecycleWrite, RecycleStore, NextEof, rvars,
       Reading
  <2>6. ASSUME NEW r \in Reader, NEW n \in Blocks[r], Submit(r, n)
        PROVE  permits' = permits /\ \A q \in Reader : Reading(q)' <=> Reading(q)
    <3>1. /\ permits' = permits /\ rp[r] = "idle" /\ rp'[r] = "acquire"
          /\ \A q \in Reader \ {r} : rp'[q] = rp[q]
      BY <1>1, <2>6 DEF Submit, TypeOK
    <3> QED BY <3>1 DEF Reading
  <2>7. CASE UNCHANGED vars
    BY <2>7, <2>1 DEF vars, rvars, Reading
  <2> QED BY <2>1, <2>2, <2>3, <2>4, <2>5, <2>6, <2>7 DEF Next
<1>4. permits \in Nat
  BY <1>1 DEF TypeOK
<1>5. permits' + Cardinality(Readers') = Permits
  <2>1. CASE permits' = permits /\ Readers' = Readers
    BY <1>1, <2>1
  <2>2. ASSUME NEW r \in Reader, r \notin Readers, permits' = permits - 1, Readers' = Readers \cup {r}
        PROVE  permits' + Cardinality(Readers') = Permits
    <3>1. Cardinality(Readers') = Cardinality(Readers) + 1
      BY <1>2, <2>2, FS_AddElement
    <3> QED BY <1>1, <1>2, <1>4, <2>2, <3>1
  <2>3. ASSUME NEW r \in Reader, r \in Readers, permits' = permits + 1, Readers' = Readers \ {r}
        PROVE  permits' + Cardinality(Readers') = Permits
    <3>1. Cardinality(Readers') = Cardinality(Readers) - 1
      BY <1>2, <2>3, FS_RemoveElement
    <3> QED BY <1>1, <1>2, <1>4, <2>3, <3>1
  <2> QED BY <1>3, <2>1, <2>2, <2>3
<1> QED BY <1>5 DEF PermitsConserved, Readers

-----------------------------------------------------------------------------
(* The theorems. *)

LEMMA StorageInit == Init => StorageInv
<1> SUFFICES ASSUME Init PROVE StorageInv
  OBVIOUS
<1>1. ReadAhead \in Nat /\ Permits \in Nat /\ MaxUnits \in Nat
  BY RingAssumption, PermitsAssumption, BoundsAssumption
<1>2. /\ [i \in Buffer |-> i] \in Seq(Buffer)
      /\ Len([i \in Buffer |-> i]) = ReadAhead
  BY <1>1 DEF Buffer
<1>3. /\ <<>> \in Seq(Filled) /\ Len(<<>>) = 0 /\ DOMAIN <<>> = {}
  OBVIOUS
<1>4. TypeOK
  BY <1>1, <1>2, <1>3 DEF Init, TypeOK, ReaderPc, WorkerPc, None
<1>5. PermitsConserved
  <2>1. {r \in Reader : Reading(r)} = {}
    BY DEF Init, Reading
  <2>2. Cardinality({r \in Reader : Reading(r)}) = 0
    BY <2>1, FS_EmptySet
  <2>3. permits = Permits
    BY DEF Init
  <2> QED BY <1>1, <2>2, <2>3 DEF PermitsConserved
<1>6. ASSUME NEW r \in Reader PROVE PairInv(r)
  <2>1. /\ spare[r] = [i \in Buffer |-> i] /\ spareTail[r] = ReadAhead /\ ready[r] = <<>>
        /\ rp[r] = "idle" /\ wp[r] = "idle" /\ ridx[r] = None /\ widx[r] = None
    BY DEF Init
  <2>2. DOMAIN spare[r] = Buffer /\ \A i \in Buffer : spare[r][i] = i /\ i # None
    BY <2>1 DEF Buffer, None
  <2>3. Counts(r) /\ Hands(r) /\ InOrder(r)
    BY <1>3, <2>1 DEF Counts, Hands, InOrder, Away
  <2>4. Apart(r) /\ Kept(r)
    BY <1>3, <2>1, <2>2 DEF Apart, Kept, Somewhere
  <2>5. Tails(r)
    BY <1>1, <1>2, <2>1 DEF Tails, Pushing
  <2> QED BY <2>3, <2>4, <2>5 DEF PairInv
<1> QED BY <1>4, <1>5, <1>6 DEF StorageInv

LEMMA StorageStep == StorageInv /\ [Next]_vars => StorageInv'
<1> SUFFICES ASSUME StorageInv, [Next]_vars PROVE StorageInv'
  OBVIOUS
<1>1. ASSUME NEW r \in Reader, Keeps(r)
      PROVE  TypeOK' /\ \A q \in Reader : PairInv(q)'
  BY <1>1, SamePair DEF Keeps, StorageInv
<1>2. TypeOK' /\ \A q \in Reader : PairInv(q)'
  <2>1. ASSUME NEW r \in Reader, ReaderStep(r)
        PROVE  TypeOK' /\ \A q \in Reader : PairInv(q)'
    <3>1. CASE notify_one(r)
      BY <3>1, NotifyStep
    <3>2. CASE ~notify_one(r)
      <4>1. \/ Moves(r) \/ PopSpare(r) \/ PutBackWrite(r) \/ PushReady(r) \/ PushEof(r)
        BY <2>1, <3>2 DEF ReaderStep, Moves
      <4>2. Keeps(r)
        BY <4>1, MovesStep, PopSpareStep, PutBackWriteStep, PushReadyStep, PushEofStep
      <4> QED BY <1>1, <4>2
    <3> QED BY <3>1, <3>2
  <2>2. ASSUME NEW r \in Reader, WorkerStep(r)
        PROVE  TypeOK' /\ \A q \in Reader : PairInv(q)'
    <3>1. Keeps(r)
      BY <2>2, NextBlockStep, WorkerMovesStep, RecycleWriteStep, NextEofStep DEF WorkerStep
    <3> QED BY <1>1, <3>1
  <2>3. ASSUME NEW r \in Reader, NEW n \in Blocks[r], Submit(r, n)
        PROVE  TypeOK' /\ \A q \in Reader : PairInv(q)'
    <3>1. Keeps(r)
      BY <2>3, SubmitStep
    <3> QED BY <1>1, <3>1
  <2>4. CASE UNCHANGED vars
    <3>1. TypeOK'
      BY <2>4 DEF StorageInv, TypeOK, vars, rvars, wvars, spares
    <3>2. \A q \in Reader : Same(q)
      BY <2>4 DEF vars, rvars, wvars, spares, Same
    <3> QED BY <3>1, <3>2, SamePair DEF StorageInv
  <2> QED BY <2>1, <2>2, <2>3, <2>4 DEF Next
<1>3. PermitsConserved'
  BY PermitsStep
<1> QED BY <1>2, <1>3 DEF StorageInv

LEMMA StorageInvariant == Spec => []StorageInv
BY StorageInit, StorageStep, PTL DEF Spec

\* storage.h:26-42 - with any number of readers and permits, no permit of the
\* lock-free semaphore is lost or taken twice.
THEOREM ReaderPermitsConserved == Spec => []PermitsConserved
<1>1. StorageInv => PermitsConserved
  BY DEF StorageInv
<1> QED BY <1>1, StorageInvariant, PTL

\* storageReader.h:118-153 - a worker gets the blocks of its unit, in order, and
\* nothing of an earlier unit, whatever the number of blocks and buffers.
THEOREM ReaderBlocksInOrder == Spec => []BlocksInOrder
<1>1. StorageInv => BlocksInOrder
  BY DEF StorageInv, PairInv, InOrder, Away, BlocksInOrder
<1> QED BY <1>1, StorageInvariant, PTL

\* Two places of one buffer are the same place.
LEMMA OnePlace ==
  ASSUME StorageInv, NEW r \in Reader, NEW i \in Buffer,
         NEW p \in Places(r, i), NEW q \in Places(r, i)
  PROVE  p = q
<1>1. Apart(r) /\ i # None
  BY DEF StorageInv, PairInv, Buffer, None
<1>2. Pushed(r) \subseteq DOMAIN spare[r]
  <2>1. /\ spare[r] \in Seq(Buffer) /\ Len(spare[r]) \in Nat
        /\ spareTail[r] \in Nat /\ wpos[r] \in Nat /\ rpos[r] \in Nat
    BY DEF StorageInv, TypeOK
  <2>2. /\ spareTail[r] <= Len(spare[r])
        /\ wp[r] = "store" => wpos[r] < Len(spare[r])
        /\ rp[r] = "putbackStore" => rpos[r] < Len(spare[r])
    BY DEF StorageInv, PairInv, Tails
  <2>3. Pushed(r) \subseteq 1 .. Len(spare[r])
    BY <2>1, <2>2 DEF Pushed
  <2> QED BY <2>1, <2>3, LenProperties
<1>3. \A x \in Places(r, i) :
        \/ \E k \in DOMAIN spare[r] : spare[r][k] = i /\ x = <<"spare", k>>
        \/ \E k \in DOMAIN ready[r] : ready[r][k].idx = i /\ x = <<"ready", k>>
        \/ ridx[r] = i /\ x = <<"reader", 0>>
        \/ widx[r] = i /\ x = <<"worker", 0>>
  BY <1>2 DEF Places
<1> QED BY <1>1, <1>3 DEF Apart

\* storageReader.h:129-142,159-161 - with any number of buffers, READ_AHEAD being
\* 4, no two hands hold the same one, although two threads push to the spare ring;
\* and while files keep their size none is lost.
THEOREM ReaderBuffersConserved == Spec => []BuffersConserved
<1>1. ASSUME StorageInv PROVE BuffersConserved
  <2> SUFFICES ASSUME NEW r \in Reader, NEW i \in Buffer
               PROVE  /\ Cardinality(Places(r, i)) <= 1
                      /\ r \notin Shrinking => Places(r, i) # {}
    BY DEF BuffersConserved
  <2>1. Cardinality(Places(r, i)) <= 1
    <3>1. CASE Places(r, i) = {}
      BY <3>1, FS_EmptySet
    <3>2. CASE Places(r, i) # {}
      <4>1. PICK p : p \in Places(r, i)
        BY <3>2
      <4>2. \A q \in Places(r, i) : q = p
        BY <1>1, <4>1, OnePlace
      <4>3. Places(r, i) = {p}
        BY <4>1, <4>2
      <4> QED BY <4>3, FS_Singleton
    <3> QED BY <3>1, <3>2
  <2>2. ASSUME r \notin Shrinking PROVE Places(r, i) # {}
    <3>1. Somewhere(r, i)
      BY <1>1, <2>2 DEF StorageInv, PairInv, Kept
    <3>2. \A k \in DOMAIN spare[r] : k \in Pushed(r)
      <4>1. /\ spare[r] \in Seq(Buffer) /\ Len(spare[r]) \in Nat
            /\ spareTail[r] \in Nat /\ wpos[r] \in Nat
        BY <1>1 DEF StorageInv, TypeOK
      <4>2. /\ Len(spare[r]) = IF wp[r] = "store" THEN spareTail[r] + 1 ELSE spareTail[r]
            /\ wp[r] = "store" => wpos[r] = spareTail[r]
        BY <1>1, <2>2 DEF StorageInv, PairInv, Tails, Pushing
      <4>3. \A k \in 1 .. Len(spare[r]) : k \in Pushed(r)
        BY <4>1, <4>2 DEF Pushed
      <4> QED BY <4>1, <4>3, LenProperties
    <3>3. CASE \E k \in DOMAIN spare[r] : spare[r][k] = i
      BY <3>2, <3>3 DEF Places
    <3>4. CASE \E k \in DOMAIN ready[r] : ready[r][k].idx = i
      BY <3>4 DEF Places
    <3>5. CASE ridx[r] = i \/ widx[r] = i
      BY <3>5 DEF Places
    <3> QED BY <3>1, <3>3, <3>4, <3>5 DEF Somewhere
  <2> QED BY <2>1, <2>2
<1> QED BY <1>1, StorageInvariant, PTL
=============================================================================
