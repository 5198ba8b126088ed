---------------------------- MODULE UploadProofs ----------------------------
(***************************************************************************)
(* Proofs about one upload connection, for any number of units and blocks, *)
(* any window and any filter: the two sides agree about every unit,        *)
(* wherever the connection breaks off.                                     *)
(***************************************************************************)
EXTENDS Upload, Integers, SequenceTheorems, TLAPS

-----------------------------------------------------------------------------
(* The inductive invariant, part by part. *)

Shaking  == {"dial", "proxy", "tls", "connect", "shake", "again"}
Running  == {"idle", "await", "recv", "send", "blocks"}
ClientPc == {"dial", "proxy", "tls", "connect", "shake", "again",
             "idle", "await", "recv", "send", "blocks", "finished", "failed"}
Kinds    == {"hello", "probe", "accepted", "unit", "data", "end", "bye"}

BlockSet   == {Block(u, i) : u \in Nat, i \in Nat}
Data       == BlockSet \cup {Content(u, n) : u \in Nat, n \in Nat} \cup {<<>>}
FrameSet   == [kind : Kinds, key : Nat, unit : Nat, data : Data]
PendingRec == [key : Nat, unit : Nat, accepted : BOOLEAN]
ShakeReply == [status : {"ok", "BadVersion", "error"}, mode : BOOLEAN]
ProbeReply == [key : Nat, accepted : BOOLEAN]
Replies    == ShakeReply \cup ProbeReply

\* Every variable of the two sides and of the connection has its type; a key
\* the server has accepted is the one its unit was probed with.
TypeOK ==
  /\ cver \in Nat /\ acceptMode \in BOOLEAN /\ mode_ \in BOOLEAN
  /\ given \in 0 .. Units /\ tasks \in Seq(Nat)
  /\ cw \in ClientPc /\ nextKey \in Nat /\ pending \in Seq(PendingRec) /\ ri \in Nat
  /\ cur \in 0 .. Units /\ sent \in 0 .. Length
  /\ done \in [Unit -> {"none", "ok", "failed"}]
  /\ c2s \in Seq(FrameSet) /\ s2c \in Seq(Replies) /\ link \in {"up", "down"}
  /\ sv \in {"hello", "unit", "blocks", "closed"}
  /\ DOMAIN accepted \subseteq Nat /\ \A key \in DOMAIN accepted : accepted[key] = key + 1
  /\ su \in 0 .. Units /\ got \in Seq(BlockSet) /\ disk \in [Unit -> Seq(BlockSet)]
  /\ received \in [Unit -> {"none", "ok", "failed"}] /\ rejected \subseteq Unit

\* Until the handshake is over nothing has been given, probed, sent or received.
Blank == /\ given = 0 /\ tasks = <<>> /\ nextKey = 0 /\ pending = <<>> /\ cur = 0
         /\ su = 0 /\ DOMAIN accepted = {} /\ rejected = {}

\* Where the two sides are during the handshake; they come out of it with the
\* same mode.
Hand ==
  /\ link = "up" => sv # "closed"
  /\ cw \in Shaking \/ sv = "hello" => Blank /\ sv # "blocks"
  /\ cw \in {"dial", "proxy", "again"} => sv = "closed"
  /\ cw \in {"tls", "connect"} => s2c = <<>> /\ c2s = <<>> /\ sv \in {"hello", "closed"}
  /\ sv = "hello" => s2c = <<>> /\ Len(c2s) <= 1 /\ cw \in {"tls", "connect", "shake", "failed"}
  /\ cw = "shake" /\ s2c # <<>> =>
       /\ Len(s2c) = 1 /\ s2c[1] \in ShakeReply
       /\ s2c[1].status = "ok" => (s2c[1].mode <=> mode_) /\ (mode_ => cver >= 2)
       /\ s2c[1].status # "ok" => sv = "closed"
  /\ cw \in Running => (acceptMode <=> mode_)
  /\ ~mode_ => rejected = {}

\* Units are taken from the queue in the order they were given, and in accept
\* mode the key of a unit is the number of units taken before it; none is
\* rejected before it has been probed.
Queue == cw \in Running =>
  /\ Len(tasks) <= given
  /\ \A j \in 1 .. Len(tasks) : tasks[j] = given - Len(tasks) + j
  /\ cur <= given - Len(tasks)
  /\ acceptMode => nextKey = given - Len(tasks)
  /\ ~acceptMode => nextKey = 0
  /\ \A u \in rejected : u <= nextKey

\* The batch is the last Len(pending) of the keys; Judged of its replies have
\* been read.
Base == nextKey - Len(pending)
Judged == IF cw = "recv" THEN ri - 1 ELSE IF cw \in {"send", "blocks"} THEN Len(pending) ELSE 0

Batch == cw \in Running =>
  /\ Len(pending) <= nextKey
  /\ \A j \in 1 .. Len(pending) : pending[j].key = Base + j - 1 /\ pending[j].unit = Base + j
  /\ cw \in {"recv", "send"} => ri \in 1 .. Len(pending) + 1
  /\ cw \in {"await", "recv", "send"} => acceptMode
  /\ acceptMode => /\ cw \in {"idle", "await", "recv"} => cur <= Base
                   /\ cw = "send" => cur <= Base + ri - 1
                   /\ cw = "blocks" => ri \in 1 .. Len(pending) /\ cur = Base + ri

\* What a reply says of a key is what the server holds.
Verdict(key, ok) ==
  /\ ok => key + 1 \notin rejected /\ (key >= cur => key \in DOMAIN accepted)
  /\ ~ok => key + 1 \in rejected

\* The replies read, the replies on their way and the probes still to be
\* answered: each key is in one of them, and in this order.
Judgement == cw \in Running =>
  \A j \in 1 .. Judged : Verdict(pending[j].key, pending[j].accepted)
OnTheWay == cw \in Running =>
  /\ \A i \in 1 .. Len(s2c) : /\ s2c[i] \in ProbeReply
                              /\ Base + Judged <= s2c[i].key /\ s2c[i].key < nextKey
                              /\ Verdict(s2c[i].key, s2c[i].accepted)
  /\ \A i, j \in 1 .. Len(s2c) : i < j => s2c[i].key < s2c[j].key
Unanswered == cw \in Running /\ sv # "closed" =>
  \A i \in 1 .. Len(c2s) : c2s[i].kind = "probe" =>
    /\ Base + Judged <= c2s[i].key
    /\ \A j \in 1 .. Len(s2c) : s2c[j].key < c2s[i].key

\* Where a side is in the stream of frames: before the handshake, between two
\* units or after n blocks of unit u.
Place(at, u, n) == [at |-> at, unit |-> u, blocks |-> n]
Between == Place("unit", 0, 0)
After(f) == IF f.kind = "accepted" THEN Place("blocks", f.key + 1, 0)
            ELSE IF f.kind = "unit" THEN Place("blocks", f.unit, 0)
            ELSE IF f.kind = "data" THEN Place("blocks", f.data[1], f.data[2])
            ELSE Between
Here  == IF sv = "blocks" THEN Place("blocks", su, Len(got)) ELSE Place(sv, 0, 0)
There == IF cw = "blocks" THEN Place("blocks", cur, sent)
         ELSE IF cw \in {"tls", "connect"} THEN Place("hello", 0, 0) ELSE Between

\* The frames that may come at a place.
Fits(p, f) ==
  /\ f.kind = "hello" => p.at = "hello"
  /\ f.kind \in {"probe", "accepted", "unit", "bye"} => p.at = "unit"
  /\ f.kind = "data" => p.at = "blocks" /\ f.data = Block(p.unit, p.blocks + 1)
  /\ f.kind = "end" => /\ p.at = "blocks" /\ f.data = Checksum(Content(p.unit, p.blocks))
                       /\ p.blocks = Length \/ p.unit \in short

\* What a header under way says of the two sides.
FrameOK(f) ==
  /\ f.kind = "hello" => f.key = cver
  /\ f.kind = "probe" => /\ mode_ /\ f.unit \in Unit /\ f.unit = f.key + 1
                         /\ cur < f.unit /\ f.unit <= nextKey /\ f.unit \notin rejected
  /\ f.kind = "accepted" => /\ mode_ /\ f.key \in DOMAIN accepted /\ f.key + 1 \in Unit
                            /\ su < f.key + 1 /\ f.key + 1 <= cur /\ f.key + 1 \notin rejected
  /\ f.kind = "unit" => ~mode_ /\ f.key = 0 /\ f.unit \in Unit /\ su < f.unit /\ f.unit <= cur

Header(f) == f.kind \in {"probe", "accepted", "unit"}
UnitOf(f) == IF f.kind = "accepted" THEN f.key + 1 ELSE f.unit

\* The frames under way make a stream that begins where the server is, and its
\* headers are of ascending units.
Before(i) == IF i = 1 THEN Here ELSE After(c2s[i - 1])
Wire == sv # "closed" =>
  /\ \A i \in 1 .. Len(c2s) : FrameOK(c2s[i])
  /\ \A i \in 1 .. Len(c2s) : Fits(Before(i), c2s[i])
  /\ \A i, j \in 1 .. Len(c2s) : i < j /\ Header(c2s[i]) /\ Header(c2s[j])
                                   => UnitOf(c2s[i]) < UnitOf(c2s[j])

\* The stream ends where the client is, as long as the connection is up.
Meet == link = "up" /\ cw \notin {"failed", "finished"} => There = Before(Len(c2s) + 1)

\* The files: nothing beyond the server's unit; of that one, what was received.
Disk ==
  /\ su <= cur
  /\ \A u \in Unit : u > su => disk[u] = NoFile /\ received[u] = "none"
  /\ sv = "blocks" => /\ su \in Unit /\ received[su] = "none" /\ su \notin rejected
                      /\ disk[su] = got /\ got = Content(su, Len(got))
  /\ NoMisrouting /\ OkMeansComplete /\ RejectedNeverWritten

\* The client's events.
Told ==
  /\ VerdictsAgree
  /\ \A u \in Unit : u > cur => done[u] = "none"
  /\ cw = "blocks" => cur \in Unit /\ cur \notin rejected

UploadInv == /\ TypeOK /\ Hand /\ Queue /\ Batch /\ Judgement /\ OnTheWay /\ Unanswered
             /\ Wire /\ Meet /\ Disk /\ Told

-----------------------------------------------------------------------------
(* Sequences and contents *)

LEMMA AppendFacts ==
  ASSUME NEW S, NEW s \in Seq(S), NEW x \in S
  PROVE  /\ Append(s, x) \in Seq(S) /\ Len(s) \in Nat
         /\ Len(Append(s, x)) = Len(s) + 1 /\ Append(s, x)[Len(s) + 1] = x
         /\ \A k \in 1 .. Len(s) : Append(s, x)[k] = s[k]
BY AppendProperties, LenProperties

LEMMA TailFacts ==
  ASSUME NEW S, NEW s \in Seq(S), s # <<>>
  PROVE  /\ Tail(s) \in Seq(S) /\ Len(s) \in Nat /\ Len(s) >= 1
         /\ Head(s) = s[1] /\ s[1] \in S
         /\ Len(Tail(s)) = Len(s) - 1
         /\ \A k \in 1 .. Len(s) - 1 : Tail(s)[k] = s[k + 1]
<1>1. Len(s) \in Nat /\ Len(s) >= 1
  BY EmptySeq, LenProperties
<1>2. Tail(s) \in Seq(S) /\ Len(Tail(s)) = Len(s) - 1 /\ Head(s) \in S
  BY HeadTailProperties
<1> QED BY <1>1, <1>2

\* The front of a sequence.
LEMMA FrontFacts ==
  ASSUME NEW S, NEW s \in Seq(S), NEW n \in 0 .. Len(s)
  PROVE  /\ SubSeq(s, 1, n) \in Seq(S) /\ Len(SubSeq(s, 1, n)) = n
         /\ \A k \in 1 .. n : SubSeq(s, 1, n)[k] = s[k]
<1>1. Len(s) \in Nat
  OBVIOUS
<1>2. \A k \in 1 .. n : s[k] \in S
  BY <1>1
<1>3. SubSeq(s, 1, n) = [k \in 1 .. n |-> s[k]]
  BY <1>1
<1> QED BY <1>1, <1>2, <1>3

LEMMA EmptyFacts ==
  ASSUME NEW S, NEW s \in Seq(S)
  PROVE  Len(s) \in Nat /\ (s = <<>> <=> Len(s) = 0)
BY EmptySeq, LenProperties

\* A content of n blocks and the next block.
LEMMA ContentGrows ==
  ASSUME NEW u \in Nat, NEW n \in Nat
  PROVE  /\ Content(u, n) \in Seq(BlockSet) /\ Len(Content(u, n)) = n
         /\ Append(Content(u, n), Block(u, n + 1)) = Content(u, n + 1)
         /\ Content(u, 0) = <<>>
<1>1. \A i \in 1 .. n + 1 : Block(u, i) \in BlockSet
  BY DEF BlockSet
<1>2. Content(u, n) \in Seq(BlockSet) /\ Len(Content(u, n)) = n
  BY <1>1 DEF Content
<1>3. Content(u, n + 1) \in Seq(BlockSet) /\ Len(Content(u, n + 1)) = n + 1
  BY <1>1 DEF Content
<1>4. PICK s : s = Append(Content(u, n), Block(u, n + 1))
  OBVIOUS
<1>5. /\ s \in Seq(BlockSet) /\ Len(s) = n + 1 /\ s[n + 1] = Block(u, n + 1)
      /\ \A k \in 1 .. n : s[k] = Content(u, n)[k]
  BY <1>1, <1>2, <1>4, AppendFacts
<1>6. /\ \A k \in 1 .. n : Content(u, n)[k] = Block(u, k)
      /\ \A k \in 1 .. n + 1 : Content(u, n + 1)[k] = Block(u, k)
  BY DEF Content
<1>7. PICK t : t = Content(u, n + 1)
  OBVIOUS
<1>8. t \in Seq(BlockSet) /\ Len(t) = n + 1 /\ \A k \in 1 .. n + 1 : t[k] = s[k]
  BY <1>3, <1>5, <1>6, <1>7
<1>9. s = t
  BY <1>5, <1>8, SeqEqual
<1>10. Content(u, 0) = <<>>
  BY DEF Content
<1> QED BY <1>2, <1>4, <1>7, <1>9, <1>10

LEMMA BlockParts ==
  ASSUME NEW u, NEW n
  PROVE  Block(u, n)[1] = u /\ Block(u, n)[2] = n
  BY DEF Block

LEMMA NoFileFacts == NoFile \in Seq(BlockSet) /\ NoFile # <<>>
<1>1. Block(0, 0) \in BlockSet
  BY DEF BlockSet
<1> QED BY <1>1 DEF NoFile

-----------------------------------------------------------------------------
(* The frames under way *)

UnderWay(f) == sv # "closed" /\ \E i \in 1 .. Len(c2s) : f = c2s[i]
FrameKept == \A f \in FrameSet : UnderWay(f) /\ FrameOK(f) => FrameOK(f)'

\* A frame that fitted fits as long as no file that ended early is forgotten.
LEMMA FitsKept ==
  ASSUME NEW p, NEW f, integrity' = integrity, short \subseteq short', Fits(p, f)
  PROVE  Fits(p, f)'
  BY DEF Fits, Checksum

\* What is left of the stream when nothing or its end is lost.
LEMMA WirePrefix ==
  ASSUME TypeOK, Wire, NEW n \in Nat, n <= Len(c2s), c2s' \in Seq(FrameSet), Len(c2s') = n,
         \A k \in 1 .. n : c2s'[k] = c2s[k],
         sv' = sv, Here' = Here, integrity' = integrity, short \subseteq short', FrameKept
  PROVE  Wire'
<1> SUFFICES ASSUME sv # "closed"
             PROVE  /\ \A i \in 1 .. n : FrameOK(c2s[i])'
                    /\ \A i \in 1 .. n : Fits(Before(i), c2s[i])'
                    /\ \A i, j \in 1 .. n : i < j /\ Header(c2s'[i]) /\ Header(c2s'[j])
                                              => UnitOf(c2s'[i]) < UnitOf(c2s'[j])
  BY DEF Wire, Header, UnitOf
<1>1. Len(c2s) \in Nat /\ \A k \in 1 .. n : k \in 1 .. Len(c2s) /\ c2s[k] \in FrameSet
  BY DEF TypeOK
<1>2. ASSUME NEW i \in 1 .. n PROVE FrameOK(c2s[i])' /\ Fits(Before(i), c2s[i])'
  <2>1. PICK f : f = c2s[i]
    OBVIOUS
  <2>2. f \in FrameSet /\ FrameOK(f) /\ Fits(Before(i), f) /\ c2s'[i] = f /\ UnderWay(f)
    BY <1>1, <2>1 DEF Wire, UnderWay
  <2>3. FrameOK(f)'
    BY <2>2 DEF FrameKept
  <2>4. Before(i)' = Before(i)
    <3>1. CASE i = 1
      BY <3>1 DEF Before
    <3>2. CASE i # 1
      <4>1. c2s'[i - 1] = c2s[i - 1]
        BY <3>2
      <4> QED BY <3>2, <4>1 DEF Before, After
    <3> QED BY <3>1, <3>2
  <2>5. PICK p : p = Before(i)
    OBVIOUS
  <2>6. Fits(p, f)'
    BY <2>2, <2>5, FitsKept
  <2> QED BY <2>2, <2>3, <2>4, <2>5, <2>6 DEF Fits, FrameOK
<1>3. ASSUME NEW i \in 1 .. n, NEW j \in 1 .. n, i < j, Header(c2s'[i]), Header(c2s'[j])
      PROVE  UnitOf(c2s'[i]) < UnitOf(c2s'[j])
  BY <1>1, <1>3 DEF Wire
<1> QED BY <1>2, <1>3

\* The client adds a frame that fits where it is.
LEMMA WireAppend ==
  ASSUME TypeOK, Wire, Meet, link = "up", sv # "closed", cw \notin {"failed", "finished"},
         NEW f \in FrameSet, c2s' = Append(c2s, f), sv' = sv, Here' = Here,
         integrity' = integrity, short \subseteq short', FrameKept,
         FrameOK(f)', NEW p, p = There, Fits(p, f)',
         Header(f) => \A i \in 1 .. Len(c2s) : Header(c2s[i]) => UnitOf(c2s[i]) < UnitOf(f)
  PROVE  Wire' /\ Before(Len(c2s) + 1)' = After(f) /\ Len(c2s') = Len(c2s) + 1
<1>1. PICK n \in Nat : n = Len(c2s)
  BY DEF TypeOK
<1>2. /\ c2s' \in Seq(FrameSet) /\ Len(c2s') = n + 1 /\ c2s'[n + 1] = f
      /\ \A k \in 1 .. n : c2s'[k] = c2s[k]
  BY <1>1, AppendFacts DEF TypeOK
<1>3. \A k \in 1 .. n : c2s[k] \in FrameSet
  BY <1>1 DEF TypeOK
<1>4. ASSUME NEW i \in 1 .. n + 1 PROVE Before(i)' = Before(i)
  <2>1. CASE i = 1
    BY <2>1 DEF Before
  <2>2. CASE i # 1
    <3>1. c2s'[i - 1] = c2s[i - 1]
      BY <1>2, <2>2
    <3> QED BY <2>2, <3>1 DEF Before, After
  <2> QED BY <2>1, <2>2
<1>5. Before(n + 1) = p
  BY <1>1 DEF Meet
<1>6. ASSUME NEW i \in 1 .. n PROVE FrameOK(c2s[i])' /\ Fits(Before(i), c2s[i])'
  <2>1. PICK g : g = c2s[i]
    OBVIOUS
  <2>2. g \in FrameSet /\ FrameOK(g) /\ Fits(Before(i), g) /\ c2s'[i] = g /\ UnderWay(g)
    BY <1>1, <1>2, <1>3, <2>1 DEF Wire, UnderWay
  <2>3. FrameOK(g)'
    BY <2>2 DEF FrameKept
  <2>4. Before(i)' = Before(i)
    BY <1>4
  <2>5. PICK q : q = Before(i)
    OBVIOUS
  <2>6. Fits(q, g)'
    BY <2>2, <2>5, FitsKept
  <2> QED BY <2>2, <2>3, <2>4, <2>5, <2>6 DEF Fits, FrameOK
<1>7. FrameOK(c2s[n + 1])' /\ Fits(Before(n + 1), c2s[n + 1])'
  <2>1. Before(n + 1)' = p /\ c2s'[n + 1] = f
    BY <1>2, <1>4, <1>5
  <2> QED BY <2>1 DEF Fits, FrameOK
<1>8. ASSUME NEW i \in 1 .. n + 1, NEW j \in 1 .. n + 1, i < j,
             Header(c2s'[i]), Header(c2s'[j])
      PROVE  UnitOf(c2s'[i]) < UnitOf(c2s'[j])
  <2>1. i \in 1 .. n /\ c2s'[i] = c2s[i]
    BY <1>2, <1>8
  <2>2. CASE j = n + 1
    BY <1>1, <1>2, <1>8, <2>1, <2>2
  <2>3. CASE j \in 1 .. n
    <3>1. c2s'[j] = c2s[j]
      BY <1>2, <2>3
    <3> QED BY <1>1, <1>8, <2>1, <2>3, <3>1 DEF Wire
  <2> QED BY <1>1, <2>2, <2>3
<1>9. Wire'
  <2>1. \A i \in 1 .. n + 1 : FrameOK(c2s[i])' /\ Fits(Before(i), c2s[i])'
    <3>1. ASSUME NEW i \in 1 .. n + 1, i # n + 1 PROVE i \in 1 .. n
      BY <1>1, <3>1
    <3> QED BY <1>6, <1>7, <3>1
  <2> QED BY <1>2, <1>8, <2>1 DEF Wire, Header, UnitOf
<1>10. Before(n + 2)' = After(f)
  BY <1>2 DEF Before, After
<1> QED BY <1>1, <1>2, <1>9, <1>10

\* The server reads a frame and is where the frame leads to.
LEMMA WireTail ==
  ASSUME TypeOK, Wire, sv # "closed", c2s # <<>>, c2s' = Tail(c2s), Here' = After(c2s[1]),
         integrity' = integrity, short' = short,
         \A f \in FrameSet :
           FrameOK(f) /\ (Header(f) /\ Header(c2s[1]) => UnitOf(c2s[1]) < UnitOf(f))
             => FrameOK(f)'
  PROVE  Wire' /\ Before(Len(c2s) + 1)' = Before(Len(c2s) + 1)
<1>1. PICK n \in Nat : n = Len(c2s) /\ n >= 1
  BY TailFacts DEF TypeOK
<1>2. /\ c2s' \in Seq(FrameSet) /\ Len(c2s') = n - 1
      /\ \A k \in 1 .. n - 1 : c2s'[k] = c2s[k + 1]
  BY <1>1, TailFacts DEF TypeOK
<1>3. \A k \in 1 .. n : c2s[k] \in FrameSet
  BY <1>1 DEF TypeOK
<1>4. ASSUME NEW i \in 1 .. n PROVE Before(i)' = Before(i + 1)
  <2>1. i + 1 # 1 /\ (i + 1) - 1 = i
    BY <1>1
  <2>2. Before(i + 1) = After(c2s[i])
    BY <2>1 DEF Before
  <2>3. CASE i = 1
    BY <2>2, <2>3 DEF Before
  <2>4. CASE i # 1
    <3>1. i - 1 \in 1 .. n - 1 /\ (i - 1) + 1 = i
      BY <1>1, <2>4
    <3>2. c2s'[i - 1] = c2s[i]
      BY <1>2, <3>1
    <3> QED BY <2>2, <2>4, <3>2 DEF Before, After
  <2> QED BY <2>3, <2>4
<1>5. ASSUME NEW i \in 1 .. n - 1 PROVE FrameOK(c2s[i])' /\ Fits(Before(i), c2s[i])'
  <2>1. PICK j \in 1 .. n : j = i + 1 /\ 1 < j
    BY <1>1
  <2>2. PICK g : g = c2s[j]
    OBVIOUS
  <2>3. g \in FrameSet /\ FrameOK(g) /\ Fits(Before(j), g) /\ c2s'[i] = g
    BY <1>1, <1>2, <1>3, <2>1, <2>2 DEF Wire
  <2>4. Header(g) /\ Header(c2s[1]) => UnitOf(c2s[1]) < UnitOf(g)
    BY <1>1, <2>1, <2>2 DEF Wire
  <2>5. FrameOK(g)'
    BY <2>3, <2>4
  <2>6. Before(i)' = Before(j)
    BY <1>1, <1>4, <2>1
  <2>7. PICK q : q = Before(j)
    OBVIOUS
  <2>8. Fits(q, g)'
    BY <2>3, <2>7, FitsKept
  <2> QED BY <2>3, <2>5, <2>6, <2>7, <2>8 DEF Fits, FrameOK
<1>6. ASSUME NEW i \in 1 .. n - 1, NEW j \in 1 .. n - 1, i < j,
             Header(c2s'[i]), Header(c2s'[j])
      PROVE  UnitOf(c2s'[i]) < UnitOf(c2s'[j])
  <2>1. PICK k \in 1 .. n, l \in 1 .. n : k = i + 1 /\ l = j + 1 /\ k < l
    BY <1>1, <1>6
  <2>2. c2s'[i] = c2s[k] /\ c2s'[j] = c2s[l]
    BY <1>2, <2>1
  <2> QED BY <1>1, <1>6, <2>1, <2>2 DEF Wire
<1>7. Wire'
  BY <1>2, <1>5, <1>6 DEF Wire, Header, UnitOf
<1>8. Before(n)' = Before(n + 1)
  BY <1>1, <1>4
<1> QED BY <1>1, <1>2, <1>7, <1>8 DEF Before

-----------------------------------------------------------------------------
(* What a step that leaves a part of the state alone cannot disturb *)

LEMMA HandRunning ==
  ASSUME TypeOK, Hand, cw \in Running, cw' \in Running \cup {"finished", "failed"},
         UNCHANGED <<sv, link, mode_, acceptMode, rejected>>
  PROVE  Hand'
  BY DEF Hand, Running, Shaking

LEMMA DiskKept ==
  ASSUME TypeOK, Disk, UNCHANGED <<su, disk, received, rejected>>, short \subseteq short',
         cur <= cur', cur' \in Nat, sv' = "blocks" => sv = "blocks" /\ got' = got
  PROVE  Disk'
<1>1. su' <= cur'
  BY DEF Disk, TypeOK
<1>2. NoMisrouting' /\ OkMeansComplete' /\ RejectedNeverWritten'
  BY DEF Disk, NoMisrouting, OkMeansComplete, RejectedNeverWritten
<1> QED BY <1>1, <1>2 DEF Disk

LEMMA ToldKept ==
  ASSUME Told, UNCHANGED <<skipped, rejected, done, cur>>, cw' = "blocks" => cw = "blocks"
  PROVE  Told'
  BY DEF Told, VerdictsAgree

\* Nothing more is promised of a client that has ended.
LEMMA Ended ==
  ASSUME cw' \notin Running
  PROVE  Queue' /\ Batch' /\ Judgement' /\ OnTheWay' /\ Unanswered'
  BY DEF Queue, Batch, Judgement, OnTheWay, Unanswered

LEMMA QueueKept ==
  ASSUME Queue, UNCHANGED <<cw, tasks, given, cur, acceptMode, nextKey, rejected>>
  PROVE  Queue'
  BY DEF Queue

LEMMA BatchKept ==
  ASSUME Batch, UNCHANGED <<cw, nextKey, pending, ri, acceptMode, cur>>
  PROVE  Batch' /\ Base' = Base /\ Judged' = Judged
  BY DEF Batch, Base, Judged

LEMMA MeetKept ==
  ASSUME Meet, UNCHANGED <<link, cw, cur, sent, c2s>>, Here' = Here
  PROVE  Meet'
  BY DEF Meet, There, Before, After

LEMMA JudgementKept ==
  ASSUME Judgement, UNCHANGED <<cw, pending, ri, rejected, accepted, cur>>
  PROVE  Judgement'
  BY DEF Judgement, Judged, Verdict

LEMMA OnTheWayKept ==
  ASSUME OnTheWay, UNCHANGED <<cw, nextKey, pending, ri, rejected, accepted, cur, s2c>>
  PROVE  OnTheWay'
  BY DEF OnTheWay, Base, Judged, Verdict

LEMMA UnansweredKept ==
  ASSUME Unanswered, UNCHANGED <<cw, nextKey, pending, ri, s2c, c2s, sv>>
  PROVE  Unanswered'
  BY DEF Unanswered, Base, Judged

-----------------------------------------------------------------------------
(* The first state and the handshake *)

LEMMA UploadInit == Init => UploadInv
<1> SUFFICES ASSUME Init PROVE UploadInv
  OBVIOUS
<1>1. /\ c2s \in Seq(FrameSet) /\ Len(c2s) = 0 /\ s2c \in Seq(Replies) /\ Len(s2c) = 0
      /\ tasks \in Seq(Nat) /\ pending \in Seq(PendingRec) /\ got \in Seq(BlockSet)
      /\ DOMAIN accepted = {}
  BY DEF Init, NoKeys
<1>2. acceptMode \in BOOLEAN /\ mode_ \in BOOLEAN
  BY DEF Init
<1>3. disk \in [Unit -> Seq(BlockSet)]
  BY NoFileFacts DEF Init
<1>4. TypeOK
  BY <1>1, <1>2, <1>3, UploadAssumption DEF Init, TypeOK, ClientPc, kMinProtocolVersion, kProtocolVersion
<1>5. Hand
  BY <1>1 DEF Init, Hand, Blank, Shaking, Running
<1>6. Queue /\ Batch /\ Judgement /\ OnTheWay /\ Unanswered /\ Wire /\ Meet
  BY <1>1 DEF Init, Queue, Batch, Judgement, OnTheWay, Unanswered, Running, Wire, Meet
<1>7. Disk
  BY DEF Init, Disk, NoMisrouting, OkMeansComplete, RejectedNeverWritten
<1>8. Told
  BY DEF Init, Told, VerdictsAgree
<1> QED BY <1>4, <1>5, <1>6, <1>7, <1>8 DEF UploadInv

\* The steps of the network thread.
LEMMA ReachStep ==
  ASSUME UploadInv, tcpDial \/ socks5Connect \/ TlsHandshake
  PROVE  UploadInv'
<1>1. /\ UNCHANGED <<agreed, given, tasks, nextKey, pending, ri, cur, sent, short, done,
                     skipped, accepted, su, got, disk, received, rejected>>
      /\ cw \in {"dial", "proxy", "tls"}
  BY DEF tcpDial, socks5Connect, TlsHandshake
<1>2. \/ /\ cw \in {"dial", "proxy"} /\ Reached /\ cw' \in {"tls", "connect"}
      \/ cw = "dial" /\ cw' = "proxy" /\ UNCHANGED <<c2s, s2c, link, sv>>
      \/ cw = "tls" /\ cw' = "connect" /\ UNCHANGED <<c2s, s2c, link, sv>>
      \/ InitFails
  BY DEF tcpDial, socks5Connect, TlsHandshake, Wrapped
<1>3. Blank /\ Blank' /\ sv # "blocks" /\ sv' # "blocks"
  <2>1. Blank /\ sv # "blocks"
    BY <1>1 DEF UploadInv, Hand, Shaking
  <2> QED BY <1>1, <1>2, <2>1 DEF Blank, Reached, InitFails
<1>4. TypeOK'
  <2>1. <<>> \in Seq(FrameSet) /\ <<>> \in Seq(Replies)
    OBVIOUS
  <2>2. c2s' \in Seq(FrameSet) /\ s2c' \in Seq(Replies)
    BY <1>2, <2>1 DEF UploadInv, TypeOK, Reached, InitFails
  <2>3. /\ link' \in {"up", "down"} /\ sv' \in {"hello", "unit", "blocks", "closed"}
        /\ cw' \in ClientPc
    BY <1>2 DEF UploadInv, TypeOK, Reached, InitFails, ClientPc
  <2> QED BY <1>1, <2>2, <2>3 DEF agreed, fixed, UploadInv, TypeOK
<1>5. Disk' /\ Told'
  <2>1. cur' = cur /\ cur \in Nat
    BY <1>1 DEF UploadInv, TypeOK
  <2>2. cw' # "blocks"
    BY <1>2 DEF InitFails
  <2> QED BY <1>1, <1>3, <2>1, <2>2, DiskKept, ToldKept DEF UploadInv
<1>6. cw' \notin Running
  BY <1>2 DEF InitFails, Running
<1>7. Queue' /\ Batch' /\ Judgement' /\ OnTheWay' /\ Unanswered'
  BY <1>6, Ended
<1>8. Hand' /\ Wire' /\ Meet'
  <2>1. CASE Reached /\ cw' \in {"tls", "connect"}
    <3>1. /\ link' = "up" /\ sv' = "hello" /\ c2s' = <<>> /\ s2c' = <<>> /\ Len(c2s') = 0
          /\ UNCHANGED <<mode_, rejected>>
      BY <1>1, <2>1 DEF Reached, agreed
    <3>2. Hand'
      BY <1>3, <2>1, <3>1 DEF UploadInv, Hand, Running, Shaking
    <3>3. Wire'
      BY <3>1 DEF Wire
    <3>4. Before(Len(c2s) + 1)' = Place("hello", 0, 0)
      BY <3>1 DEF Before, Here
    <3>5. There' = Place("hello", 0, 0)
      BY <2>1 DEF There
    <3> QED BY <3>2, <3>3, <3>4, <3>5 DEF Meet
  <2>2. CASE /\ UNCHANGED <<c2s, s2c, sv>>
             /\ \/ cw = "dial" /\ cw' = "proxy" /\ link' = link
                \/ cw = "tls" /\ cw' = "connect" /\ link' = link
                \/ cw' = "failed" /\ link' = "down"
    <3>1. link' = link \/ (link' = "down" /\ cw' = "failed")
      BY <2>2
    <3>2. cw' = "failed" \/ (cw = "dial" /\ cw' = "proxy") \/ (cw = "tls" /\ cw' = "connect")
      BY <2>2
    <3>3. Hand'
      BY <1>1, <1>3, <2>2, <3>1, <3>2 DEF UploadInv, Hand, Running, Shaking, agreed
    <3>4. Here' = Here /\ integrity' = integrity /\ short' = short /\ sv' = sv
      BY <1>1, <2>2 DEF Here, agreed, fixed
    <3>5. FrameKept
      BY <1>1 DEF FrameKept, FrameOK, agreed
    <3>6. Wire'
      BY <2>2, <3>4, <3>5, WirePrefix, EmptyFacts DEF UploadInv, TypeOK
    <3>7. Meet'
      <4>1. CASE link' = link /\ cw' # "failed"
        <5>1. link = "down" \/ (cw = "tls" /\ cw' = "connect")
          BY <3>2, <4>1 DEF UploadInv, Hand, TypeOK
        <5>2. CASE link = "down"
          BY <4>1, <5>2 DEF Meet
        <5>3. CASE cw = "tls" /\ cw' = "connect"
          BY <2>2, <3>4, <4>1, <5>3 DEF UploadInv, Meet, There, Before, After
        <5> QED BY <5>1, <5>2, <5>3
      <4>2. CASE cw' = "failed"
        BY <4>2 DEF Meet
      <4> QED BY <3>1, <4>1, <4>2
    <3> QED BY <3>3, <3>6, <3>7
  <2> QED BY <1>2, <2>1, <2>2 DEF InitFails
<1> QED BY <1>4, <1>5, <1>7, <1>8 DEF UploadInv

LEMMA HelloStep ==
  ASSUME UploadInv, Hello
  PROVE  UploadInv'
<1>0. PICK h : h = Frame("hello", cver, 0, <<>>)
  OBVIOUS
<1>1. /\ UNCHANGED <<agreed, given, tasks, nextKey, pending, ri, cur, sent, short, done,
                     skipped, s2c, link, server>>
      /\ cw = "connect"
      /\ (Enqueued(h) /\ cw' = "shake") \/ (EnqueueFails /\ cw' = "failed")
  BY <1>0 DEF Hello
<1>2. /\ Blank /\ s2c = <<>> /\ c2s = <<>> /\ sv \in {"hello", "closed"} /\ Len(c2s) = 0
      /\ (link = "up" => sv = "hello") /\ (~mode_ => rejected = {})
  BY <1>1 DEF UploadInv, Hand, Shaking
<1>3. h \in FrameSet
  BY <1>0 DEF Frame, FrameSet, Kinds, Data, UploadInv, TypeOK
<1>4. /\ c2s' \in Seq(FrameSet)
      /\ Len(c2s') <= 1 /\ Len(c2s') \in Nat
      /\ \A i \in 1 .. Len(c2s') : c2s'[i] = h /\ sv = "hello"
      /\ link = "up" /\ cw' # "failed" => Len(c2s') = 1
  <2>1. CASE c2s' = c2s /\ (cw' # "failed" => link # "up")
    BY <1>2, <2>1 DEF UploadInv, TypeOK
  <2>2. CASE c2s' = Append(c2s, h) /\ link = "up"
    BY <1>2, <1>3, <2>2, AppendFacts DEF UploadInv, TypeOK
  <2> QED BY <1>1, <2>1, <2>2 DEF Enqueued, EnqueueFails
<1>5. TypeOK'
  BY <1>1, <1>4 DEF agreed, fixed, server, UploadInv, TypeOK, ClientPc
<1>6. UNCHANGED <<su, disk, received, rejected, short, cur, sv, got, skipped, done, mode_, cver,
                  acceptMode, link, s2c>> /\ cur \in Nat /\ cw' \in {"shake", "failed"}
  BY <1>1 DEF server, agreed, UploadInv, TypeOK
<1>7. Disk' /\ Told'
  BY <1>6, DiskKept, ToldKept DEF UploadInv
<1>8. Queue' /\ Batch' /\ Judgement' /\ OnTheWay' /\ Unanswered'
  BY <1>6, Ended DEF Running
<1>9. Blank'
  BY <1>1, <1>2 DEF Blank, server
<1>10. Hand'
  BY <1>2, <1>4, <1>6, <1>9 DEF Hand, Running, Shaking
<1>11. Wire'
  <2>1. h.kind = "hello" /\ h.key = cver
    BY <1>0 DEF Frame
  <2>2. FrameOK(h)'
    BY <1>6, <2>1 DEF FrameOK
  <2>3. \A i \in 1 .. Len(c2s') : i = 1 /\ c2s'[i] = h /\ sv = "hello"
    BY <1>4
  <2>4. Here' = Place("hello", 0, 0) \/ sv # "hello"
    BY <1>6 DEF Here
  <2>5. \A i \in 1 .. Len(c2s') : Fits(Before(i), c2s[i])'
    BY <2>1, <2>3, <2>4 DEF Fits, Before, Place
  <2>6. \A i \in 1 .. Len(c2s') : FrameOK(c2s[i])'
    BY <2>2, <2>3 DEF FrameOK
  <2>7. \A i, j \in 1 .. Len(c2s') : i = j
    BY <2>3
  <2> QED BY <2>5, <2>6, <2>7 DEF Wire
<1>12. Meet'
  <2> SUFFICES ASSUME link = "up", cw' = "shake" PROVE There' = Before(Len(c2s) + 1)'
    BY <1>6 DEF Meet
  <2>1. Len(c2s') = 1 /\ c2s'[1] = h /\ h.kind = "hello"
    BY <1>0, <1>4 DEF Frame
  <2>2. Before(Len(c2s) + 1)' = Between
    BY <2>1 DEF Before, After
  <2>3. There' = Between
    BY DEF There
  <2> QED BY <2>2, <2>3
<1> QED BY <1>5, <1>7, <1>8, <1>10, <1>11, <1>12 DEF UploadInv

\* The server's answer.
LEMMA GreetStep ==
  ASSUME UploadInv, Greet
  PROVE  UploadInv'
<1> DEFINE version == Head(c2s).key
<1>1. PICK status \in Status(version) :
        /\ Reply([status |-> status, mode |-> status = "ok" /\ version >= 2 /\ mode_for(version)])
        /\ mode_' = (status = "ok" /\ mode_for(version))
        /\ IF status = "ok" THEN sv' = "unit" /\ link' = link ELSE Leave
  BY DEF Greet
<1>2. /\ sv = "hello" /\ c2s # <<>> /\ Head(c2s).kind = "hello" /\ c2s' = Tail(c2s)
      /\ UNCHANGED <<fixed, cver, acceptMode, given, client, accepted, su, got, disk,
                     received, rejected>>
  BY DEF Greet, At, Took
<1>3. /\ Blank /\ s2c = <<>> /\ Len(c2s) <= 1 /\ cw \in {"shake", "failed"}
      /\ (link = "up" => sv # "closed")
  BY <1>2 DEF UploadInv, Hand
<1>4. /\ Len(c2s) = 1 /\ Len(c2s') = 0 /\ c2s' \in Seq(FrameSet)
      /\ Head(c2s) = c2s[1]
  <2>1. PICK n \in Nat : n = Len(c2s) /\ n >= 1 /\ Len(c2s') = n - 1
    BY <1>2, TailFacts DEF UploadInv, TypeOK
  <2>2. n = 1
    BY <1>3, <2>1
  <2>3. c2s' \in Seq(FrameSet) /\ Head(c2s) = c2s[1]
    BY <1>2, TailFacts DEF UploadInv, TypeOK
  <2> QED BY <2>1, <2>2, <2>3
<1>5. version = cver
  BY <1>2, <1>4 DEF UploadInv, Wire, FrameOK
<1>6. status \in {"ok", "BadVersion", "error"}
  BY DEF Status
<1>7. PICK m \in ShakeReply :
        /\ m.status = status /\ (status = "ok" => (m.mode <=> mode_') /\ (mode_' => cver >= 2))
        /\ s2c' = IF link = "up" THEN Append(s2c, m) ELSE s2c
  <2>1. PICK b \in BOOLEAN : b = (status = "ok" /\ version >= 2 /\ mode_for(version))
    OBVIOUS
  <2>2. [status |-> status, mode |-> b] \in ShakeReply
    BY <1>6 DEF ShakeReply
  <2>3. status = "ok" => (b <=> mode_') /\ (mode_' => cver >= 2)
    BY <1>1, <1>5, <2>1 DEF mode_for
  <2>4. s2c' = IF link = "up" THEN Append(s2c, [status |-> status, mode |-> b]) ELSE s2c
    BY <1>1, <2>1 DEF Reply
  <2> QED BY <2>2, <2>3, <2>4
<1>8. mode_' \in BOOLEAN
  BY <1>1
<1>9. /\ s2c' \in Seq(Replies)
      /\ s2c' # <<>> => Len(s2c') = 1 /\ s2c'[1] = m
  <2>1. m \in Replies /\ Len(s2c) = 0 /\ s2c \in Seq(Replies)
    BY <1>3 DEF Replies, UploadInv, TypeOK
  <2>2. Append(s2c, m) \in Seq(Replies) /\ Len(Append(s2c, m)) = 1 /\ Append(s2c, m)[1] = m
    BY <2>1, AppendFacts
  <2> QED BY <1>3, <1>7, <2>1, <2>2
<1>10. /\ sv' = "unit" \/ sv' = "closed"
       /\ link' \in {"up", "down"} /\ (link' = "up" => sv' = "unit")
       /\ status # "ok" => sv' = "closed"
  BY <1>1 DEF Leave, UploadInv, TypeOK
<1>11. UNCHANGED <<cw, tasks, nextKey, pending, ri, cur, sent, short, done, skipped>>
  BY <1>2 DEF client
<1>12. TypeOK'
  BY <1>2, <1>4, <1>8, <1>9, <1>10, <1>11 DEF UploadInv, TypeOK
<1>13. Disk' /\ Told'
  <2>1. cur \in Nat
    BY DEF UploadInv, TypeOK
  <2> QED BY <1>2, <1>10, <1>11, <2>1, DiskKept, ToldKept DEF UploadInv
<1>14. Queue' /\ Batch' /\ Judgement' /\ OnTheWay' /\ Unanswered'
  BY <1>3, <1>11, Ended DEF Running
<1>15. Blank' /\ rejected' = {}
  BY <1>2, <1>3, <1>11 DEF Blank
<1>16. Hand'
  BY <1>2, <1>3, <1>7, <1>9, <1>10, <1>11, <1>15 DEF Hand, Running, Shaking
<1>17. Wire'
  BY <1>4 DEF Wire
<1>18. Meet'
  <2> SUFFICES ASSUME link' = "up", cw' = "shake" PROVE There' = Before(Len(c2s) + 1)'
    BY <1>3, <1>11 DEF Meet
  <2>1. There' = Between
    BY DEF There
  <2>2. Here' = Between
    BY <1>10 DEF Here, Between
  <2> QED BY <1>4, <2>1, <2>2 DEF Before
<1> QED BY <1>12, <1>13, <1>14, <1>16, <1>17, <1>18 DEF UploadInv

\* The client reads the answer.
LEMMA ShakenStep ==
  ASSUME UploadInv, Shaken
  PROVE  UploadInv'
<1>1. /\ cw = "shake" /\ s2c # <<>> /\ s2c' = Tail(s2c)
      /\ UNCHANGED <<fixed, cver, mode_, given, tasks, nextKey, pending, ri, cur, sent, short,
                     done, skipped, c2s, link, server>>
  BY DEF Shaken
<1>2. /\ Blank /\ Len(s2c) = 1 /\ s2c[1] \in ShakeReply
      /\ s2c[1].status = "ok" => (s2c[1].mode <=> mode_) /\ (mode_ => cver >= 2)
      /\ s2c[1].status # "ok" => sv = "closed"
      /\ sv \in {"unit", "closed"} /\ (link = "up" => sv # "closed")
      /\ (~mode_ => rejected = {})
  BY <1>1 DEF UploadInv, Hand, Shaking, TypeOK
<1>3. Head(s2c) = s2c[1] /\ s2c' \in Seq(Replies) /\ Len(s2c') = 0
  <2>1. s2c \in Seq(Replies)
    BY DEF UploadInv, TypeOK
  <2>2. Head(s2c) = s2c[1] /\ s2c' \in Seq(Replies) /\ Len(s2c') = Len(s2c) - 1
    BY <1>1, <2>1, TailFacts
  <2> QED BY <1>2, <2>2
<1>4. \/ /\ s2c[1].status = "ok" /\ cw' = "idle" /\ acceptMode' = (cver >= 2 /\ s2c[1].mode)
      \/ s2c[1].status # "ok" /\ cw' \in {"again", "failed"} /\ acceptMode' = acceptMode
  BY <1>3 DEF Shaken
<1>5. acceptMode' \in BOOLEAN /\ (cw' = "idle" => (acceptMode' <=> mode_))
  BY <1>2, <1>4 DEF UploadInv, TypeOK
<1>6. UNCHANGED <<su, disk, received, rejected, sv, got, accepted, integrity>>
  BY <1>1 DEF server, fixed
<1>7. TypeOK'
  <2>1. cw' \in ClientPc
    BY <1>4 DEF ClientPc
  <2> QED BY <1>1, <1>3, <1>5, <1>6, <2>1 DEF UploadInv, TypeOK
<1>8. Disk' /\ Told'
  <2>1. cur \in Nat /\ cw' # "blocks"
    BY <1>4 DEF UploadInv, TypeOK
  <2> QED BY <1>1, <1>6, <2>1, DiskKept, ToldKept DEF UploadInv
<1>9. Blank'
  BY <1>1, <1>2, <1>6 DEF Blank
<1>10. Hand'
  BY <1>1, <1>2, <1>4, <1>5, <1>6, <1>9 DEF Hand, Running, Shaking
<1>11. FrameKept /\ Here' = Here
  BY <1>1, <1>6 DEF FrameKept, FrameOK, Here
<1>12. Wire'
  BY <1>1, <1>6, <1>11, WirePrefix, EmptyFacts DEF UploadInv, TypeOK
<1>13. Meet'
  <2>1. CASE cw' = "idle"
    <3>1. There' = There
      BY <1>1, <2>1 DEF There
    <3> QED BY <1>1, <1>11, <3>1 DEF UploadInv, Meet, Before, After
  <2>2. CASE cw' # "idle"
    BY <1>1, <1>2, <1>4, <2>2 DEF Meet
  <2> QED BY <2>1, <2>2
<1>14. Queue' /\ Batch' /\ Judgement' /\ OnTheWay' /\ Unanswered'
  <2>1. CASE cw' = "idle"
    <3>1. /\ Len(tasks') = 0 /\ Len(pending') = 0 /\ given' = 0 /\ cur' = 0 /\ nextKey' = 0
          /\ rejected' = {}
      BY <1>9 DEF Blank
    <3>2. Base' = 0 /\ Judged' = 0
      BY <2>1, <3>1 DEF Base, Judged
    <3>3. Queue' /\ Batch' /\ Judgement' /\ OnTheWay'
      BY <1>3, <2>1, <3>1, <3>2 DEF Queue, Batch, Judgement, OnTheWay
    <3>4. \A i \in 1 .. Len(c2s') : sv' # "closed" => c2s'[i].kind # "probe"
      BY <1>12, <3>1 DEF Wire, FrameOK, Unit
    <3> QED BY <3>3, <3>4 DEF Unanswered
  <2>2. CASE cw' # "idle"
    <3>1. cw' \notin Running
      BY <1>4, <2>2 DEF Running
    <3> QED BY <3>1, Ended
  <2> QED BY <2>1, <2>2
<1> QED BY <1>7, <1>8, <1>10, <1>12, <1>13, <1>14 DEF UploadInv

\* The handshake fails, or is tried once more.
LEMMA ShakeEndStep ==
  ASSUME UploadInv, Reconnect \/ ShakeFails
  PROVE  UploadInv'
<1>1. /\ UNCHANGED <<fixed, acceptMode, mode_, given, tasks, nextKey, pending, ri, cur, sent,
                     short, done, skipped, c2s, s2c, server>>
      /\ \/ cw = "again" /\ cw' = "dial" /\ link' = "down" /\ cver' = 1
         \/ cw = "shake" /\ cw' = "failed" /\ link' = link /\ cver' = cver
  BY DEF Reconnect, ShakeFails, kMinProtocolVersion, agreed
<1>2. /\ Blank /\ (cw = "again" => sv = "closed") /\ sv # "blocks"
      /\ (sv = "hello" => s2c = <<>> /\ Len(c2s) <= 1)
      /\ (link = "up" => sv # "closed") /\ (~mode_ => rejected = {})
  BY <1>1 DEF UploadInv, Hand, Shaking
<1>3. UNCHANGED <<su, disk, received, rejected, sv, got, accepted, integrity>>
  BY <1>1 DEF server, fixed
<1>4. TypeOK'
  BY <1>1, <1>3 DEF UploadInv, TypeOK, ClientPc
<1>5. Disk' /\ Told'
  <2>1. cur \in Nat /\ cw' # "blocks"
    BY <1>1 DEF UploadInv, TypeOK
  <2> QED BY <1>1, <1>3, <2>1, DiskKept, ToldKept DEF UploadInv
<1>6. Blank'
  BY <1>1, <1>2, <1>3 DEF Blank
<1>7. Hand'
  BY <1>1, <1>2, <1>3, <1>6 DEF Hand, Running, Shaking
<1>8. Wire'
  <2>1. CASE sv = "closed"
    BY <1>3, <2>1 DEF Wire
  <2>2. CASE sv # "closed"
    <3>1. FrameKept /\ Here' = Here
      BY <1>1, <1>2, <1>3, <2>2 DEF FrameKept, FrameOK, Here
    <3> QED BY <1>1, <1>3, <3>1, WirePrefix, EmptyFacts DEF UploadInv, TypeOK
  <2> QED BY <2>1, <2>2
<1>9. Meet'
  BY <1>1 DEF Meet
<1>10. Queue' /\ Batch' /\ Judgement' /\ OnTheWay' /\ Unanswered'
  BY <1>1, Ended DEF Running
<1> QED BY <1>4, <1>5, <1>7, <1>8, <1>9, <1>10 DEF UploadInv

-----------------------------------------------------------------------------
(* The client's worker *)

\* A step of the worker that sends nothing.
LEMMA QuietStep ==
  ASSUME UploadInv, cw \in Running, cw' \in Running \cup {"finished", "failed"},
         UNCHANGED <<agreed, server, link, c2s>>, short \subseteq short',
         cur <= cur', cur' \in Nat, FrameKept
  PROVE  Hand' /\ Wire' /\ Disk' /\ Here' = Here
<1>1. UNCHANGED <<sv, su, got, disk, received, rejected, mode_, acceptMode, integrity>>
  BY DEF server, agreed, fixed
<1>2. Here' = Here
  BY <1>1 DEF Here
<1>3. Wire'
  <2>1. c2s' \in Seq(FrameSet) /\ Len(c2s) \in Nat /\ TypeOK /\ Wire
    BY DEF UploadInv, TypeOK
  <2>2. PICK n \in Nat : n = Len(c2s)
    BY <2>1
  <2> QED BY <1>1, <1>2, <2>1, <2>2, WirePrefix
<1>4. Hand'
  BY <1>1, HandRunning DEF UploadInv
<1>5. Disk'
  BY <1>1, DiskKept DEF UploadInv
<1> QED BY <1>2, <1>3, <1>4, <1>5

\* A step of the worker that sends f.
LEMMA SendStep ==
  ASSUME UploadInv, cw \in Running, cw' \in Running \cup {"finished"},
         NEW f \in FrameSet, Enqueued(f),
         UNCHANGED <<agreed, server, link>>, short \subseteq short',
         cur <= cur', cur' \in Nat, FrameKept,
         NEW p, p = There, Fits(p, f)', link = "up" => FrameOK(f)',
         link = "up" /\ Header(f) =>
           \A i \in 1 .. Len(c2s) : Header(c2s[i]) => UnitOf(c2s[i]) < UnitOf(f),
         There' = After(f) \/ cw' = "finished"
  PROVE  /\ Hand' /\ Wire' /\ Disk' /\ Meet' /\ c2s' \in Seq(FrameSet)
         /\ \A i \in 1 .. Len(c2s') : \/ c2s'[i] = f /\ link = "up"
                                      \/ i \in 1 .. Len(c2s) /\ c2s'[i] = c2s[i]
<1>1. UNCHANGED <<sv, su, got, disk, received, rejected, mode_, acceptMode, integrity>>
  BY DEF server, agreed, fixed
<1>2. Here' = Here
  BY <1>1 DEF Here
<1>3. Hand'
  BY <1>1, HandRunning DEF UploadInv
<1>4. Disk'
  BY <1>1, DiskKept DEF UploadInv
<1>5. CASE link = "up"
  <2>1. c2s' = Append(c2s, f) /\ sv # "closed" /\ cw \notin {"failed", "finished"}
    BY <1>5 DEF Enqueued, UploadInv, Hand, Running
  <2>2. Wire' /\ Before(Len(c2s) + 1)' = After(f)
    BY <1>1, <1>2, <1>5, <2>1, WireAppend DEF UploadInv
  <2>3. Meet'
    BY <2>2 DEF Meet
  <2>4. /\ c2s' \in Seq(FrameSet) /\ Len(c2s) \in Nat
        /\ Len(c2s') = Len(c2s) + 1 /\ c2s'[Len(c2s) + 1] = f
        /\ \A k \in 1 .. Len(c2s) : c2s'[k] = c2s[k]
    BY <2>1, AppendFacts DEF UploadInv, TypeOK
  <2> QED BY <1>3, <1>4, <1>5, <2>2, <2>3, <2>4
<1>6. CASE link # "up"
  <2>1. c2s' = c2s
    BY <1>6 DEF Enqueued
  <2>2. Wire'
    <3>1. c2s' \in Seq(FrameSet) /\ Len(c2s) \in Nat /\ TypeOK /\ Wire
      BY <2>1 DEF UploadInv, TypeOK
    <3>2. PICK n \in Nat : n = Len(c2s)
      BY <3>1
    <3> QED BY <1>1, <1>2, <2>1, <3>1, <3>2, WirePrefix
  <2>3. Meet'
    BY <1>6 DEF Meet
  <2> QED BY <1>3, <1>4, <2>1, <2>2, <2>3 DEF UploadInv, TypeOK
<1> QED BY <1>5, <1>6

\* The worker gives up: what is under way stays as it is.
LEMMA FailStep ==
  ASSUME UploadInv, TypeOK', Told', cw \in Running, cw' = "failed",
         UNCHANGED <<agreed, server, link, c2s>>, short \subseteq short',
         cur <= cur', FrameKept
  PROVE  UploadInv'
<1>1. cur' \in Nat
  BY DEF TypeOK
<1>2. Hand' /\ Wire' /\ Disk'
  BY <1>1, QuietStep
<1>3. Queue' /\ Batch' /\ Judgement' /\ OnTheWay' /\ Unanswered'
  BY Ended DEF Running
<1>4. Meet'
  BY DEF Meet
<1> QED BY <1>2, <1>3, <1>4 DEF UploadInv

LEMMA GiveStep ==
  ASSUME UploadInv, Give
  PROVE  UploadInv'
<1>1. /\ given < Units /\ cw \in Running \cup {"finished"}
      /\ given' = given + 1 /\ tasks' = Append(tasks, given + 1)
      /\ UNCHANGED <<agreed, short, cw, nextKey, pending, ri, cur, sent, done, skipped,
                     c2s, s2c, link, server>>
  BY DEF Give, UploadInv, TypeOK, ClientPc, Running
<1>2. UNCHANGED <<sv, su, got, disk, received, rejected, accepted, mode_, acceptMode,
                  integrity, cver>>
  BY <1>1 DEF server, agreed, fixed
<1>3. PICK n \in Nat : /\ n = Len(tasks) /\ Len(tasks') = n + 1 /\ tasks' \in Seq(Nat)
                       /\ tasks'[n + 1] = given + 1 /\ \A k \in 1 .. n : tasks'[k] = tasks[k]
  <2>1. given + 1 \in Nat /\ tasks \in Seq(Nat)
    BY DEF UploadInv, TypeOK
  <2>2. PICK x \in Nat : x = given + 1
    BY <2>1
  <2>3. /\ Append(tasks, x) \in Seq(Nat) /\ Len(tasks) \in Nat
        /\ Len(Append(tasks, x)) = Len(tasks) + 1 /\ Append(tasks, x)[Len(tasks) + 1] = x
        /\ \A k \in 1 .. Len(tasks) : Append(tasks, x)[k] = tasks[k]
    BY <2>1, <2>2, AppendFacts
  <2> QED BY <1>1, <2>2, <2>3
<1>4. given \in Nat /\ given' \in 0 .. Units /\ cur \in Nat
  BY <1>1, UploadAssumption DEF UploadInv, TypeOK
<1>5. TypeOK'
  BY <1>1, <1>2, <1>3, <1>4 DEF UploadInv, TypeOK
<1>6. Queue'
  <2> SUFFICES ASSUME cw \in Running
               PROVE  /\ n + 1 <= given + 1
                      /\ \A j \in 1 .. n + 1 : tasks'[j] = (given + 1) - (n + 1) + j
                      /\ cur <= (given + 1) - (n + 1)
                      /\ acceptMode => nextKey = (given + 1) - (n + 1)
                      /\ ~acceptMode => nextKey = 0
                      /\ \A u \in rejected : u <= nextKey
    BY <1>1, <1>2, <1>3 DEF Queue
  <2>1. /\ n <= given /\ \A j \in 1 .. n : tasks[j] = given - n + j
        /\ cur <= given - n /\ (acceptMode => nextKey = given - n) /\ (~acceptMode => nextKey = 0)
        /\ \A u \in rejected : u <= nextKey
    BY <1>3 DEF UploadInv, Queue
  <2>2. (given + 1) - (n + 1) = given - n /\ n + 1 <= given + 1
    BY <1>3, <1>4, <2>1
  <2>3. ASSUME NEW j \in 1 .. n + 1 PROVE tasks'[j] = given - n + j
    <3>1. CASE j = n + 1
      BY <1>3, <1>4, <3>1
    <3>2. CASE j # n + 1
      <4>1. j \in 1 .. n
        BY <1>3, <3>2
      <4> QED BY <1>3, <2>1, <4>1
    <3> QED BY <3>1, <3>2
  <2> QED BY <2>1, <2>2, <2>3
<1>7. Batch' /\ Judgement' /\ OnTheWay' /\ Unanswered'
  BY <1>1, <1>2, BatchKept, JudgementKept, OnTheWayKept, UnansweredKept DEF UploadInv
<1>8. FrameKept /\ Here' = Here
  BY <1>1, <1>2 DEF FrameKept, FrameOK, Here
<1>9. Wire' /\ Meet'
  BY <1>1, <1>2, <1>8, WirePrefix, MeetKept, EmptyFacts DEF UploadInv, TypeOK
<1>10. Disk' /\ Told'
  BY <1>1, <1>2, <1>4, DiskKept, ToldKept DEF UploadInv
<1>11. Hand'
  BY <1>1, <1>2 DEF UploadInv, Hand, Running, Shaking
<1> QED BY <1>5, <1>6, <1>7, <1>9, <1>10, <1>11 DEF UploadInv

\* The unit at the head of the queue, and the keys of the batch, in numbers.
LEMMA HeadOfQueue ==
  ASSUME UploadInv, cw \in Running, tasks # <<>>, tasks' = Tail(tasks)
  PROVE  /\ Len(tasks) \in Nat /\ Len(tasks) >= 1 /\ tasks' \in Seq(Nat)
         /\ Len(tasks') = Len(tasks) - 1
         /\ given \in Nat /\ Len(tasks) <= given /\ given <= Units
         /\ Head(tasks) = given - Len(tasks) + 1 /\ Head(tasks) \in Unit
         /\ \A j \in 1 .. Len(tasks') : tasks'[j] = given - Len(tasks') + j
<1>1. PICK n \in Nat : /\ n = Len(tasks) /\ n >= 1 /\ tasks' \in Seq(Nat) /\ Len(tasks') = n - 1
                       /\ Head(tasks) = tasks[1] /\ \A k \in 1 .. n - 1 : tasks'[k] = tasks[k + 1]
  <2>1. tasks \in Seq(Nat)
    BY DEF UploadInv, TypeOK
  <2>2. /\ Tail(tasks) \in Seq(Nat) /\ Len(tasks) \in Nat /\ Len(tasks) >= 1
        /\ Head(tasks) = tasks[1] /\ Len(Tail(tasks)) = Len(tasks) - 1
        /\ \A k \in 1 .. Len(tasks) - 1 : Tail(tasks)[k] = tasks[k + 1]
    BY <2>1, TailFacts
  <2> QED BY <2>2
<1>2. given \in Nat /\ given <= Units /\ Units \in Nat
  BY UploadAssumption DEF UploadInv, TypeOK
<1>3. n <= given /\ \A j \in 1 .. n : tasks[j] = given - n + j
  BY <1>1 DEF UploadInv, Queue
<1>4. Head(tasks) = given - n + 1
  BY <1>1, <1>3
<1>5. Head(tasks) \in Unit
  BY <1>1, <1>2, <1>3, <1>4 DEF Unit
<1>6. ASSUME NEW j \in 1 .. n - 1 PROVE tasks'[j] = given - (n - 1) + j
  <2>1. j + 1 \in 1 .. n /\ given - n + (j + 1) = given - (n - 1) + j
    BY <1>1, <1>2
  <2>2. tasks'[j] = tasks[j + 1]
    BY <1>1
  <2> QED BY <1>3, <2>1, <2>2
<1> QED BY <1>1, <1>2, <1>3, <1>4, <1>5, <1>6

LEMMA BatchNumbers ==
  ASSUME UploadInv, cw \in Running
  PROVE  /\ Len(pending) \in Nat /\ Base \in Nat /\ nextKey \in Nat /\ cur \in Nat /\ ri \in Nat
         /\ Base + Len(pending) = nextKey
         /\ Judged \in 0 .. Len(pending)
         /\ acceptMode => cur <= Base + Judged /\ cur <= nextKey
<1>1. Len(pending) \in Nat /\ nextKey \in Nat /\ cur \in Nat /\ ri \in Nat
  BY DEF UploadInv, TypeOK
<1>2. Len(pending) <= nextKey
  BY DEF UploadInv, Batch
<1>3. Base \in Nat /\ Base + Len(pending) = nextKey
  BY <1>1, <1>2 DEF Base
<1>4. /\ cw \in {"recv", "send"} => ri \in 1 .. Len(pending) + 1
      /\ acceptMode => /\ cw \in {"idle", "await", "recv"} => cur <= Base
                       /\ cw = "send" => cur <= Base + ri - 1
                       /\ cw = "blocks" => ri \in 1 .. Len(pending) /\ cur = Base + ri
  BY DEF UploadInv, Batch
<1>5. Judged \in 0 .. Len(pending)
  BY <1>1, <1>4 DEF Judged
<1>6. acceptMode => cur <= Base + Judged
  BY <1>1, <1>3, <1>4 DEF Judged, Running
<1> QED BY <1>1, <1>3, <1>5, <1>6

LEMMA ProbeStep ==
  ASSUME UploadInv, Probe
  PROVE  UploadInv'
<1>1. /\ acceptMode /\ cw = "idle" /\ tasks # <<>> /\ tasks' = Tail(tasks)
      /\ nextKey' = nextKey + 1
      /\ pending' = Append(pending, [key |-> nextKey, unit |-> Head(tasks), accepted |-> FALSE])
      /\ UNCHANGED <<agreed, given, short, ri, cur, sent, done, skipped, s2c, link, server>>
      /\ \/ Enqueued(Frame("probe", nextKey, Head(tasks), <<>>)) /\ cw' \in {"idle", "await"}
         \/ c2s' = c2s /\ cw' = "failed"
  BY DEF Probe, EnqueueFails
<1>2. UNCHANGED <<sv, su, got, disk, received, rejected, accepted, mode_, acceptMode,
                  integrity, cver>>
  BY <1>1 DEF server, agreed, fixed
<1>3. /\ Len(tasks) \in Nat /\ Len(tasks) >= 1 /\ tasks' \in Seq(Nat)
      /\ Len(tasks') = Len(tasks) - 1
      /\ given \in Nat /\ Len(tasks) <= given /\ given <= Units
      /\ Head(tasks) = given - Len(tasks) + 1 /\ Head(tasks) \in Unit
      /\ \A j \in 1 .. Len(tasks') : tasks'[j] = given - Len(tasks') + j
  BY <1>1, HeadOfQueue DEF Running
<1>4. nextKey = given - Len(tasks) /\ Head(tasks) = nextKey + 1 /\ nextKey \in Nat
  BY <1>1, <1>3 DEF UploadInv, Queue, Running
<1>5. /\ Base \in Nat /\ Base + Len(pending) = nextKey /\ cur \in Nat /\ cur <= Base
      /\ Len(pending) \in Nat /\ Judged = 0
  BY <1>1, BatchNumbers DEF UploadInv, Batch, Running, Judged
<1>6. PICK x \in PendingRec : /\ x.key = nextKey /\ x.unit = nextKey + 1
                              /\ pending' = Append(pending, x)
  <2>1. [key |-> nextKey, unit |-> nextKey + 1, accepted |-> FALSE] \in PendingRec
    BY <1>4 DEF PendingRec
  <2> QED BY <1>1, <1>4, <2>1
<1>7. /\ pending' \in Seq(PendingRec) /\ Len(pending') = Len(pending) + 1
      /\ pending'[Len(pending) + 1] = x /\ \A k \in 1 .. Len(pending) : pending'[k] = pending[k]
  BY <1>6, AppendFacts DEF UploadInv, TypeOK
<1>8. PICK f \in FrameSet : /\ f.kind = "probe" /\ f.key = nextKey /\ f.unit = nextKey + 1
                            /\ f = Frame("probe", nextKey, Head(tasks), <<>>)
  <2>1. Frame("probe", nextKey, nextKey + 1, <<>>) \in FrameSet
    BY <1>4 DEF Frame, FrameSet, Kinds, Data
  <2> QED BY <1>4, <2>1 DEF Frame
<1>9. FrameKept
  BY <1>1, <1>2, <1>4 DEF FrameKept, FrameOK, FrameSet, Unit
<1>10. Told'
  BY <1>1, <1>2, ToldKept DEF UploadInv
<1>11. CASE c2s' = c2s /\ cw' = "failed"
  <2>1. TypeOK'
    <3>1. cw' \in ClientPc /\ nextKey' \in Nat
      BY <1>1, <1>4, <1>11 DEF ClientPc
    <3>2. tasks' \in Seq(Nat) /\ pending' \in Seq(PendingRec)
      BY <1>3, <1>7
    <3> QED BY <1>1, <1>2, <1>11, <3>1, <3>2 DEF UploadInv, TypeOK
  <2> QED BY <1>1, <1>5, <1>9, <1>10, <1>11, <2>1, FailStep DEF Running
<1>12. CASE Enqueued(f) /\ cw' \in {"idle", "await"}
  <2>1. PICK p : p = There
    OBVIOUS
  <2>2. p = Between /\ There' = Between /\ After(f) = Between
    BY <1>1, <1>8, <1>12, <2>1 DEF There, After
  <2>3. Fits(p, f)'
    BY <1>8, <2>2 DEF Fits, Between, Place
  <2>4. FrameOK(f)'
    <3>1. mode_
      BY <1>1 DEF UploadInv, Hand, Running
    <3>2. nextKey + 1 \notin rejected
      BY <1>1, <1>4 DEF UploadInv, Queue, Running
    <3> QED BY <1>1, <1>2, <1>3, <1>4, <1>5, <1>8, <3>1, <3>2 DEF FrameOK
  <2>5. ASSUME link = "up", NEW i \in 1 .. Len(c2s), Header(c2s[i])
        PROVE  UnitOf(c2s[i]) < UnitOf(f)
    <3>1. mode_ /\ sv # "closed"
      BY <1>1, <2>5 DEF UploadInv, Hand, Running
    <3>2. PICK g \in FrameSet : g = c2s[i] /\ FrameOK(g)
      BY <3>1 DEF UploadInv, TypeOK, Wire
    <3>3. cur \in Nat /\ nextKey \in Nat /\ cur <= nextKey
      BY <1>4, <1>5
    <3>4. UnitOf(g) <= nextKey /\ UnitOf(g) \in Nat
      <4>1. g.kind \in {"probe", "accepted", "unit"} /\ g.key \in Nat /\ g.unit \in Nat
        BY <2>5, <3>2 DEF Header, FrameSet
      <4>2. CASE g.kind = "accepted"
        <5>1. PICK k \in Nat : k = g.key /\ k + 1 <= cur /\ UnitOf(g) = k + 1
          BY <3>2, <4>1, <4>2 DEF FrameOK, UnitOf
        <5> QED BY <3>3, <5>1
      <4>3. CASE g.kind = "probe"
        BY <3>2, <4>1, <4>3 DEF FrameOK, UnitOf
      <4>4. g.kind # "unit"
        BY <3>1, <3>2 DEF FrameOK
      <4> QED BY <4>1, <4>2, <4>3, <4>4
    <3>5. UnitOf(f) = nextKey + 1
      BY <1>8 DEF UnitOf
    <3> QED BY <1>4, <3>2, <3>4, <3>5
  <2>6. cw \in Running /\ cw' \in Running \cup {"finished"} /\ cur <= cur' /\ cur' \in Nat
    BY <1>1, <1>5, <1>12 DEF Running
  <2>7. /\ Hand' /\ Wire' /\ Disk' /\ Meet' /\ c2s' \in Seq(FrameSet)
        /\ \A i \in 1 .. Len(c2s') : \/ c2s'[i] = f /\ link = "up"
                                     \/ i \in 1 .. Len(c2s) /\ c2s'[i] = c2s[i]
    BY <1>1, <1>9, <1>12, <2>1, <2>2, <2>3, <2>4, <2>5, <2>6, SendStep
  <2>8. TypeOK'
    <3>1. cw' \in ClientPc /\ nextKey' \in Nat
      BY <1>1, <1>4, <1>12 DEF ClientPc
    <3>2. tasks' \in Seq(Nat) /\ pending' \in Seq(PendingRec) /\ c2s' \in Seq(FrameSet)
      BY <1>3, <1>7, <2>7
    <3> QED BY <1>1, <1>2, <3>1, <3>2 DEF UploadInv, TypeOK
  <2>9. Queue'
    <3>1. given - Len(tasks') = nextKey + 1
      BY <1>3, <1>4
    <3>2. \A u \in rejected : u <= nextKey + 1
      <4>1. \A u \in rejected : u \in Nat /\ u <= nextKey
        BY <1>1 DEF UploadInv, Queue, Running, TypeOK, Unit
      <4> QED BY <1>4, <4>1
    <3> QED BY <1>1, <1>2, <1>3, <1>4, <1>5, <3>1, <3>2 DEF Queue
  <2>10. Base' = Base /\ Judged' = 0
    <3>1. PICK n \in Nat : n = Len(pending) /\ Len(pending') = n + 1
      BY <1>5, <1>7
    <3>2. (nextKey + 1) - (n + 1) = nextKey - n
      BY <1>4, <3>1
    <3>3. Base' = Base
      BY <1>1, <3>1, <3>2 DEF Base
    <3>4. Judged' = 0
      BY <1>12 DEF Judged
    <3> QED BY <3>3, <3>4
  <2>11. Batch'
    <3>1. ASSUME NEW j \in 1 .. Len(pending) + 1
          PROVE  pending'[j].key = Base + j - 1 /\ pending'[j].unit = Base + j
      <4>1. CASE j = Len(pending) + 1
        BY <1>4, <1>5, <1>6, <1>7, <4>1
      <4>2. CASE j # Len(pending) + 1
        <5>1. j \in 1 .. Len(pending)
          BY <1>5, <4>2
        <5> QED BY <1>1, <1>7, <5>1 DEF UploadInv, Batch, Running
      <4> QED BY <4>1, <4>2
    <3>2. Len(pending') <= nextKey'
      BY <1>1, <1>4, <1>5, <1>7
    <3> QED BY <1>1, <1>2, <1>5, <1>7, <1>12, <2>10, <3>1, <3>2 DEF Batch
  <2>12. Judgement'
    BY <2>10 DEF Judgement
  <2>13. OnTheWay'
    <3>1. \A i \in 1 .. Len(s2c) : /\ s2c[i] \in ProbeReply
                                   /\ Base <= s2c[i].key /\ s2c[i].key < nextKey
                                   /\ Verdict(s2c[i].key, s2c[i].accepted)
      BY <1>1, <1>5 DEF UploadInv, OnTheWay, Running
    <3>2. \A i \in 1 .. Len(s2c) : s2c[i].key < nextKey + 1 /\ Base + 0 <= s2c[i].key
      BY <1>4, <1>5, <3>1 DEF ProbeReply
    <3> QED BY <1>1, <1>2, <2>10, <3>1, <3>2 DEF UploadInv, OnTheWay, Running, Verdict
  <2>14. Unanswered'
    <3> SUFFICES ASSUME sv # "closed", NEW i \in 1 .. Len(c2s'), c2s'[i].kind = "probe"
                 PROVE  /\ Base <= c2s'[i].key
                        /\ \A j \in 1 .. Len(s2c) : s2c[j].key < c2s'[i].key
      BY <1>1, <1>2, <1>5, <2>10 DEF Unanswered
    <3>1. CASE c2s'[i] = f
      <4>1. Base <= nextKey
        BY <1>4, <1>5
      <4>2. \A j \in 1 .. Len(s2c) : s2c[j].key < nextKey
        BY <1>1 DEF UploadInv, OnTheWay, Running
      <4> QED BY <1>8, <3>1, <4>1, <4>2
    <3>2. CASE i \in 1 .. Len(c2s) /\ c2s'[i] = c2s[i]
      <4>1. Base + 0 = Base
        BY <1>5
      <4> QED BY <1>1, <1>5, <3>2, <4>1 DEF UploadInv, Unanswered, Running
    <3> QED BY <2>7, <3>1, <3>2
  <2> QED BY <1>10, <2>7, <2>8, <2>9, <2>11, <2>12, <2>13, <2>14 DEF UploadInv
<1> QED BY <1>1, <1>8, <1>11, <1>12

\* A step of the worker that neither sends nor reads.
LEMMA StayStep ==
  ASSUME UploadInv, cw \in Running, cw' \in Running, cw' = "blocks" <=> cw = "blocks",
         UNCHANGED <<agreed, given, tasks, nextKey, cur, sent, short, done, c2s, s2c, link, server>>,
         pending' \in Seq(PendingRec), ri' \in Nat, Base' + Judged' = Base + Judged,
         Batch', Judgement', Told'
  PROVE  UploadInv'
<1>1. UNCHANGED <<sv, su, got, disk, received, rejected, accepted, mode_, acceptMode,
                  integrity, cver>>
  BY DEF server, agreed, fixed
<1>2. FrameKept
  BY <1>1 DEF FrameKept, FrameOK
<1>3. cur' \in Nat /\ cur <= cur'
  BY DEF UploadInv, TypeOK
<1>4. Hand' /\ Wire' /\ Disk' /\ Here' = Here
  BY <1>2, <1>3, QuietStep
<1>5. TypeOK'
  <2>1. cw' \in ClientPc
    BY DEF ClientPc, Running
  <2> QED BY <1>1, <2>1 DEF UploadInv, TypeOK
<1>6. Queue'
  BY <1>1 DEF UploadInv, Queue
<1>7. OnTheWay'
  BY <1>1 DEF UploadInv, OnTheWay, Verdict
<1>8. Unanswered'
  BY <1>1 DEF UploadInv, Unanswered
<1>9. Meet'
  <2>1. There' = There
    BY DEF There, Running
  <2>2. Before(Len(c2s) + 1)' = Before(Len(c2s) + 1)
    BY <1>4 DEF Before, After
  <2>3. cw \notin {"failed", "finished"}
    BY DEF Running
  <2> QED BY <2>1, <2>2, <2>3 DEF UploadInv, Meet
<1> QED BY <1>4, <1>5, <1>6, <1>7, <1>8, <1>9 DEF UploadInv

\* The worker gives up its batch.
LEMMA GiveUpStep ==
  ASSUME UploadInv, cw \in Running, cw' = "failed", pending' = <<>>, ri' = ri,
         s2c' \in Seq(Replies),
         UNCHANGED <<agreed, given, short, tasks, nextKey, cur, sent, done, skipped, c2s, link, server>>
  PROVE  UploadInv'
<1>1. UNCHANGED <<sv, su, got, disk, received, rejected, accepted, mode_, acceptMode,
                  integrity, cver>>
  BY DEF server, agreed, fixed
<1>2. FrameKept
  BY <1>1 DEF FrameKept, FrameOK
<1>3. cur' \in Nat /\ cur <= cur'
  BY DEF UploadInv, TypeOK
<1>4. <<>> \in Seq(PendingRec) /\ cw' \in ClientPc
  BY DEF ClientPc
<1>5. TypeOK'
  BY <1>1, <1>4 DEF UploadInv, TypeOK
<1>6. Told'
  BY <1>1, ToldKept DEF UploadInv
<1> QED BY <1>2, <1>3, <1>5, <1>6, FailStep

LEMMA AwaitStep ==
  ASSUME UploadInv, AwaitSent
  PROVE  UploadInv'
<1>1. /\ cw = "await" /\ cw \in Running
      /\ UNCHANGED <<agreed, given, short, tasks, nextKey, cur, sent, done, skipped, c2s, s2c,
                     link, server>>
      /\ \/ cw' = "recv" /\ ri' = 1 /\ pending' = pending
         \/ cw' = "failed" /\ ri' = ri /\ pending' = <<>>
  BY DEF AwaitSent, Running
<1>2. CASE cw' = "recv" /\ ri' = 1 /\ pending' = pending
  <2>1. Base' = Base /\ Judged' = 0 /\ Judged = 0
    BY <1>1, <1>2 DEF Base, Judged
  <2>2. UNCHANGED <<acceptMode, rejected>>
    BY <1>1 DEF agreed, server
  <2>3. Base \in Nat /\ Len(pending) \in Nat
    BY <1>1, BatchNumbers
  <2>4. Batch'
    <3>1. ri' \in 1 .. Len(pending) + 1
      BY <1>2, <2>3
    <3> QED BY <1>1, <1>2, <2>1, <2>2, <3>1 DEF UploadInv, Batch, Running
  <2>5. Judgement'
    BY <2>1 DEF Judgement
  <2>6. Told'
    BY <1>1, <1>2, <2>2, ToldKept DEF UploadInv
  <2>7. pending' \in Seq(PendingRec) /\ ri' \in Nat
    BY <1>2 DEF UploadInv, TypeOK
  <2> QED BY <1>1, <1>2, <2>1, <2>4, <2>5, <2>6, <2>7, StayStep DEF Running
<1>3. CASE cw' = "failed" /\ ri' = ri /\ pending' = <<>>
  <2>1. s2c' \in Seq(Replies)
    BY <1>1 DEF UploadInv, TypeOK
  <2> QED BY <1>1, <1>3, <2>1, GiveUpStep
<1> QED BY <1>1, <1>2, <1>3

LEMMA RepliesStep ==
  ASSUME UploadInv, AllReplies
  PROVE  UploadInv'
<1>1. /\ cw = "recv" /\ cw \in Running /\ ri > Len(pending) /\ cw' = "send" /\ ri' = 1
      /\ UNCHANGED <<agreed, given, short, tasks, nextKey, pending, cur, sent, done, skipped,
                     c2s, s2c, link, server>>
  BY DEF AllReplies, Running
<1>2. UNCHANGED <<acceptMode, rejected, accepted>>
  BY <1>1 DEF agreed, server
<1>3. Base \in Nat /\ Len(pending) \in Nat /\ ri \in Nat /\ ri \in 1 .. Len(pending) + 1 /\ cur \in Nat
  BY <1>1, BatchNumbers DEF UploadInv, Batch
<1>4. Base' = Base /\ Judged' = Len(pending) /\ Judged = Len(pending)
  <2>1. ri - 1 = Len(pending)
    BY <1>1, <1>3
  <2> QED BY <1>1, <2>1 DEF Base, Judged
<1>5. Batch'
  <2>1. ri' \in 1 .. Len(pending) + 1 /\ (cur <= Base => cur <= Base + ri' - 1)
    BY <1>1, <1>3
  <2> QED BY <1>1, <1>2, <1>4, <2>1 DEF UploadInv, Batch, Running
<1>6. Judgement'
  BY <1>1, <1>2, <1>4 DEF UploadInv, Judgement, Verdict
<1>7. Told'
  BY <1>1, <1>2, ToldKept DEF UploadInv
<1>8. pending' \in Seq(PendingRec) /\ ri' \in Nat
  BY <1>1 DEF UploadInv, TypeOK
<1> QED BY <1>1, <1>4, <1>5, <1>6, <1>7, <1>8, StayStep DEF Running

LEMMA SkipStep ==
  ASSUME UploadInv, SkipUnit
  PROVE  UploadInv'
<1>1. /\ cw = "send" /\ cw' = "send" /\ cw \in Running /\ ri <= Len(pending)
      /\ ~pending[ri].accepted /\ ri' = ri + 1 /\ skipped' = skipped \cup {pending[ri].unit}
      /\ UNCHANGED <<agreed, given, short, tasks, nextKey, pending, cur, sent, done,
                     c2s, s2c, link, server>>
  BY DEF SkipUnit, Running
<1>2. UNCHANGED <<acceptMode, rejected, accepted>>
  BY <1>1 DEF agreed, server
<1>3. /\ Base \in Nat /\ Len(pending) \in Nat /\ ri \in Nat /\ ri \in 1 .. Len(pending)
      /\ cur \in Nat
  BY <1>1, BatchNumbers DEF UploadInv, Batch
<1>4. Base' = Base /\ Judged' = Len(pending) /\ Judged = Len(pending)
  BY <1>1 DEF Base, Judged
<1>5. Batch'
  <2>1. ri' \in 1 .. Len(pending) + 1 /\ (cur <= Base + ri - 1 => cur <= Base + ri' - 1)
    BY <1>1, <1>3
  <2> QED BY <1>1, <1>2, <1>4, <2>1 DEF UploadInv, Batch, Running
<1>6. Judgement'
  BY <1>1, <1>2, <1>4 DEF UploadInv, Judgement, Verdict
<1>7. Told'
  <2>1. pending[ri].key = Base + ri - 1 /\ pending[ri].unit = Base + ri
    BY <1>1, <1>3 DEF UploadInv, Batch
  <2>2. pending[ri].key + 1 = pending[ri].unit
    BY <1>3, <2>1
  <2>3. pending[ri].unit \in rejected
    BY <1>1, <1>3, <1>4, <2>2 DEF UploadInv, Judgement, Verdict
  <2> QED BY <1>1, <1>2, <2>3 DEF UploadInv, Told, VerdictsAgree
<1>8. pending' \in Seq(PendingRec) /\ ri' \in Nat
  BY <1>1, <1>3 DEF UploadInv, TypeOK
<1> QED BY <1>1, <1>4, <1>5, <1>6, <1>7, <1>8, StayStep

LEMMA BatchDoneStep ==
  ASSUME UploadInv, BatchDone
  PROVE  UploadInv'
<1>1. /\ cw = "send" /\ cw' = "idle" /\ cw \in Running /\ ri > Len(pending) /\ pending' = <<>>
      /\ UNCHANGED <<agreed, given, short, tasks, nextKey, ri, cur, sent, done, skipped,
                     c2s, s2c, link, server>>
  BY DEF BatchDone, Running
<1>2. UNCHANGED <<acceptMode, rejected, accepted>>
  BY <1>1 DEF agreed, server
<1>3. /\ Base \in Nat /\ Len(pending) \in Nat /\ nextKey \in Nat /\ cur \in Nat /\ ri \in Nat
      /\ Base + Len(pending) = nextKey
      /\ acceptMode => cur <= nextKey
  BY <1>1, BatchNumbers
<1>4. Base' = nextKey /\ Judged' = 0 /\ Judged = Len(pending) /\ Len(pending') = 0
  BY <1>1, <1>3 DEF Base, Judged
<1>5. Batch'
  BY <1>1, <1>2, <1>3, <1>4 DEF Batch
<1>6. Judgement'
  BY <1>4 DEF Judgement
<1>7. Told'
  BY <1>1, <1>2, ToldKept DEF UploadInv
<1>8. pending' \in Seq(PendingRec) /\ ri' \in Nat
  BY <1>1, <1>3
<1>9. Base' + Judged' = Base + Judged
  BY <1>3, <1>4
<1> QED BY <1>1, <1>5, <1>6, <1>7, <1>8, <1>9, StayStep DEF Running

Judge(s, i, b) == [s EXCEPT ![i].accepted = b]

LEMMA JudgedFacts ==
  ASSUME NEW s \in Seq(PendingRec), NEW i \in 1 .. Len(s), NEW b \in BOOLEAN
  PROVE  /\ Judge(s, i, b) \in Seq(PendingRec) /\ Len(Judge(s, i, b)) = Len(s)
         /\ \A j \in 1 .. Len(s) : /\ Judge(s, i, b)[j].key = s[j].key
                                   /\ Judge(s, i, b)[j].unit = s[j].unit
                                   /\ j # i => Judge(s, i, b)[j] = s[j]
         /\ Judge(s, i, b)[i].accepted = b
<1>0. PICK t : t = Judge(s, i, b)
  OBVIOUS
<1>1. PICK y \in PendingRec : y = s[i]
  OBVIOUS
<1>2. PICK x \in PendingRec : /\ x = [s[i] EXCEPT !.accepted = b]
                              /\ x.key = s[i].key /\ x.unit = s[i].unit /\ x.accepted = b
  <2>1. PICK x : x = [y EXCEPT !.accepted = b]
    OBVIOUS
  <2>2. x \in PendingRec /\ x.key = y.key /\ x.unit = y.unit /\ x.accepted = b
    BY <2>1 DEF PendingRec
  <2> QED BY <1>1, <2>1, <2>2
<1>3. t = [s EXCEPT ![i] = x]
  BY <1>0, <1>2 DEF Judge
<1>4. t \in Seq(PendingRec) /\ Len(t) = Len(s)
  BY <1>3, ExceptSeq
<1>5. \A j \in 1 .. Len(s) : t[j] = IF j = i THEN x ELSE s[j]
  BY <1>3, ExceptSeq
<1> QED BY <1>0, <1>2, <1>4, <1>5

LEMMA RecvStep ==
  ASSUME UploadInv, RecvReply
  PROVE  UploadInv'
<1>1. /\ cw = "recv" /\ cw \in Running /\ ri <= Len(pending) /\ s2c # <<>> /\ s2c' = Tail(s2c)
      /\ UNCHANGED <<agreed, given, short, tasks, nextKey, cur, sent, done, skipped, c2s, link, server>>
      /\ IF Head(s2c).key = pending[ri].key
         THEN /\ pending' = [pending EXCEPT ![ri].accepted = Head(s2c).accepted]
              /\ ri' = ri + 1 /\ cw' = cw
         ELSE pending' = <<>> /\ ri' = ri /\ cw' = "failed"
  BY DEF RecvReply, Running
<1>2. PICK n \in Nat : /\ n = Len(s2c) /\ n >= 1 /\ s2c' \in Seq(Replies) /\ Len(s2c') = n - 1
                       /\ Head(s2c) = s2c[1] /\ \A k \in 1 .. n - 1 : s2c'[k] = s2c[k + 1]
  <2>1. s2c \in Seq(Replies)
    BY DEF UploadInv, TypeOK
  <2> QED BY <1>1, <2>1, TailFacts
<1>3. CASE Head(s2c).key # pending[ri].key
  BY <1>1, <1>2, <1>3, GiveUpStep
<1>4. CASE Head(s2c).key = pending[ri].key
  <2>1. UNCHANGED <<sv, su, got, disk, received, rejected, accepted, mode_, acceptMode,
                    integrity, cver>>
    BY <1>1 DEF server, agreed, fixed
  <2>2. /\ Base \in Nat /\ Len(pending) \in Nat /\ ri \in Nat /\ ri \in 1 .. Len(pending)
        /\ cur \in Nat /\ nextKey \in Nat
    BY <1>1, BatchNumbers DEF UploadInv, Batch
  <2>3. /\ \A i \in 1 .. n : /\ s2c[i] \in ProbeReply /\ Base + Judged <= s2c[i].key
                             /\ s2c[i].key < nextKey /\ Verdict(s2c[i].key, s2c[i].accepted)
        /\ \A i, j \in 1 .. n : i < j => s2c[i].key < s2c[j].key
    BY <1>1, <1>2 DEF UploadInv, OnTheWay
  <2>4. PICK r \in ProbeReply : r = s2c[1] /\ Verdict(r.key, r.accepted) /\ r.key \in Nat
    BY <1>2, <2>3 DEF ProbeReply
  <2>5. pending[ri].key = Base + ri - 1 /\ r.key = Base + ri - 1
    BY <1>1, <1>2, <1>4, <2>2, <2>4 DEF UploadInv, Batch
  <2>6. /\ pending' \in Seq(PendingRec) /\ Len(pending') = Len(pending)
        /\ \A j \in 1 .. Len(pending) : /\ pending'[j].key = pending[j].key
                                        /\ pending'[j].unit = pending[j].unit
                                        /\ j # ri => pending'[j] = pending[j]
        /\ pending'[ri].accepted = r.accepted
    <3>1. pending \in Seq(PendingRec) /\ r.accepted \in BOOLEAN
      BY DEF UploadInv, TypeOK, ProbeReply
    <3>2. pending' = Judge(pending, ri, r.accepted)
      BY <1>1, <1>2, <1>4, <2>4 DEF Judge
    <3> QED BY <2>2, <3>1, <3>2, JudgedFacts
  <2>7. cw' = "recv" /\ ri' = ri + 1 /\ Base' = Base /\ Judged' = ri /\ Judged = ri - 1
    <3>1. cw' = "recv" /\ ri' = ri + 1
      BY <1>1, <1>4
    <3>2. Base' = Base
      BY <1>1, <2>6 DEF Base
    <3>3. Judged' = ri /\ Judged = ri - 1
      BY <1>1, <2>2, <3>1 DEF Judged
    <3> QED BY <3>1, <3>2, <3>3
  <2>8. FrameKept
    BY <1>1, <2>1 DEF FrameKept, FrameOK
  <2>9. cw' \in Running \cup {"finished", "failed"} /\ cur' \in Nat /\ cur <= cur'
    BY <1>1, <2>2, <2>7
  <2>10. Hand' /\ Wire' /\ Disk' /\ Here' = Here
    BY <1>1, <2>8, <2>9, QuietStep
  <2>11. TypeOK'
    <3>1. ri' \in Nat /\ cw' = cw
      BY <1>1, <2>2, <2>7
    <3>2. s2c' \in Seq(Replies) /\ pending' \in Seq(PendingRec)
      BY <1>2, <2>6
    <3> QED BY <1>1, <2>1, <3>1, <3>2 DEF UploadInv, TypeOK
  <2>12. Queue'
    BY <1>1, <2>1, <2>7 DEF UploadInv, Queue
  <2>13. Batch'
    <3>1. ri' \in 1 .. Len(pending) + 1
      BY <2>2, <2>7
    <3>2. Len(pending) <= nextKey /\ acceptMode /\ cur <= Base
      BY <1>1 DEF UploadInv, Batch
    <3>3. \A j \in 1 .. Len(pending) : pending'[j].key = Base + j - 1 /\ pending'[j].unit = Base + j
      BY <1>1, <2>6 DEF UploadInv, Batch
    <3> QED BY <1>1, <2>1, <2>6, <2>7, <3>1, <3>2, <3>3 DEF Batch
  <2>14. Judgement'
    <3> SUFFICES ASSUME NEW j \in 1 .. ri
                 PROVE  Verdict(pending[j].key, pending[j].accepted)'
      BY <2>7 DEF Judgement
    <3>1. j \in 1 .. Len(pending)
      BY <2>2
    <3>2. PICK k, ok : k = pending[j].key /\ ok = pending'[j].accepted
      OBVIOUS
    <3>3. pending'[j].key = k
      BY <2>6, <3>1, <3>2
    <3>4. Verdict(k, ok)
      <4>1. CASE j = ri
        BY <2>4, <2>5, <2>6, <3>2, <4>1
      <4>2. CASE j # ri
        <5>1. j \in 1 .. Judged /\ pending'[j] = pending[j]
          BY <2>2, <2>6, <2>7, <3>1, <4>2
        <5> QED BY <1>1, <3>2, <5>1 DEF UploadInv, Judgement
      <4> QED BY <4>1, <4>2
    <3> QED BY <1>1, <2>1, <3>2, <3>3, <3>4 DEF Verdict
  <2>15. OnTheWay'
    <3>1. ASSUME NEW i \in 1 .. n - 1
          PROVE  /\ s2c'[i] \in ProbeReply /\ Base + ri <= s2c'[i].key /\ s2c'[i].key < nextKey
                 /\ Verdict(s2c[i].key, s2c[i].accepted)'
      <4>1. PICK j \in 1 .. n : j = i + 1 /\ 1 < j
        BY <1>2
      <4>2. PICK q \in ProbeReply : q = s2c[j]
        BY <2>3
      <4>3. s2c'[i] = q /\ q.key \in Nat
        BY <1>2, <4>1, <4>2 DEF ProbeReply
      <4>4. r.key < q.key /\ q.key < nextKey /\ Verdict(q.key, q.accepted)
        BY <1>2, <2>3, <2>4, <4>1, <4>2
      <4>5. Base + ri <= q.key
        BY <2>2, <2>4, <2>5, <4>3, <4>4
      <4> QED BY <1>1, <2>1, <4>3, <4>4, <4>5 DEF Verdict
    <3>2. ASSUME NEW i \in 1 .. n - 1, NEW j \in 1 .. n - 1, i < j
          PROVE  s2c'[i].key < s2c'[j].key
      <4>1. PICK k \in 1 .. n, l \in 1 .. n : k = i + 1 /\ l = j + 1 /\ k < l
        BY <1>2, <3>2
      <4>2. s2c'[i] = s2c[k] /\ s2c'[j] = s2c[l]
        BY <1>2, <4>1
      <4> QED BY <2>3, <4>1, <4>2
    <3> QED BY <1>1, <1>2, <2>7, <3>1, <3>2 DEF OnTheWay
  <2>16. Unanswered'
    <3> SUFFICES ASSUME sv # "closed", NEW i \in 1 .. Len(c2s), c2s[i].kind = "probe"
                 PROVE  /\ Base + ri <= c2s[i].key
                        /\ \A j \in 1 .. n - 1 : s2c'[j].key < c2s[i].key
      BY <1>1, <1>2, <2>1, <2>7 DEF Unanswered
    <3>1. \A j \in 1 .. n : s2c[j].key < c2s[i].key
      BY <1>1, <1>2 DEF UploadInv, Unanswered
    <3>2. c2s[i].key \in Nat
      <4>1. c2s \in Seq(FrameSet)
        BY DEF UploadInv, TypeOK
      <4>2. c2s[i] \in FrameSet
        BY <4>1
      <4> QED BY <4>2 DEF FrameSet
    <3>3. r.key < c2s[i].key
      BY <1>2, <2>4, <3>1
    <3>4. Base + ri <= c2s[i].key
      BY <2>2, <2>5, <3>2, <3>3
    <3>5. ASSUME NEW j \in 1 .. n - 1 PROVE s2c'[j].key < c2s[i].key
      <4>1. PICK k \in 1 .. n : k = j + 1
        BY <1>2
      <4> QED BY <1>2, <3>1, <4>1
    <3> QED BY <3>4, <3>5
  <2>17. Meet'
    <3>1. There' = There
      BY <1>1, <2>7 DEF There
    <3> QED BY <1>1, <2>7, <2>10, <3>1 DEF UploadInv, Meet, Before, After
  <2>18. Told'
    BY <1>1, <2>1, <2>7, ToldKept DEF UploadInv
  <2> QED BY <2>10, <2>11, <2>12, <2>13, <2>14, <2>15, <2>16, <2>17, <2>18 DEF UploadInv
<1> QED BY <1>3, <1>4

LEMMA RecvFailsStep ==
  ASSUME UploadInv, RecvFails
  PROVE  UploadInv'
<1>1. /\ cw \in Running /\ cw' = "failed" /\ pending' = <<>> /\ s2c' \in Seq(Replies)
      /\ UNCHANGED <<agreed, given, short, tasks, nextKey, ri, cur, sent, done, skipped, c2s,
                     link, server>>
  BY DEF RecvFails, Running, UploadInv, TypeOK
<1> QED BY <1>1, GiveUpStep

\* The worker begins unit u, with header h, or fails to.
LEMMA BeginStep ==
  ASSUME UploadInv, cw \in {"idle", "send"}, acceptMode <=> cw = "send",
         NEW u \in Unit, cur < u, u \notin rejected,
         NEW h \in FrameSet, h.kind \in {"accepted", "unit"}, UnitOf(h) = u, BeginUnit(u, h),
         UNCHANGED <<agreed, given, short, nextKey, ri, skipped, s2c, link, server>>,
         tasks' \in Seq(Nat),
         h.kind = "accepted" => mode_ /\ h.key \in DOMAIN accepted,
         h.kind = "unit" => ~mode_ /\ h.key = 0,
         \A i \in 1 .. Len(c2s) : sv # "closed" => c2s[i].kind # "probe",
         cw' = "blocks" /\ pending' = pending /\ cur' = u => Queue' /\ Batch'
  PROVE  UploadInv'
<1>1. /\ cur' = u /\ sent' = 0
      /\ \/ Enqueued(h) /\ cw' = "blocks" /\ UNCHANGED <<pending, done>>
         \/ /\ c2s' = c2s /\ cw' = "failed" /\ pending' = <<>>
            /\ done' = [done EXCEPT ![u] = "failed"]
  BY DEF BeginUnit, UnitFails, EnqueueFails
<1>2. UNCHANGED <<sv, su, got, disk, received, rejected, accepted, mode_, acceptMode,
                  integrity, cver>>
  BY DEF server, agreed, fixed
<1>3. cur \in Nat /\ cur' \in Nat /\ u \in Nat /\ cur <= cur' /\ cur' \in 0 .. Units
  <2>1. cur \in Nat
    BY UploadAssumption DEF UploadInv, TypeOK
  <2>2. u \in Nat /\ u \in 0 .. Units
    BY UploadAssumption DEF Unit
  <2> QED BY <1>1, <2>1, <2>2
<1>4. cw \in Running
  BY DEF Running
<1>5. FrameKept
  <2> SUFFICES ASSUME NEW f \in FrameSet, UnderWay(f), FrameOK(f) PROVE FrameOK(f)'
    BY DEF FrameKept
  <2>1. f.kind # "probe"
    BY DEF UnderWay
  <2>2. f.key + 1 <= cur => f.key + 1 <= cur'
    BY <1>3 DEF FrameSet
  <2>3. f.unit <= cur => f.unit <= cur'
    BY <1>3 DEF FrameSet
  <2> QED BY <1>2, <2>1, <2>2, <2>3 DEF FrameOK
<1>6. sent' \in 0 .. Length
  BY <1>1, UploadAssumption
<1>7. Told' /\ done' \in [Unit -> {"none", "ok", "failed"}]
  <2>1. /\ done' \in [Unit -> {"none", "ok", "failed"}]
        /\ \A v \in Unit : v # u => done'[v] = done[v]
    BY <1>1 DEF UploadInv, TypeOK
  <2>2. VerdictsAgree'
    BY <1>2, <2>1 DEF UploadInv, Told, VerdictsAgree, TypeOK
  <2>3. \A v \in Unit : v > cur' => done'[v] = "none"
    <3>1. \A v \in Unit : v > u => v > cur /\ v # u
      BY <1>3 DEF Unit
    <3> QED BY <1>1, <2>1, <3>1 DEF UploadInv, Told
  <2> QED BY <1>1, <1>2, <2>1, <2>2, <2>3 DEF Told
<1>8. CASE c2s' = c2s /\ cw' = "failed" /\ pending' = <<>>
  <2>1. <<>> \in Seq(PendingRec) /\ cw' \in ClientPc
    BY <1>8 DEF ClientPc
  <2>2. TypeOK'
    BY <1>2, <1>3, <1>6, <1>7, <1>8, <2>1 DEF UploadInv, TypeOK
  <2> QED BY <1>3, <1>4, <1>5, <1>7, <1>8, <2>2, FailStep
<1>9. CASE Enqueued(h) /\ cw' = "blocks" /\ pending' = pending
  <2>1. PICK p : p = There
    OBVIOUS
  <2>2. p = Between /\ There' = Place("blocks", u, 0) /\ After(h) = Place("blocks", u, 0)
    BY <1>1, <1>9, <2>1 DEF There, After, UnitOf
  <2>3. Fits(p, h)'
    BY <2>2 DEF Fits, Between, Place
  <2>4. FrameOK(h)'
    <3>1. su \in Nat /\ su <= cur
      BY UploadAssumption DEF UploadInv, TypeOK, Disk
    <3>2. su < u /\ u <= cur' /\ u \in Unit
      BY <1>1, <1>3, <3>1
    <3> QED BY <1>2, <3>2 DEF FrameOK, UnitOf
  <2>5. ASSUME link = "up", NEW i \in 1 .. Len(c2s), Header(c2s[i])
        PROVE  UnitOf(c2s[i]) < UnitOf(h)
    <3>1. sv # "closed"
      BY <2>5 DEF UploadInv, Hand
    <3>2. PICK g \in FrameSet : g = c2s[i] /\ FrameOK(g) /\ g.kind \in {"accepted", "unit"}
      BY <2>5, <3>1 DEF UploadInv, TypeOK, Wire, Header
    <3>3. UnitOf(g) <= cur /\ UnitOf(g) \in Nat
      BY <3>2 DEF UnitOf, FrameOK, FrameSet
    <3> QED BY <1>3, <3>2, <3>3
  <2>6. /\ Hand' /\ Wire' /\ Disk' /\ Meet' /\ c2s' \in Seq(FrameSet)
        /\ \A i \in 1 .. Len(c2s') : \/ c2s'[i] = h /\ link = "up"
                                     \/ i \in 1 .. Len(c2s) /\ c2s'[i] = c2s[i]
    <3>1. cw' \in Running \cup {"finished"}
      BY <1>9 DEF Running
    <3> QED BY <1>3, <1>4, <1>5, <1>9, <2>1, <2>2, <2>3, <2>4, <2>5, <3>1, SendStep
  <2>7. TypeOK'
    <3>1. cw' \in ClientPc
      BY <1>9 DEF ClientPc
    <3> QED BY <1>2, <1>3, <1>6, <1>7, <1>9, <2>6, <3>1 DEF UploadInv, TypeOK
  <2>8. Base' = Base /\ Judged' = Judged
    <3>1. Base' = Base
      BY <1>9 DEF Base
    <3>2. CASE cw = "send"
      BY <1>9, <3>1, <3>2 DEF Judged
    <3>3. CASE cw = "idle"
      <4>1. nextKey = 0 /\ Len(pending) <= nextKey /\ Len(pending) \in Nat
        BY <1>4, <3>3 DEF UploadInv, Queue, Batch, TypeOK
      <4>2. Len(pending) = 0
        BY <4>1
      <4> QED BY <1>9, <3>1, <3>3, <4>2 DEF Judged
    <3> QED BY <3>2, <3>3
  <2>9. ASSUME NEW k \in Nat, NEW ok, Verdict(k, ok) PROVE Verdict(k, ok)'
    <3>1. k >= cur' => k >= cur
      BY <1>3
    <3> QED BY <1>2, <2>9, <3>1 DEF Verdict
  <2>10. Judgement'
    <3> SUFFICES ASSUME NEW j \in 1 .. Judged
                 PROVE  Verdict(pending[j].key, pending[j].accepted)'
      BY <2>8 DEF Judgement
    <3>1. PICK k, ok : k = pending[j].key /\ ok = pending[j].accepted
      OBVIOUS
    <3>2. k \in Nat
      <4>1. pending \in Seq(PendingRec)
        BY DEF UploadInv, TypeOK
      <4>2. Judged \in 0 .. Len(pending) /\ Len(pending) \in Nat
        BY <1>4, BatchNumbers
      <4>3. j \in 1 .. Len(pending)
        BY <4>2
      <4>4. pending[j] \in PendingRec
        BY <4>1, <4>3
      <4> QED BY <3>1, <4>4 DEF PendingRec
    <3>3. Verdict(k, ok)
      BY <1>4, <3>1 DEF UploadInv, Judgement
    <3>4. Verdict(k, ok)'
      BY <2>9, <3>2, <3>3
    <3> QED BY <1>9, <3>1, <3>4 DEF Verdict
  <2>11. OnTheWay'
    <3>1. ASSUME NEW i \in 1 .. Len(s2c) PROVE Verdict(s2c[i].key, s2c[i].accepted)'
      <4>1. PICK k, ok : k = s2c[i].key /\ ok = s2c[i].accepted
        OBVIOUS
      <4>2. k \in Nat /\ Verdict(k, ok)
        BY <1>4, <4>1 DEF UploadInv, OnTheWay, ProbeReply
      <4>3. Verdict(k, ok)'
        BY <2>9, <4>2
      <4> QED BY <4>1, <4>3 DEF Verdict
    <3> QED BY <1>4, <2>8, <3>1 DEF UploadInv, OnTheWay
  <2>12. Unanswered'
    <3>1. \A i \in 1 .. Len(c2s') : sv' # "closed" => c2s'[i].kind # "probe"
      BY <1>2, <2>6
    <3> QED BY <3>1 DEF Unanswered
  <2> QED BY <1>1, <1>7, <1>9, <2>6, <2>7, <2>10, <2>11, <2>12 DEF UploadInv
<1> QED BY <1>1, <1>8, <1>9

LEMMA SendAcceptedStep ==
  ASSUME UploadInv, SendAccepted
  PROVE  UploadInv'
<1>1. /\ cw = "send" /\ cw \in Running /\ ri <= Len(pending) /\ pending[ri].accepted
      /\ BeginUnit(pending[ri].unit, Frame("accepted", pending[ri].key, 0, <<>>))
      /\ UNCHANGED <<agreed, given, short, tasks, nextKey, ri, skipped, s2c, link, server>>
  BY DEF SendAccepted, Running
<1>2. UNCHANGED <<acceptMode, rejected, accepted, mode_>>
  BY <1>1 DEF agreed, server
<1>3. /\ Base \in Nat /\ Len(pending) \in Nat /\ ri \in 1 .. Len(pending) /\ cur \in Nat
      /\ nextKey \in Nat /\ Base + Len(pending) = nextKey
      /\ acceptMode /\ cur <= Base + ri - 1
  BY <1>1, BatchNumbers DEF UploadInv, Batch
<1>4. PICK k \in Nat, u \in Nat : /\ k = pending[ri].key /\ u = pending[ri].unit
                                  /\ k = Base + ri - 1 /\ u = Base + ri /\ u = k + 1
  <2>1. pending[ri].key = Base + ri - 1 /\ pending[ri].unit = Base + ri
    BY <1>1, <1>3 DEF UploadInv, Batch
  <2>2. Base + ri \in Nat /\ Base + ri - 1 \in Nat /\ Base + ri = (Base + ri - 1) + 1
    BY <1>3
  <2> QED BY <2>1, <2>2
<1>5. cur < u /\ u <= nextKey
  BY <1>3, <1>4
<1>6. nextKey <= given /\ given <= Units /\ given \in Nat
  <2>1. Len(tasks) \in Nat /\ given \in Nat /\ given <= Units /\ nextKey = given - Len(tasks)
    BY <1>1, <1>3, UploadAssumption DEF UploadInv, TypeOK, Queue
  <2> QED BY <2>1
<1>7. u \in Unit
  <2>1. 1 <= u /\ u <= Units /\ Units \in Nat
    BY <1>3, <1>4, <1>5, <1>6, UploadAssumption
  <2> QED BY <2>1 DEF Unit
<1>8. u \notin rejected /\ k \in DOMAIN accepted
  <2>1. Verdict(k, pending[ri].accepted)
    BY <1>1, <1>3, <1>4 DEF UploadInv, Judgement, Judged
  <2>2. k >= cur
    BY <1>3, <1>4
  <2> QED BY <1>1, <1>4, <2>1, <2>2 DEF Verdict
<1>9. PICK h \in FrameSet : /\ h.kind = "accepted" /\ h.key = k /\ UnitOf(h) = u
                            /\ h = Frame("accepted", pending[ri].key, 0, <<>>)
  <2>1. Frame("accepted", k, 0, <<>>) \in FrameSet
    BY DEF Frame, FrameSet, Kinds, Data
  <2> QED BY <1>4, <2>1 DEF Frame, UnitOf
<1>10. ASSUME NEW i \in 1 .. Len(c2s), sv # "closed", c2s[i].kind = "probe" PROVE FALSE
  <2>1. PICK f \in FrameSet : f = c2s[i] /\ FrameOK(f)
    BY <1>10 DEF UploadInv, TypeOK, Wire
  <2>2. f.unit = f.key + 1 /\ f.unit <= nextKey /\ f.key \in Nat
    BY <1>10, <2>1 DEF FrameOK, FrameSet
  <2>3. Base + Len(pending) <= f.key
    BY <1>1, <1>10, <2>1 DEF UploadInv, Unanswered, Judged
  <2> QED BY <1>3, <2>2, <2>3
<1>11. ASSUME cw' = "blocks", pending' = pending, cur' = u PROVE Queue' /\ Batch'
  <2>1. Base' = Base
    BY <1>1, <1>11 DEF Base
  <2>2. Queue'
    <3>1. cur' <= given - Len(tasks)
      BY <1>1, <1>3, <1>5, <1>11 DEF UploadInv, Queue
    <3> QED BY <1>1, <1>2, <3>1 DEF UploadInv, Queue
  <2>3. Batch'
    BY <1>1, <1>2, <1>3, <1>4, <1>11, <2>1 DEF UploadInv, Batch
  <2> QED BY <2>2, <2>3
<1>12. mode_ /\ tasks' \in Seq(Nat) /\ BeginUnit(u, h)
  BY <1>1, <1>3, <1>4, <1>9 DEF UploadInv, Hand, TypeOK
<1> QED BY <1>1, <1>3, <1>5, <1>7, <1>8, <1>9, <1>10, <1>11, <1>12, BeginStep

LEMMA SendUnitStep ==
  ASSUME UploadInv, SendUnit
  PROVE  UploadInv'
<1>1. /\ ~acceptMode /\ cw = "idle" /\ cw \in Running /\ tasks # <<>> /\ tasks' = Tail(tasks)
      /\ BeginUnit(Head(tasks), Frame("unit", 0, Head(tasks), <<>>))
      /\ UNCHANGED <<agreed, given, short, nextKey, ri, skipped, s2c, link, server>>
  BY DEF SendUnit, Running
<1>2. UNCHANGED <<acceptMode, rejected, accepted, mode_>>
  BY <1>1 DEF agreed, server
<1>3. PICK n \in Nat, u \in Unit :
        /\ n = Len(tasks) /\ n >= 1 /\ tasks' \in Seq(Nat) /\ Len(tasks') = n - 1
        /\ given \in Nat /\ n <= given /\ given <= Units
        /\ u = Head(tasks) /\ u = given - n + 1
        /\ \A j \in 1 .. Len(tasks') : tasks'[j] = given - Len(tasks') + j
  BY <1>1, HeadOfQueue
<1>4. ~mode_ /\ rejected = {}
  BY <1>1 DEF UploadInv, Hand
<1>5. cur \in Nat /\ cur <= given - n /\ nextKey = 0
  BY <1>1, <1>3, UploadAssumption DEF UploadInv, TypeOK, Queue
<1>6. cur < u /\ u \in Nat
  BY <1>3, <1>5 DEF Unit
<1>7. PICK h \in FrameSet : /\ h.kind = "unit" /\ h.key = 0 /\ UnitOf(h) = u
                            /\ h = Frame("unit", 0, Head(tasks), <<>>)
  <2>1. Frame("unit", 0, u, <<>>) \in FrameSet
    BY <1>6 DEF Frame, FrameSet, Kinds, Data
  <2> QED BY <1>3, <2>1 DEF Frame, UnitOf
<1>8. \A i \in 1 .. Len(c2s) : sv # "closed" => c2s[i].kind # "probe"
  BY <1>4 DEF UploadInv, Wire, FrameOK
<1>9. ASSUME cw' = "blocks", pending' = pending, cur' = u PROVE Queue' /\ Batch'
  <2>1. Base' = Base
    BY <1>1, <1>9 DEF Base
  <2>2. Queue'
    <3>1. Len(tasks') <= given /\ cur' <= given - Len(tasks')
      BY <1>3, <1>9
    <3> QED BY <1>1, <1>2, <1>3, <1>4, <1>5, <3>1 DEF Queue
  <2>3. Batch'
    BY <1>1, <1>2, <1>9, <2>1 DEF UploadInv, Batch
  <2> QED BY <2>2, <2>3
<1>10. BeginUnit(u, h) /\ u \notin rejected
  BY <1>1, <1>3, <1>4, <1>7
<1> QED BY <1>1, <1>3, <1>4, <1>6, <1>7, <1>8, <1>9, <1>10, BeginStep

\* What the worker tells of its unit concerns no other.
LEMMA ToldUnit ==
  ASSUME UploadInv, cw = "blocks", UNCHANGED <<skipped, rejected, cur>>,
         NEW outcome \in {"ok", "failed"},
         done' = done \/ done' = [done EXCEPT ![cur] = outcome]
  PROVE  Told' /\ done' \in [Unit -> {"none", "ok", "failed"}]
<1>1. cur \in Unit /\ cur \notin rejected /\ cur \in Nat
  BY UploadAssumption DEF UploadInv, Told, TypeOK
<1>2. /\ done' \in [Unit -> {"none", "ok", "failed"}]
      /\ \A v \in Unit : v # cur => done'[v] = done[v]
  BY DEF UploadInv, TypeOK
<1>3. VerdictsAgree'
  BY <1>1, <1>2 DEF UploadInv, Told, VerdictsAgree, TypeOK
<1>4. \A v \in Unit : v > cur => v # cur
  BY <1>1 DEF Unit
<1> QED BY <1>1, <1>2, <1>3, <1>4 DEF UploadInv, Told

\* The worker sends a block, or the end, of its unit.
LEMMA UnitStep ==
  ASSUME UploadInv, cw = "blocks", cw' \in {"blocks", "send", "idle"},
         NEW f \in FrameSet, f.kind \in {"data", "end"}, Enqueued(f),
         NEW p, p = Place("blocks", cur, sent), Fits(p, f)', There' = After(f),
         UNCHANGED <<agreed, given, tasks, nextKey, pending, cur, skipped, s2c, link, server>>,
         short \subseteq short', ri' \in Nat, sent' \in 0 .. Length,
         done' = done \/ done' = [done EXCEPT ![cur] = "ok"],
         Batch', Base' = Base, Judged' = Judged
  PROVE  UploadInv'
<1>1. UNCHANGED <<sv, su, got, disk, received, rejected, accepted, mode_, acceptMode,
                  integrity, cver>>
  BY DEF server, agreed, fixed
<1>2. FrameKept
  BY <1>1 DEF FrameKept, FrameOK
<1>3. cur' \in Nat /\ cur <= cur' /\ cw \in Running /\ cw' \in Running
  BY UploadAssumption DEF UploadInv, TypeOK, Running
<1>4. p = There
  BY DEF There
<1>5. FrameOK(f)' /\ ~Header(f)
  BY DEF FrameOK, Header
<1>6. /\ Hand' /\ Wire' /\ Disk' /\ Meet' /\ c2s' \in Seq(FrameSet)
      /\ \A i \in 1 .. Len(c2s') : \/ c2s'[i] = f /\ link = "up"
                                   \/ i \in 1 .. Len(c2s) /\ c2s'[i] = c2s[i]
  BY <1>2, <1>3, <1>4, <1>5, SendStep
<1>7. Told' /\ done' \in [Unit -> {"none", "ok", "failed"}]
  BY <1>1, ToldUnit
<1>8. TypeOK'
  <2>1. cw' \in ClientPc
    BY DEF ClientPc
  <2> QED BY <1>1, <1>6, <1>7, <2>1 DEF UploadInv, TypeOK
<1>9. Queue'
  BY <1>1, <1>3 DEF UploadInv, Queue
<1>10. Judgement'
  BY <1>1, <1>3 DEF UploadInv, Judgement, Verdict
<1>11. OnTheWay'
  BY <1>1, <1>3 DEF UploadInv, OnTheWay, Verdict
<1>12. Unanswered'
  <2> SUFFICES ASSUME sv # "closed", NEW i \in 1 .. Len(c2s'), c2s'[i].kind = "probe"
               PROVE  /\ Base + Judged <= c2s'[i].key
                      /\ \A j \in 1 .. Len(s2c) : s2c[j].key < c2s'[i].key
    BY <1>1 DEF Unanswered
  <2>1. i \in 1 .. Len(c2s) /\ c2s'[i] = c2s[i]
    BY <1>6
  <2> QED BY <1>3, <2>1 DEF UploadInv, Unanswered
<1> QED BY <1>6, <1>7, <1>8, <1>9, <1>10, <1>11, <1>12 DEF UploadInv

\* The worker fails in a unit.
LEMMA UnitFailsStep ==
  ASSUME UploadInv, cw = "blocks", UnitFails(cur), c2s' = c2s, short \subseteq short',
         UNCHANGED <<agreed, given, tasks, nextKey, ri, cur, sent, skipped, s2c, link, server>>
  PROVE  UploadInv'
<1>1. UNCHANGED <<sv, su, got, disk, received, rejected, accepted, mode_, acceptMode,
                  integrity, cver>>
  BY DEF server, agreed, fixed
<1>2. FrameKept
  BY <1>1 DEF FrameKept, FrameOK
<1>3. cur' \in Nat /\ cur <= cur' /\ cw \in Running /\ cw' = "failed"
  BY UploadAssumption DEF UploadInv, TypeOK, Running, UnitFails
<1>4. Told' /\ done' \in [Unit -> {"none", "ok", "failed"}]
  BY <1>1, ToldUnit DEF UnitFails
<1>5. <<>> \in Seq(PendingRec) /\ cw' \in ClientPc
  BY <1>3 DEF ClientPc
<1>6. TypeOK'
  BY <1>1, <1>4, <1>5 DEF UploadInv, TypeOK, UnitFails
<1> QED BY <1>2, <1>3, <1>4, <1>6, FailStep

LEMMA SendBlockStep ==
  ASSUME UploadInv, SendBlock
  PROVE  UploadInv'
<1>1. /\ cw = "blocks" /\ sent < Length
      /\ UNCHANGED <<agreed, given, short, tasks, nextKey, ri, cur, skipped, s2c, link, server>>
      /\ \/ /\ Enqueued(Frame("data", 0, 0, Block(cur, sent + 1)))
            /\ sent' = sent + 1 /\ UNCHANGED <<cw, pending, done>>
         \/ c2s' = c2s /\ UnitFails(cur) /\ sent' = sent
  BY DEF SendBlock, MoreBlocks, EnqueueFails
<1>2. sent \in Nat /\ Length \in Nat /\ cur \in Nat /\ sent + 1 \in 0 .. Length
  BY <1>1, UploadAssumption DEF UploadInv, TypeOK
<1>3. CASE /\ Enqueued(Frame("data", 0, 0, Block(cur, sent + 1)))
           /\ sent' = sent + 1 /\ UNCHANGED <<cw, pending, done>>
  <2>1. PICK f \in FrameSet : /\ f = Frame("data", 0, 0, Block(cur, sent + 1))
                              /\ f.kind = "data" /\ f.data = Block(cur, sent + 1)
    <3>1. Block(cur, sent + 1) \in Data
      BY <1>2 DEF Data, BlockSet
    <3>2. PICK d \in Data : d = Block(cur, sent + 1)
      BY <3>1
    <3>3. Frame("data", 0, 0, d) \in FrameSet
      BY DEF Frame, FrameSet, Kinds
    <3> QED BY <3>2, <3>3 DEF Frame
  <2>2. PICK p : p = Place("blocks", cur, sent)
    OBVIOUS
  <2>3. Fits(p, f)'
    BY <2>1, <2>2 DEF Fits, Place
  <2>4. There' = After(f)
    <3>1. f.data[1] = cur /\ f.data[2] = sent + 1
      BY <2>1, BlockParts
    <3> QED BY <1>1, <1>3, <2>1, <3>1 DEF There, After
  <2>5. acceptMode' = acceptMode
    BY <1>1 DEF agreed
  <2>6. Batch' /\ Base' = Base /\ Judged' = Judged
    BY <1>1, <1>3, <2>5, BatchKept DEF UploadInv
  <2>7. cw' = "blocks" /\ ri' \in Nat /\ sent' \in 0 .. Length
    BY <1>1, <1>2, <1>3 DEF UploadInv, TypeOK
  <2> QED BY <1>1, <1>3, <2>1, <2>2, <2>3, <2>4, <2>6, <2>7, UnitStep
<1>4. CASE c2s' = c2s /\ UnitFails(cur) /\ sent' = sent
  BY <1>1, <1>4, UnitFailsStep
<1> QED BY <1>1, <1>3, <1>4

LEMMA EndUnitStep ==
  ASSUME UploadInv, EndUnit
  PROVE  UploadInv'
<1> DEFINE data == Checksum(Content(cur, sent))
<1>1. /\ cw = "blocks" /\ cw \in Running
      /\ short' = IF sent < Length THEN short \cup {cur} ELSE short
      /\ UNCHANGED <<agreed, given, tasks, nextKey, cur, sent, skipped, s2c, link, server>>
      /\ \/ /\ Enqueued(Frame("end", 0, 0, data))
            /\ cw' = IF acceptMode THEN "send" ELSE "idle"
            /\ ri' = IF acceptMode THEN ri + 1 ELSE ri
            /\ pending' = pending /\ done' = [done EXCEPT ![cur] = "ok"]
         \/ c2s' = c2s /\ UnitFails(cur) /\ ri' = ri
  BY DEF EndUnit, EnqueueFails, Running
<1>2. UNCHANGED <<acceptMode, integrity>>
  BY <1>1 DEF agreed, fixed
<1>3. sent \in Nat /\ sent \in 0 .. Length /\ Length \in Nat /\ cur \in Nat
  BY UploadAssumption DEF UploadInv, TypeOK
<1>4. CASE /\ Enqueued(Frame("end", 0, 0, data))
           /\ cw' = IF acceptMode THEN "send" ELSE "idle"
           /\ ri' = IF acceptMode THEN ri + 1 ELSE ri
           /\ pending' = pending /\ done' = [done EXCEPT ![cur] = "ok"]
  <2>1. PICK f \in FrameSet : /\ f = Frame("end", 0, 0, data)
                              /\ f.kind = "end" /\ f.data = data
    <3>1. data \in Data
      BY <1>3 DEF Data, Checksum
    <3>2. PICK d \in Data : d = data
      BY <3>1
    <3>3. Frame("end", 0, 0, d) \in FrameSet
      BY DEF Frame, FrameSet, Kinds
    <3> QED BY <3>2, <3>3 DEF Frame
  <2>2. PICK p : p = Place("blocks", cur, sent)
    OBVIOUS
  <2>3. Fits(p, f)'
    <3>1. p.at = "blocks" /\ p.unit = cur /\ p.blocks = sent
      BY <2>2 DEF Place
    <3>2. sent = Length \/ cur \in short'
      BY <1>1, <1>3
    <3>3. f.data = Checksum(Content(p.unit, p.blocks))'
      BY <1>2, <2>1, <3>1 DEF Checksum
    <3> QED BY <2>1, <3>1, <3>2, <3>3 DEF Fits
  <2>4. There' = After(f)
    BY <1>4, <2>1 DEF There, After
  <2>5. /\ Base \in Nat /\ Len(pending) \in Nat /\ ri \in Nat /\ Len(pending) <= nextKey
        /\ nextKey \in Nat /\ (acceptMode => ri \in 1 .. Len(pending) /\ cur = Base + ri)
        /\ (~acceptMode => nextKey = 0)
    BY <1>1, BatchNumbers DEF UploadInv, Batch, Queue
  <2>6. Base' = Base
    BY <1>1, <1>4 DEF Base
  <2>7. Judged' = Judged
    <3>1. CASE acceptMode
      BY <1>1, <1>4, <3>1 DEF Judged
    <3>2. CASE ~acceptMode
      <4>1. Len(pending) = 0
        BY <2>5, <3>2
      <4> QED BY <1>1, <1>4, <3>2, <4>1 DEF Judged
    <3> QED BY <3>1, <3>2
  <2>8. Batch'
    <3>1. acceptMode => ri' \in 1 .. Len(pending) + 1 /\ cur <= Base + ri' - 1
      BY <1>3, <1>4, <2>5
    <3> QED BY <1>1, <1>2, <1>4, <2>6, <3>1 DEF UploadInv, Batch
  <2>9. cw' \in {"blocks", "send", "idle"} /\ ri' \in Nat /\ sent' \in 0 .. Length
    BY <1>1, <1>3, <1>4, <2>5
  <2> QED BY <1>1, <1>4, <2>1, <2>2, <2>3, <2>4, <2>6, <2>7, <2>8, <2>9, UnitStep
<1>5. CASE c2s' = c2s /\ UnitFails(cur) /\ ri' = ri
  BY <1>1, <1>5, UnitFailsStep
<1> QED BY <1>1, <1>4, <1>5

LEMMA FinishStep ==
  ASSUME UploadInv, Finish
  PROVE  UploadInv'
<1>1. /\ cw = "idle" /\ cw \in Running /\ cw' = "finished" /\ Enqueued(Frame("bye", 0, 0, <<>>))
      /\ UNCHANGED <<agreed, given, short, tasks, nextKey, pending, ri, cur, sent, done,
                     skipped, s2c, link, server>>
  BY DEF Finish, Running
<1>2. UNCHANGED <<sv, su, got, disk, received, rejected, accepted, mode_, acceptMode,
                  integrity, cver>>
  BY <1>1 DEF server, agreed, fixed
<1>3. PICK f \in FrameSet : f = Frame("bye", 0, 0, <<>>) /\ f.kind = "bye"
  <2>1. Frame("bye", 0, 0, <<>>) \in FrameSet
    BY DEF Frame, FrameSet, Kinds, Data
  <2> QED BY <2>1 DEF Frame
<1>4. FrameKept
  BY <1>1, <1>2 DEF FrameKept, FrameOK
<1>5. cur' \in Nat /\ cur <= cur' /\ cw' \in Running \cup {"finished"}
  BY <1>1, UploadAssumption DEF UploadInv, TypeOK
<1>6. PICK p : p = There
  OBVIOUS
<1>7. p = Between
  BY <1>1, <1>6 DEF There
<1>8. Fits(p, f)'
  BY <1>3, <1>7 DEF Fits, Between, Place
<1>9. FrameOK(f)' /\ ~Header(f)
  BY <1>3 DEF FrameOK, Header
<1>10. Hand' /\ Wire' /\ Disk' /\ Meet' /\ c2s' \in Seq(FrameSet)
  BY <1>1, <1>3, <1>4, <1>5, <1>6, <1>8, <1>9, SendStep
<1>11. Told'
  BY <1>1, <1>2, ToldKept DEF UploadInv
<1>12. TypeOK'
  <2>1. cw' \in ClientPc
    BY <1>1 DEF ClientPc
  <2> QED BY <1>1, <1>2, <1>10, <2>1 DEF UploadInv, TypeOK
<1>13. Queue' /\ Batch' /\ Judgement' /\ OnTheWay' /\ Unanswered'
  BY <1>1, Ended DEF Running
<1> QED BY <1>10, <1>11, <1>12, <1>13 DEF UploadInv

-----------------------------------------------------------------------------
(* The connection ends or drops *)

\* The connection is down, and a suffix of what was under way may be lost.
LEMMA DownStep ==
  ASSUME UploadInv, link = "up", link' = "down",
         UNCHANGED <<agreed, given, client, server>>,
         NEW n \in 0 .. Len(c2s), c2s' = SubSeq(c2s, 1, n),
         NEW m \in 0 .. Len(s2c), s2c' = SubSeq(s2c, 1, m)
  PROVE  UploadInv'
<1>1. UNCHANGED <<sv, su, got, disk, received, rejected, accepted, mode_, acceptMode,
                  integrity, cver>>
  BY DEF server, agreed, fixed
<1>2. UNCHANGED <<tasks, cw, nextKey, pending, ri, cur, sent, short, done, skipped>>
  BY DEF client
<1>3. /\ n \in Nat /\ Len(c2s) \in Nat /\ n <= Len(c2s)
      /\ c2s' \in Seq(FrameSet) /\ Len(c2s') = n /\ \A k \in 1 .. n : c2s'[k] = c2s[k]
  <2>1. c2s \in Seq(FrameSet)
    BY DEF UploadInv, TypeOK
  <2>2. Len(c2s) \in Nat
    BY <2>1
  <2> QED BY <2>1, <2>2, FrontFacts
<1>4. /\ m \in Nat /\ Len(s2c) \in Nat /\ m <= Len(s2c)
      /\ s2c' \in Seq(Replies) /\ Len(s2c') = m /\ \A k \in 1 .. m : s2c'[k] = s2c[k]
  <2>1. s2c \in Seq(Replies)
    BY DEF UploadInv, TypeOK
  <2>2. Len(s2c) \in Nat
    BY <2>1
  <2> QED BY <2>1, <2>2, FrontFacts
<1>5. TypeOK'
  BY <1>1, <1>2, <1>3, <1>4 DEF UploadInv, TypeOK
<1>6. /\ c2s = <<>> => c2s' = <<>>
      /\ s2c = <<>> => s2c' = <<>>
      /\ s2c' # <<>> => s2c # <<>> /\ (Len(s2c) = 1 => m = 1) /\ 1 \in 1 .. m
  <2>1. c2s \in Seq(FrameSet) /\ s2c \in Seq(Replies)
    BY DEF UploadInv, TypeOK
  <2>2. (c2s = <<>> <=> Len(c2s) = 0) /\ (s2c = <<>> <=> Len(s2c) = 0)
    BY <2>1, EmptyFacts
  <2>3. (c2s' = <<>> <=> n = 0) /\ (s2c' = <<>> <=> m = 0)
    BY <1>3, <1>4, EmptyFacts
  <2> QED BY <1>3, <1>4, <2>2, <2>3
<1>7. Hand'
  <2>1. Blank => Blank'
    BY <1>1, <1>2 DEF Blank
  <2>2. Len(c2s) <= 1 => Len(c2s') <= 1
    BY <1>3
  <2>3. s2c' # <<>> => s2c # <<>> /\ s2c'[1] = s2c[1] /\ (Len(s2c) = 1 => Len(s2c') = 1)
    BY <1>4, <1>6
  <2> QED BY <1>1, <1>2, <1>6, <2>1, <2>2, <2>3 DEF UploadInv, Hand
<1>8. Queue' /\ Batch' /\ Base' = Base /\ Judged' = Judged /\ Judgement'
  BY <1>1, <1>2, QueueKept, BatchKept, JudgementKept DEF UploadInv
<1>9. OnTheWay'
  <2> SUFFICES ASSUME cw \in Running
               PROVE  /\ \A i \in 1 .. m : /\ s2c'[i] \in ProbeReply
                                           /\ Base + Judged <= s2c'[i].key /\ s2c'[i].key < nextKey
                                           /\ Verdict(s2c[i].key, s2c[i].accepted)'
                      /\ \A i, j \in 1 .. m : i < j => s2c'[i].key < s2c'[j].key
    BY <1>2, <1>4, <1>8 DEF OnTheWay
  <2>1. \A i \in 1 .. m : i \in 1 .. Len(s2c) /\ s2c'[i] = s2c[i]
    BY <1>4
  <2> QED BY <1>1, <1>2, <2>1 DEF UploadInv, OnTheWay, Verdict
<1>10. Unanswered'
  <2> SUFFICES ASSUME cw \in Running, sv # "closed", NEW i \in 1 .. n, c2s'[i].kind = "probe"
               PROVE  /\ Base + Judged <= c2s'[i].key
                      /\ \A j \in 1 .. m : s2c'[j].key < c2s'[i].key
    BY <1>1, <1>2, <1>3, <1>4, <1>8 DEF Unanswered
  <2>1. i \in 1 .. Len(c2s) /\ c2s'[i] = c2s[i]
    BY <1>3
  <2>2. \A j \in 1 .. m : j \in 1 .. Len(s2c) /\ s2c'[j] = s2c[j]
    BY <1>4
  <2> QED BY <2>1, <2>2 DEF UploadInv, Unanswered
<1>11. FrameKept /\ Here' = Here
  BY <1>1, <1>2 DEF FrameKept, FrameOK, Here
<1>12. Wire'
  BY <1>1, <1>2, <1>3, <1>11, WirePrefix DEF UploadInv
<1>13. Meet'
  BY DEF Meet
<1>14. Disk' /\ Told'
  <2>1. cur \in Nat
    BY UploadAssumption DEF UploadInv, TypeOK
  <2> QED BY <1>1, <1>2, <2>1, DiskKept, ToldKept DEF UploadInv
<1> QED BY <1>5, <1>7, <1>8, <1>9, <1>10, <1>12, <1>13, <1>14 DEF UploadInv

LEMMA DropStep ==
  ASSUME UploadInv, Drop
  PROVE  UploadInv'
  BY DownStep DEF Drop

LEMMA DisconnectStep ==
  ASSUME UploadInv, Disconnect
  PROVE  UploadInv'
<1>1. c2s \in Seq(FrameSet) /\ s2c \in Seq(Replies)
  BY DEF UploadInv, TypeOK
<1>2. PICK n \in Nat, m \in Nat : n = Len(c2s) /\ m = Len(s2c)
  BY <1>1
<1>3. c2s = SubSeq(c2s, 1, n)
  BY <1>1, <1>2, SubSeqFull
<1>4. s2c = SubSeq(s2c, 1, m)
  BY <1>1, <1>2, SubSeqFull
<1>5. n \in 0 .. Len(c2s) /\ m \in 0 .. Len(s2c)
  BY <1>2
<1>6. /\ link = "up" /\ link' = "down" /\ UNCHANGED <<agreed, given, client, server>>
      /\ c2s' = SubSeq(c2s, 1, n) /\ s2c' = SubSeq(s2c, 1, m)
  BY <1>3, <1>4 DEF Disconnect
<1> QED BY <1>5, <1>6, DownStep

-----------------------------------------------------------------------------
(* The server *)

\* The frame at the head of the stream.
LEMMA FirstFrame ==
  ASSUME UploadInv, sv # "closed", c2s # <<>>
  PROVE  /\ c2s[1] \in FrameSet /\ Head(c2s) = c2s[1] /\ FrameOK(c2s[1])
         /\ Fits(Here, c2s[1]) /\ Tail(c2s) \in Seq(FrameSet)
         /\ 1 \in 1 .. Len(c2s)
<1>1. c2s \in Seq(FrameSet)
  BY DEF UploadInv, TypeOK
<1>2. /\ Tail(c2s) \in Seq(FrameSet) /\ Len(c2s) \in Nat /\ Len(c2s) >= 1
      /\ Head(c2s) = c2s[1] /\ c2s[1] \in FrameSet
  BY <1>1, TailFacts
<1>3. 1 \in 1 .. Len(c2s)
  BY <1>2
<1>4. FrameOK(c2s[1]) /\ Fits(Before(1), c2s[1])
  BY <1>3 DEF UploadInv, Wire
<1> QED BY <1>2, <1>3, <1>4 DEF Before

\* A header under way is of a client that has left the handshake.
LEMMA HeaderMeansShaken ==
  ASSUME UploadInv, NEW f \in FrameSet, FrameOK(f), Header(f)
  PROVE  cw \notin Shaking
<1>1. ASSUME Blank PROVE FALSE
  <2>1. f.unit \in Nat /\ f.key \in Nat /\ (nextKey = 0 /\ cur = 0)
    BY <1>1 DEF FrameSet, Blank
  <2> QED BY <2>1 DEF FrameOK, Header, Unit
<1> QED BY <1>1 DEF UploadInv, Hand

\* What a step of the server that answers no probe leaves as it was.
LEMMA ServerKeeps ==
  ASSUME UploadInv, UNCHANGED <<agreed, given, client, s2c, rejected>>,
         sv # "closed", sv' \in {"unit", "blocks", "closed"}, sv = "hello" => sv' = "closed",
         (c2s # <<>> /\ c2s' = Tail(c2s)) \/ (c2s' = c2s /\ sv' = "closed"),
         link' \in {link, "down"}, sv' = "closed" => link' = "down",
         cw \notin Shaking \/ (UNCHANGED <<su, accepted>> /\ sv' # "blocks"),
         DOMAIN accepted' \subseteq DOMAIN accepted,
         \A key \in DOMAIN accepted' : accepted'[key] = accepted[key],
         \A key \in DOMAIN accepted : key >= cur => key \in DOMAIN accepted',
         su' \in 0 .. Units, got' \in Seq(BlockSet), disk' \in [Unit -> Seq(BlockSet)],
         received' \in [Unit -> {"none", "ok", "failed"}]
  PROVE  /\ TypeOK' /\ Hand' /\ Queue' /\ Batch' /\ Judgement' /\ OnTheWay' /\ Unanswered'
         /\ Told'
<1>1. UNCHANGED <<tasks, cw, nextKey, pending, ri, cur, sent, short, done, skipped, cver,
                  acceptMode, mode_, integrity>>
  BY DEF client, agreed, fixed
<1>2. c2s' \in Seq(FrameSet)
  BY FirstFrame DEF UploadInv, TypeOK
<1>3. TypeOK'
  BY <1>1, <1>2 DEF UploadInv, TypeOK
<1>4. Hand'
  <2>1. cw \in Shaking => Blank' /\ sv' # "blocks"
    <3>1. cw \in Shaking => Blank
      BY DEF UploadInv, Hand
    <3> QED BY <1>1, <3>1 DEF Blank
  <2>2. cw \notin {"dial", "proxy", "again"}
    BY DEF UploadInv, Hand
  <2>3. cw \in {"tls", "connect"} => s2c = <<>> /\ c2s = <<>> /\ sv' = "closed" /\ c2s' = <<>>
    BY DEF UploadInv, Hand
  <2>4. cw = "shake" /\ s2c # <<>> =>
          /\ Len(s2c) = 1 /\ s2c[1] \in ShakeReply
          /\ s2c[1].status = "ok" => (s2c[1].mode <=> mode_) /\ (mode_ => cver >= 2)
          /\ s2c[1].status = "ok"
    BY DEF UploadInv, Hand
  <2>5. (cw \in Running => (acceptMode <=> mode_)) /\ (~mode_ => rejected = {})
    BY DEF UploadInv, Hand
  <2> QED BY <1>1, <2>1, <2>2, <2>3, <2>4, <2>5 DEF Hand
<1>5. Queue' /\ Batch' /\ Base' = Base /\ Judged' = Judged
  BY <1>1, QueueKept, BatchKept DEF UploadInv
<1>6. ASSUME NEW k, NEW ok, Verdict(k, ok) PROVE Verdict(k, ok)'
  BY <1>1, <1>6 DEF Verdict
<1>7. Judgement'
  <2> SUFFICES ASSUME cw \in Running, NEW j \in 1 .. Judged
               PROVE  Verdict(pending[j].key, pending[j].accepted)'
    BY <1>1, <1>5 DEF Judgement
  <2>1. PICK k, ok : k = pending[j].key /\ ok = pending[j].accepted
    OBVIOUS
  <2>2. Verdict(k, ok)
    BY <2>1 DEF UploadInv, Judgement
  <2>3. Verdict(k, ok)'
    BY <1>6, <2>2
  <2> QED BY <1>1, <2>1, <2>3 DEF Verdict
<1>8. OnTheWay'
  <2>1. ASSUME cw \in Running, NEW i \in 1 .. Len(s2c)
        PROVE  Verdict(s2c[i].key, s2c[i].accepted)'
    <3>1. PICK k, ok : k = s2c[i].key /\ ok = s2c[i].accepted
      OBVIOUS
    <3>2. Verdict(k, ok)
      BY <2>1, <3>1 DEF UploadInv, OnTheWay
    <3>3. Verdict(k, ok)'
      BY <1>6, <3>2
    <3> QED BY <3>1, <3>3 DEF Verdict
  <2> QED BY <1>1, <1>5, <2>1 DEF UploadInv, OnTheWay
<1>9. Unanswered'
  <2> SUFFICES ASSUME cw \in Running, sv' # "closed", NEW i \in 1 .. Len(c2s'),
                      c2s'[i].kind = "probe"
               PROVE  /\ Base + Judged <= c2s'[i].key
                      /\ \A j \in 1 .. Len(s2c) : s2c[j].key < c2s'[i].key
    BY <1>1, <1>5 DEF Unanswered
  <2>1. PICK j \in 1 .. Len(c2s) : c2s'[i] = c2s[j]
    <3>1. c2s \in Seq(FrameSet) /\ c2s # <<>> /\ c2s' = Tail(c2s)
      BY DEF UploadInv, TypeOK
    <3>2. PICK n \in Nat : n = Len(c2s) /\ Len(c2s') = n - 1 /\ \A k \in 1 .. n - 1 : c2s'[k] = c2s[k + 1]
      BY <3>1, TailFacts
    <3>3. i \in 1 .. n - 1 /\ i + 1 \in 1 .. n
      BY <3>2
    <3> QED BY <3>2, <3>3
  <2> QED BY <2>1 DEF UploadInv, Unanswered
<1>10. Told'
  BY <1>1, ToldKept DEF UploadInv
<1> QED BY <1>3, <1>4, <1>5, <1>7, <1>8, <1>9, <1>10

\* The server leaves: nothing more is promised of the stream.
LEMMA LeftStep ==
  ASSUME sv' = "closed", link' = "down"
  PROVE  Wire' /\ Meet'
  BY DEF Wire, Meet

\* The server reads a frame and stays: the rest of the stream fits as before.
LEMMA StayedStep ==
  ASSUME UploadInv, UNCHANGED <<agreed, given, client>>, sv # "closed", sv' # "closed",
         c2s # <<>>, c2s' = Tail(c2s), link' = link, Here' = After(c2s[1]),
         \A f \in FrameSet :
           FrameOK(f) /\ (Header(f) /\ Header(c2s[1]) => UnitOf(c2s[1]) < UnitOf(f))
             => FrameOK(f)'
  PROVE  Wire' /\ Meet'
<1>1. UNCHANGED <<cw, cur, sent, short, integrity>>
  BY DEF client, agreed, fixed
<1>2. Wire' /\ Before(Len(c2s) + 1)' = Before(Len(c2s) + 1)
  BY <1>1, WireTail DEF UploadInv
<1>3. There' = There
  BY <1>1 DEF There
<1> QED BY <1>1, <1>2, <1>3 DEF UploadInv, Meet

\* The server's verdict on a probe.
LEMMA HandleProbeStep ==
  ASSUME UploadInv, handle_probe
  PROVE  UploadInv'
<1>1. PICK f : f = c2s[1]
  OBVIOUS
<1>2. /\ sv = "unit" /\ mode_ /\ c2s # <<>> /\ c2s' = Tail(c2s) /\ Head(c2s).kind = "probe"
      /\ UNCHANGED <<agreed, given, client, link, sv, su, got, disk, received>>
  BY DEF handle_probe, At, Took
<1>3. /\ f \in FrameSet /\ f = Head(c2s) /\ f.kind = "probe" /\ FrameOK(f)
      /\ c2s' \in Seq(FrameSet) /\ 1 \in 1 .. Len(c2s)
  BY <1>1, <1>2, FirstFrame
<1>4. PICK ok \in BOOLEAN : /\ Remember(f, ok) /\ Reply([key |-> f.key, accepted |-> ok])
                            /\ rejected' = IF ok THEN rejected ELSE rejected \cup {f.unit}
  BY <1>3 DEF handle_probe, Answer
<1>5. UNCHANGED <<tasks, cw, nextKey, pending, ri, cur, sent, short, done, skipped, cver,
                  acceptMode, mode_, integrity>>
  BY <1>2 DEF client, agreed, fixed
<1>6. /\ f.key \in Nat /\ f.unit \in Unit /\ f.unit = f.key + 1 /\ cur < f.unit
      /\ f.unit <= nextKey /\ f.unit \notin rejected /\ cur \in Nat /\ su \in Nat /\ su <= cur
      /\ nextKey \in Nat
  <2>1. /\ f.unit \in Unit /\ f.unit = f.key + 1 /\ cur < f.unit /\ f.unit <= nextKey
        /\ f.unit \notin rejected
    BY <1>3 DEF FrameOK
  <2>2. f.key \in Nat
    BY <1>3 DEF FrameSet
  <2>3. cur \in Nat /\ su \in Nat /\ nextKey \in Nat
    BY UploadAssumption DEF UploadInv, TypeOK
  <2>4. su <= cur
    BY DEF UploadInv, Disk
  <2> QED BY <2>1, <2>2, <2>3, <2>4
<1>7. cw \notin Shaking
  BY <1>3, HeaderMeansShaken DEF Header
<1>8. /\ DOMAIN accepted' \subseteq Nat /\ \A key \in DOMAIN accepted' : accepted'[key] = key + 1
      /\ DOMAIN accepted \subseteq DOMAIN accepted' /\ (ok => f.key \in DOMAIN accepted')
  <2>1. DOMAIN accepted \subseteq Nat /\ \A key \in DOMAIN accepted : accepted[key] = key + 1
    BY DEF UploadInv, TypeOK
  <2>2. CASE ok
    <3>1. accepted' = [key \in DOMAIN accepted \cup {f.key} |->
                         IF key = f.key THEN f.unit ELSE accepted[key]]
      BY <1>4, <2>2 DEF Remember
    <3> QED BY <1>6, <2>1, <3>1
  <2>3. CASE ~ok
    BY <1>4, <2>1, <2>3 DEF Remember
  <2> QED BY <2>2, <2>3
<1>9. PICK r \in ProbeReply : /\ r.key = f.key /\ r.accepted = ok
                              /\ s2c' = IF link = "up" THEN Append(s2c, r) ELSE s2c
  <2>1. [key |-> f.key, accepted |-> ok] \in ProbeReply
    BY <1>6 DEF ProbeReply
  <2> QED BY <1>4, <2>1 DEF Reply
<1>10. /\ s2c' \in Seq(Replies) /\ Len(s2c) \in Nat /\ Len(s2c') \in Nat
       /\ \A i \in 1 .. Len(s2c') : \/ i \in 1 .. Len(s2c) /\ s2c'[i] = s2c[i]
                                    \/ i = Len(s2c) + 1 /\ s2c'[i] = r
  <2>1. s2c \in Seq(Replies) /\ r \in Replies
    BY DEF UploadInv, TypeOK, Replies
  <2>2. CASE s2c' = s2c
    BY <2>1, <2>2
  <2>3. CASE s2c' = Append(s2c, r)
    <3>1. /\ s2c' \in Seq(Replies) /\ Len(s2c) \in Nat
          /\ Len(s2c') = Len(s2c) + 1 /\ s2c'[Len(s2c) + 1] = r
          /\ \A k \in 1 .. Len(s2c) : s2c'[k] = s2c[k]
      BY <2>1, <2>3, AppendFacts
    <3> QED BY <3>1
  <2> QED BY <1>9, <2>2, <2>3
<1>11. TypeOK'
  <2>1. rejected' \subseteq Unit
    BY <1>4, <1>6 DEF UploadInv, TypeOK
  <2> QED BY <1>2, <1>3, <1>5, <1>8, <1>10, <2>1 DEF UploadInv, TypeOK
<1>12. Hand'
  <2>1. cw \notin {"dial", "proxy", "tls", "connect", "shake", "again"} /\ sv' = "unit"
    BY <1>2, <1>7 DEF Shaking
  <2>2. cw \in Running => (acceptMode <=> mode_)
    BY DEF UploadInv, Hand
  <2> QED BY <1>2, <1>5, <1>7, <2>1, <2>2 DEF Hand
<1>13. Queue' /\ Batch' /\ Base' = Base /\ Judged' = Judged
  <2>1. \A u \in rejected' : u \in rejected \/ u = f.unit
    BY <1>4
  <2> QED BY <1>2, <1>5, <1>6, <2>1, BatchKept DEF UploadInv, Queue
<1>14. ASSUME NEW k \in Nat, NEW b, Verdict(k, b), k < f.key PROVE Verdict(k, b)'
  <2>1. k + 1 # f.unit
    BY <1>6, <1>14
  <2> QED BY <1>4, <1>5, <1>8, <1>14, <2>1 DEF Verdict
<1>15. Verdict(r.key, r.accepted)'
  BY <1>4, <1>6, <1>8, <1>9 DEF Verdict
<1>16. cw \in Running => Base + Judged <= f.key /\ \A j \in 1 .. Len(s2c) : s2c[j].key < f.key
  BY <1>1, <1>2, <1>3 DEF UploadInv, Unanswered
<1>17. Judgement'
  <2> SUFFICES ASSUME cw \in Running, NEW j \in 1 .. Judged
               PROVE  Verdict(pending[j].key, pending[j].accepted)'
    BY <1>5, <1>13 DEF Judgement
  <2>1. PICK k, b : k = pending[j].key /\ b = pending[j].accepted
    OBVIOUS
  <2>2. Base \in Nat /\ Judged \in Nat /\ j \in Nat /\ j \in 1 .. Len(pending)
    BY BatchNumbers
  <2>3. k = Base + j - 1
    BY <2>1, <2>2 DEF UploadInv, Batch
  <2>4. k \in Nat /\ k < f.key
    BY <1>6, <1>16, <2>2, <2>3
  <2>5. Verdict(k, b)
    BY <2>1 DEF UploadInv, Judgement
  <2>6. Verdict(k, b)'
    BY <1>14, <2>4, <2>5
  <2> QED BY <1>5, <2>1, <2>6 DEF Verdict
<1>18. OnTheWay'
  <2> SUFFICES ASSUME cw \in Running
               PROVE  /\ \A i \in 1 .. Len(s2c') : /\ s2c'[i] \in ProbeReply
                                                   /\ Base + Judged <= s2c'[i].key
                                                   /\ s2c'[i].key < nextKey
                                                   /\ Verdict(s2c[i].key, s2c[i].accepted)'
                      /\ \A i, j \in 1 .. Len(s2c') : i < j => s2c'[i].key < s2c'[j].key
    BY <1>5, <1>13 DEF OnTheWay
  <2>1. /\ \A i \in 1 .. Len(s2c) : /\ s2c[i] \in ProbeReply
                                    /\ Base + Judged <= s2c[i].key /\ s2c[i].key < nextKey
                                    /\ Verdict(s2c[i].key, s2c[i].accepted)
        /\ \A i, j \in 1 .. Len(s2c) : i < j => s2c[i].key < s2c[j].key
    BY DEF UploadInv, OnTheWay
  <2>2. ASSUME NEW i \in 1 .. Len(s2c')
        PROVE  /\ s2c'[i] \in ProbeReply /\ Base + Judged <= s2c'[i].key
               /\ s2c'[i].key < nextKey /\ Verdict(s2c[i].key, s2c[i].accepted)'
    <3>1. CASE i = Len(s2c) + 1 /\ s2c'[i] = r
      <4>1. f.key < nextKey
        BY <1>6
      <4> QED BY <1>9, <1>15, <1>16, <3>1, <4>1 DEF Verdict
    <3>2. CASE i \in 1 .. Len(s2c) /\ s2c'[i] = s2c[i]
      <4>1. PICK k, b : k = s2c[i].key /\ b = s2c[i].accepted
        OBVIOUS
      <4>2. k \in Nat /\ k < f.key /\ Verdict(k, b)
        BY <1>16, <2>1, <3>2, <4>1 DEF ProbeReply
      <4>3. Verdict(k, b)'
        BY <1>14, <4>2
      <4> QED BY <2>1, <3>2, <4>1, <4>3 DEF Verdict
    <3> QED BY <1>10, <3>1, <3>2
  <2>3. ASSUME NEW i \in 1 .. Len(s2c'), NEW j \in 1 .. Len(s2c'), i < j
        PROVE  s2c'[i].key < s2c'[j].key
    <3>1. i \in 1 .. Len(s2c) /\ s2c'[i] = s2c[i]
      BY <1>10, <2>3
    <3>2. CASE j = Len(s2c) + 1 /\ s2c'[j] = r
      BY <1>9, <1>16, <3>1, <3>2
    <3>3. CASE j \in 1 .. Len(s2c) /\ s2c'[j] = s2c[j]
      BY <2>1, <2>3, <3>1, <3>3
    <3> QED BY <1>10, <3>2, <3>3
  <2> QED BY <2>2, <2>3
<1>19. Unanswered'
  <2> SUFFICES ASSUME cw \in Running, NEW i \in 1 .. Len(c2s'), c2s'[i].kind = "probe"
               PROVE  /\ Base + Judged <= c2s'[i].key
                      /\ \A j \in 1 .. Len(s2c') : s2c'[j].key < c2s'[i].key
    BY <1>5, <1>13 DEF Unanswered
  <2>1. PICK l \in 1 .. Len(c2s) : c2s'[i] = c2s[l] /\ 1 < l
    <3>1. c2s \in Seq(FrameSet)
      BY DEF UploadInv, TypeOK
    <3>2. PICK n \in Nat : n = Len(c2s) /\ Len(c2s') = n - 1 /\ \A k \in 1 .. n - 1 : c2s'[k] = c2s[k + 1]
      BY <1>2, <3>1, TailFacts
    <3>3. i \in 1 .. n - 1 /\ i + 1 \in 1 .. n /\ 1 < i + 1
      BY <3>2
    <3> QED BY <3>2, <3>3
  <2>2. PICK g \in FrameSet : g = c2s[l] /\ FrameOK(g) /\ g.kind = "probe"
    BY <1>2, <2>1 DEF UploadInv, TypeOK, Wire
  <2>3. UnitOf(f) < UnitOf(g)
    BY <1>1, <1>2, <1>3, <2>1, <2>2 DEF UploadInv, Wire, Header
  <2>4. g.unit = g.key + 1 /\ g.key \in Nat
    BY <2>2 DEF FrameOK, FrameSet
  <2>5. f.key < g.key
    BY <1>3, <1>6, <2>2, <2>3, <2>4 DEF UnitOf
  <2>6. Base + Judged <= g.key /\ \A j \in 1 .. Len(s2c) : s2c[j].key < g.key
    BY <1>2, <2>2 DEF UploadInv, Unanswered
  <2>7. \A j \in 1 .. Len(s2c') : s2c'[j].key < g.key
    BY <1>9, <1>10, <2>5, <2>6
  <2> QED BY <2>1, <2>2, <2>6, <2>7
<1>20. Wire' /\ Meet'
  <2>1. Here' = After(f)
    BY <1>2, <1>3 DEF Here, After, Between
  <2>2. ASSUME NEW g \in FrameSet, FrameOK(g), Header(g) => UnitOf(f) < UnitOf(g)
        PROVE  FrameOK(g)'
    <3>1. Header(g) => UnitOf(g) # f.unit /\ UnitOf(g) \notin {f.unit}
      <4>1. UnitOf(f) = f.unit /\ f.unit \in Nat
        BY <1>3, <1>6 DEF UnitOf, Unit
      <4> QED BY <2>2, <4>1
    <3>2. CASE g.kind \in {"probe", "accepted"}
      <4>1. UnitOf(g) \notin rejected => UnitOf(g) \notin rejected'
        BY <1>4, <3>1, <3>2 DEF Header
      <4> QED BY <1>2, <1>5, <1>8, <2>2, <3>2, <4>1 DEF FrameOK, UnitOf
    <3>3. CASE g.kind \notin {"probe", "accepted"}
      BY <1>2, <1>5, <2>2, <3>3 DEF FrameOK
    <3> QED BY <3>2, <3>3
  <2>3. Header(f)
    BY <1>3 DEF Header
  <2> QED BY <1>1, <1>2, <2>1, <2>2, <2>3, StayedStep
<1>21. Disk'
  <2>1. f.unit > su /\ disk[f.unit] = NoFile
    BY <1>6 DEF UploadInv, Disk, Unit
  <2>2. NoMisrouting' /\ OkMeansComplete' /\ RejectedNeverWritten'
    BY <1>2, <1>4, <1>5, <2>1 DEF UploadInv, Disk, NoMisrouting, OkMeansComplete, RejectedNeverWritten
  <2> QED BY <1>2, <1>5, <2>2 DEF UploadInv, Disk
<1>22. Told'
  <2>1. done[f.unit] = "none" /\ cur # f.unit
    BY <1>6 DEF UploadInv, Told, Unit
  <2>2. VerdictsAgree'
    BY <1>4, <1>5, <2>1 DEF UploadInv, Told, VerdictsAgree
  <2> QED BY <1>4, <1>5, <2>1, <2>2 DEF UploadInv, Told
<1> QED BY <1>11, <1>12, <1>13, <1>17, <1>18, <1>19, <1>20, <1>21, <1>22 DEF UploadInv

\* The unit a header opens: the next one, which nobody has rejected.
LEMMA Opened ==
  ASSUME UploadInv, sv = "unit", c2s # <<>>, NEW f, f = c2s[1], f.kind \in {"accepted", "unit"},
         accepted' = [key \in DOMAIN accepted \ {f.key} |-> accepted[key]]
  PROVE  /\ f \in FrameSet /\ FrameOK(f) /\ Header(f) /\ OpenedUnit(f) = UnitOf(f)
         /\ UnitOf(f) \in Unit /\ UnitOf(f) \in Nat /\ su \in Nat /\ cur \in Nat
         /\ su < UnitOf(f) /\ UnitOf(f) <= cur /\ UnitOf(f) \notin rejected
         /\ UnitOf(f) \in 0 .. Units /\ cw \notin Shaking /\ received[UnitOf(f)] = "none"
         /\ f.kind = "accepted" => mode_ /\ f.key \in DOMAIN accepted
         /\ f.kind = "unit" => ~mode_
         /\ DOMAIN accepted' = DOMAIN accepted \ {f.key}
         /\ \A key \in DOMAIN accepted' : accepted'[key] = accepted[key]
         /\ \A key \in DOMAIN accepted : key >= cur => key \in DOMAIN accepted'
<1>1. f \in FrameSet /\ FrameOK(f) /\ Header(f)
  BY FirstFrame DEF Header
<1>2. f.key \in Nat /\ su \in Nat /\ cur \in Nat
  BY <1>1, UploadAssumption DEF UploadInv, TypeOK, FrameSet
<1>3. /\ UnitOf(f) \in Unit /\ su < UnitOf(f) /\ UnitOf(f) <= cur
      /\ f.kind = "accepted" => mode_ /\ f.key \in DOMAIN accepted
      /\ f.kind = "unit" => ~mode_ /\ f.key = 0
  BY <1>1 DEF FrameOK, UnitOf
<1>4. UnitOf(f) \in Nat /\ UnitOf(f) \in 0 .. Units /\ UnitOf(f) >= 1
  BY <1>3, UploadAssumption DEF Unit
<1>5. UnitOf(f) \notin rejected
  BY <1>1 DEF FrameOK, UnitOf, UploadInv, Hand
<1>6. OpenedUnit(f) = UnitOf(f)
  BY <1>3 DEF OpenedUnit, UnitOf, UploadInv, TypeOK
<1>7. received[UnitOf(f)] = "none"
  BY <1>2, <1>3, <1>4 DEF UploadInv, Disk
<1>8. f.key < cur
  BY <1>2, <1>3, <1>4 DEF UnitOf
<1>9. \A key \in DOMAIN accepted : key \in Nat
  BY DEF UploadInv, TypeOK
<1>10. /\ DOMAIN accepted' = DOMAIN accepted \ {f.key}
       /\ \A key \in DOMAIN accepted' : accepted'[key] = accepted[key]
  OBVIOUS
<1>11. \A key \in DOMAIN accepted : key >= cur => key # f.key
  BY <1>2, <1>8, <1>9
<1>12. cw \notin Shaking
  BY <1>1, HeaderMeansShaken
<1> QED BY <1>1, <1>2, <1>3, <1>4, <1>5, <1>6, <1>7, <1>10, <1>11, <1>12

LEMMA BeginReceiveStep ==
  ASSUME UploadInv, BeginReceive
  PROVE  UploadInv'
<1>1. PICK f : f = c2s[1]
  OBVIOUS
<1>2. /\ sv = "unit" /\ c2s # <<>> /\ c2s' = Tail(c2s) /\ Head(c2s) = f
      /\ f.kind \in {"accepted", "unit"}
      /\ UNCHANGED <<agreed, given, client, s2c, received, rejected>>
  BY <1>1, FirstFrame DEF BeginReceive, At, Took
<1>3. f \in FrameSet /\ FrameOK(f)
  BY <1>1, <1>2, FirstFrame
<1>4. /\ su' = OpenedUnit(f) /\ disk' = [disk EXCEPT ![OpenedUnit(f)] = <<>>]
      /\ accepted' = [key \in DOMAIN accepted \ {f.key} |-> accepted[key]]
      /\ sv' = "blocks" /\ got' = <<>> /\ link' = link
  BY <1>2, <1>3 DEF BeginReceive, FrameOK
<1>5. PICK u \in Unit :
        /\ u = UnitOf(f) /\ Header(f) /\ OpenedUnit(f) = u /\ u \in Nat /\ su \in Nat
        /\ cur \in Nat /\ su < u /\ u <= cur /\ u \notin rejected /\ u \in 0 .. Units
        /\ cw \notin Shaking /\ received[u] = "none"
        /\ f.kind = "accepted" => mode_ /\ f.key \in DOMAIN accepted
        /\ f.kind = "unit" => ~mode_
        /\ DOMAIN accepted' = DOMAIN accepted \ {f.key}
        /\ \A key \in DOMAIN accepted' : accepted'[key] = accepted[key]
        /\ \A key \in DOMAIN accepted : key >= cur => key \in DOMAIN accepted'
  BY <1>1, <1>2, <1>4, Opened
<1>6. <<>> \in Seq(BlockSet)
  OBVIOUS
<1>7. /\ disk' \in [Unit -> Seq(BlockSet)] /\ disk'[u] = <<>>
      /\ \A v \in Unit : v # u => disk'[v] = disk[v]
  BY <1>4, <1>5, <1>6 DEF UploadInv, TypeOK
<1>8. received' \in [Unit -> {"none", "ok", "failed"}]
  BY <1>2 DEF UploadInv, TypeOK
<1>9. TypeOK' /\ Hand' /\ Queue' /\ Batch' /\ Judgement' /\ OnTheWay' /\ Unanswered' /\ Told'
  BY <1>2, <1>4, <1>5, <1>6, <1>7, <1>8, ServerKeeps
<1>10. UNCHANGED <<cur, nextKey, short, cver, mode_, integrity>>
  BY <1>2 DEF client, agreed, fixed
<1>11. Len(<<>>) = 0 /\ Content(u, 0) = <<>>
  BY <1>5, ContentGrows
<1>12. Wire' /\ Meet'
  <2>1. Here' = After(f)
    BY <1>2, <1>4, <1>5, <1>11 DEF Here, After, UnitOf
  <2>2. ASSUME NEW g \in FrameSet, FrameOK(g), Header(g) => UnitOf(f) < UnitOf(g)
        PROVE  FrameOK(g)'
    <3>1. CASE g.kind = "accepted"
      <4>1. u < g.key + 1 /\ mode_ /\ g.key \in Nat
        BY <1>5, <2>2, <3>1 DEF UnitOf, Header, FrameOK, FrameSet
      <4>2. f.kind = "accepted" /\ u = f.key + 1 /\ f.key \in Nat
        BY <1>2, <1>3, <1>5, <4>1 DEF UnitOf, FrameSet
      <4>3. g.key # f.key
        BY <4>1, <4>2
      <4> QED BY <1>2, <1>4, <1>5, <1>10, <2>2, <3>1, <4>1, <4>3 DEF FrameOK
    <3>2. CASE g.kind = "unit"
      <4>1. u < g.unit
        BY <1>5, <2>2, <3>2 DEF UnitOf, Header
      <4> QED BY <1>4, <1>5, <1>10, <2>2, <3>2, <4>1 DEF FrameOK
    <3>3. CASE g.kind \notin {"accepted", "unit"}
      BY <1>2, <1>10, <2>2, <3>3 DEF FrameOK
    <3> QED BY <3>1, <3>2, <3>3
  <2> QED BY <1>1, <1>2, <1>4, <1>5, <2>1, <2>2, StayedStep
<1>13. Disk'
  <2>1. \A v \in Unit : v > u => v > su /\ v # u
    BY <1>5 DEF Unit
  <2>2. NoMisrouting'
    BY <1>7, <1>11 DEF UploadInv, Disk, NoMisrouting
  <2>3. OkMeansComplete' /\ RejectedNeverWritten'
    BY <1>2, <1>5, <1>7, <1>10 DEF UploadInv, TypeOK, Disk, OkMeansComplete, RejectedNeverWritten
  <2>4. \A v \in Unit : v > su' => disk'[v] = NoFile /\ received'[v] = "none"
    BY <1>2, <1>4, <1>5, <1>7, <2>1 DEF UploadInv, Disk
  <2> QED BY <1>2, <1>4, <1>5, <1>7, <1>10, <1>11, <2>2, <2>3, <2>4 DEF Disk
<1> QED BY <1>9, <1>12, <1>13 DEF UploadInv

LEMMA OpenFailsStep ==
  ASSUME UploadInv, OpenFails
  PROVE  UploadInv'
<1>1. PICK f : f = c2s[1]
  OBVIOUS
<1>2. /\ sv = "unit" /\ c2s # <<>> /\ c2s' = Tail(c2s) /\ Head(c2s) = f
      /\ f.kind \in {"accepted", "unit"} /\ sv' = "closed" /\ link' = "down"
      /\ UNCHANGED <<agreed, given, client, s2c, got, disk, rejected>>
      /\ su' = OpenedUnit(f) /\ received' = [received EXCEPT ![OpenedUnit(f)] = "failed"]
      /\ accepted' = [key \in DOMAIN accepted \ {f.key} |-> accepted[key]]
  BY <1>1, FirstFrame DEF OpenFails, At, Took, Leave
<1>3. PICK u \in Unit :
        /\ OpenedUnit(f) = u /\ u \in Nat /\ su \in Nat
        /\ cur \in Nat /\ su < u /\ u <= cur /\ u \in 0 .. Units /\ cw \notin Shaking
        /\ DOMAIN accepted' = DOMAIN accepted \ {f.key}
        /\ \A key \in DOMAIN accepted' : accepted'[key] = accepted[key]
        /\ \A key \in DOMAIN accepted : key >= cur => key \in DOMAIN accepted'
  BY <1>1, <1>2, Opened
<1>4. /\ received' \in [Unit -> {"none", "ok", "failed"}] /\ received'[u] = "failed"
      /\ \A v \in Unit : v # u => received'[v] = received[v]
  BY <1>2, <1>3 DEF UploadInv, TypeOK
<1>5. got' \in Seq(BlockSet) /\ disk' \in [Unit -> Seq(BlockSet)]
  BY <1>2 DEF UploadInv, TypeOK
<1>6. TypeOK' /\ Hand' /\ Queue' /\ Batch' /\ Judgement' /\ OnTheWay' /\ Unanswered' /\ Told'
  BY <1>2, <1>3, <1>4, <1>5, ServerKeeps
<1>7. UNCHANGED <<cur, short>>
  BY <1>2 DEF client
<1>8. Disk'
  <2>1. \A v \in Unit : v > u => v > su /\ v # u
    BY <1>3 DEF Unit
  <2>2. NoMisrouting' /\ OkMeansComplete' /\ RejectedNeverWritten'
    BY <1>2, <1>4, <1>7 DEF UploadInv, Disk, NoMisrouting, OkMeansComplete, RejectedNeverWritten
  <2> QED BY <1>2, <1>3, <1>4, <1>7, <2>1, <2>2 DEF UploadInv, Disk
<1> QED BY <1>2, <1>6, <1>8, LeftStep DEF UploadInv

\* The server's unit while it is received.
LEMMA Receiving ==
  ASSUME UploadInv, sv = "blocks"
  PROVE  /\ su \in Unit /\ su \in Nat /\ su \in 0 .. Units /\ cw \notin Shaking
         /\ got \in Seq(BlockSet) /\ Len(got) \in Nat
         /\ received[su] = "none" /\ su \notin rejected
         /\ disk[su] = got /\ got = Content(su, Len(got))
<1>1. su \in Unit /\ su \in 0 .. Units /\ got \in Seq(BlockSet)
  BY DEF UploadInv, TypeOK, Disk
<1>2. su \in Nat /\ Len(got) \in Nat
  BY <1>1 DEF Unit
<1>3. cw \notin Shaking
  BY DEF UploadInv, Hand
<1> QED BY <1>1, <1>2, <1>3 DEF UploadInv, Disk

LEMMA ReceiveBlockStep ==
  ASSUME UploadInv, ReceiveBlock
  PROVE  UploadInv'
<1>1. PICK f : f = c2s[1]
  OBVIOUS
<1>2. /\ sv = "blocks" /\ c2s # <<>> /\ c2s' = Tail(c2s) /\ Head(c2s) = f /\ f.kind = "data"
      /\ disk' = [disk EXCEPT ![su] = Append(@, f.data)] /\ got' = Append(got, f.data)
      /\ UNCHANGED <<agreed, given, client, s2c, link, sv, accepted, su, received, rejected>>
  BY <1>1, FirstFrame DEF ReceiveBlock, At, Took
<1>3. PICK n \in Nat :
        /\ n = Len(got) /\ su \in Unit /\ su \in Nat /\ su \in 0 .. Units /\ cw \notin Shaking
        /\ received[su] = "none" /\ su \notin rejected
        /\ disk[su] = got /\ got = Content(su, n)
  BY <1>2, Receiving
<1>4. f.data = Block(su, n + 1)
  <2>1. Fits(Here, f) /\ Here = Place("blocks", su, n)
    BY <1>1, <1>2, <1>3, FirstFrame DEF Here
  <2> QED BY <1>2, <2>1 DEF Fits, Place
<1>5. got' = Content(su, n + 1) /\ got' \in Seq(BlockSet) /\ Len(got') = n + 1
  <2>1. n + 1 \in Nat
    BY <1>3
  <2>2. Append(Content(su, n), Block(su, n + 1)) = Content(su, n + 1)
    BY <1>3, ContentGrows
  <2>3. Content(su, n + 1) \in Seq(BlockSet) /\ Len(Content(su, n + 1)) = n + 1
    BY <1>3, <2>1, ContentGrows
  <2> QED BY <1>2, <1>3, <1>4, <2>2, <2>3
<1>6. /\ disk' \in [Unit -> Seq(BlockSet)] /\ disk'[su] = got'
      /\ \A v \in Unit : v # su => disk'[v] = disk[v]
  <2>1. disk' = [disk EXCEPT ![su] = got']
    BY <1>2, <1>3
  <2> QED BY <1>3, <1>5, <2>1 DEF UploadInv, TypeOK
<1>7. received' \in [Unit -> {"none", "ok", "failed"}]
  BY <1>2 DEF UploadInv, TypeOK
<1>8. TypeOK' /\ Hand' /\ Queue' /\ Batch' /\ Judgement' /\ OnTheWay' /\ Unanswered' /\ Told'
  BY <1>2, <1>3, <1>5, <1>6, <1>7, ServerKeeps
<1>9. UNCHANGED <<cur, nextKey, short, cver, mode_, integrity>>
  BY <1>2 DEF client, agreed, fixed
<1>10. Wire' /\ Meet'
  <2>1. Here' = After(f)
    <3>1. f.data[1] = su /\ f.data[2] = n + 1
      BY <1>4, BlockParts
    <3> QED BY <1>2, <1>5, <3>1 DEF Here, After
  <2>2. \A g \in FrameSet : FrameOK(g) => FrameOK(g)'
    BY <1>2, <1>9 DEF FrameOK
  <2> QED BY <1>1, <1>2, <2>1, <2>2, StayedStep
<1>11. Disk'
  <2>1. \A v \in Unit : v > su => v # su
    BY <1>3 DEF Unit
  <2>2. NoMisrouting'
    BY <1>5, <1>6 DEF UploadInv, Disk, NoMisrouting
  <2>3. OkMeansComplete' /\ RejectedNeverWritten'
    BY <1>2, <1>3, <1>6, <1>9 DEF UploadInv, TypeOK, Disk, OkMeansComplete, RejectedNeverWritten
  <2>4. \A v \in Unit : v > su' => disk'[v] = NoFile /\ received'[v] = "none"
    BY <1>2, <1>6, <2>1 DEF UploadInv, Disk
  <2>5. su' <= cur'
    BY <1>2, <1>9 DEF UploadInv, Disk
  <2> QED BY <1>2, <1>3, <1>5, <1>6, <2>2, <2>3, <2>4, <2>5 DEF Disk
<1> QED BY <1>8, <1>10, <1>11 DEF UploadInv

\* A unit that ends without success, and a server that leaves.
LEMMA LeaveStep ==
  ASSUME UploadInv, sv # "closed", sv' = "closed", link' = "down",
         UNCHANGED <<agreed, given, client, s2c, accepted, su, got, disk, rejected>>,
         (c2s # <<>> /\ c2s' = Tail(c2s)) \/ c2s' = c2s,
         received' = received
           \/ (sv = "blocks" /\ received' = [received EXCEPT ![su] = "failed"])
  PROVE  UploadInv'
<1>1. /\ received' \in [Unit -> {"none", "ok", "failed"}]
      /\ \A v \in Unit : received'[v] = "ok" => received[v] = "ok"
      /\ \A v \in Unit : v > su => received'[v] = received[v]
  <2>1. su \in Nat /\ \A v \in Unit : v > su => v # su
    BY UploadAssumption DEF UploadInv, TypeOK, Unit
  <2> QED BY <2>1 DEF UploadInv, TypeOK
<1>2. UNCHANGED <<cur, short>>
  BY DEF client
<1>3. su' \in 0 .. Units /\ got' \in Seq(BlockSet) /\ disk' \in [Unit -> Seq(BlockSet)]
  BY DEF UploadInv, TypeOK
<1>4. TypeOK' /\ Hand' /\ Queue' /\ Batch' /\ Judgement' /\ OnTheWay' /\ Unanswered' /\ Told'
  BY <1>1, <1>3, ServerKeeps
<1>5. Disk'
  <2>1. NoMisrouting' /\ OkMeansComplete' /\ RejectedNeverWritten'
    BY <1>1, <1>2 DEF UploadInv, Disk, NoMisrouting, OkMeansComplete, RejectedNeverWritten
  <2> QED BY <1>1, <1>2, <2>1 DEF UploadInv, Disk
<1> QED BY <1>4, <1>5, LeftStep DEF UploadInv

LEMMA EndReceiveStep ==
  ASSUME UploadInv, EndReceive
  PROVE  UploadInv'
<1>1. PICK f : f = c2s[1]
  OBVIOUS
<1>2. /\ sv = "blocks" /\ c2s # <<>> /\ c2s' = Tail(c2s) /\ Head(c2s) = f /\ f.kind = "end"
      /\ UNCHANGED <<agreed, given, client, s2c, accepted, su, got, disk, rejected>>
  BY <1>1, FirstFrame DEF EndReceive, At, Took
<1>3. PICK n \in Nat :
        /\ n = Len(got) /\ su \in Unit /\ su \in Nat /\ su \in 0 .. Units /\ cw \notin Shaking
        /\ su \notin rejected /\ disk[su] = got /\ got = Content(su, n)
  BY <1>2, Receiving
<1>4. f.data = Checksum(got) /\ (n = Length \/ su \in short)
  <2>1. Fits(Here, f) /\ Here = Place("blocks", su, n)
    BY <1>1, <1>2, <1>3, FirstFrame DEF Here
  <2> QED BY <1>2, <1>3, <2>1 DEF Fits, Place
<1>5. received' = [received EXCEPT ![su] = "ok"] /\ sv' = "unit" /\ link' = link
  BY <1>2, <1>4 DEF EndReceive
<1>6. /\ received' \in [Unit -> {"none", "ok", "failed"}]
      /\ \A v \in Unit : v # su => received'[v] = received[v]
  BY <1>5 DEF UploadInv, TypeOK
<1>7. su' \in 0 .. Units /\ got' \in Seq(BlockSet) /\ disk' \in [Unit -> Seq(BlockSet)]
  BY <1>2 DEF UploadInv, TypeOK
<1>8. TypeOK' /\ Hand' /\ Queue' /\ Batch' /\ Judgement' /\ OnTheWay' /\ Unanswered' /\ Told'
  BY <1>2, <1>3, <1>5, <1>6, <1>7, ServerKeeps
<1>9. UNCHANGED <<cur, nextKey, short, cver, mode_, integrity>>
  BY <1>2 DEF client, agreed, fixed
<1>10. Wire' /\ Meet'
  <2>1. Here' = After(f)
    BY <1>2, <1>5 DEF Here, After, Between
  <2>2. \A g \in FrameSet : FrameOK(g) => FrameOK(g)'
    BY <1>2, <1>9 DEF FrameOK
  <2> QED BY <1>1, <1>2, <1>5, <2>1, <2>2, StayedStep
<1>11. Disk'
  <2>1. \A v \in Unit : v > su => v # su
    BY <1>3 DEF Unit
  <2>2. OkMeansComplete'
    BY <1>2, <1>3, <1>4, <1>6, <1>9 DEF UploadInv, Disk, OkMeansComplete
  <2>3. NoMisrouting' /\ RejectedNeverWritten'
    BY <1>2 DEF UploadInv, Disk, NoMisrouting, RejectedNeverWritten
  <2> QED BY <1>2, <1>5, <1>6, <1>9, <2>1, <2>2, <2>3 DEF UploadInv, Disk
<1> QED BY <1>8, <1>10, <1>11 DEF UploadInv

LEMMA ServerEndsStep ==
  ASSUME UploadInv, ReceiveFails \/ Bye \/ Lost
  PROVE  UploadInv'
<1>1. /\ sv # "closed" /\ sv' = "closed" /\ link' = "down"
      /\ (c2s # <<>> /\ c2s' = Tail(c2s)) \/ c2s' = c2s
      /\ UNCHANGED <<agreed, given, client, s2c, accepted, su, got, disk, rejected>>
  BY DEF ReceiveFails, Bye, Lost, At, Took, Leave
<1>2. received' = received
        \/ (sv = "blocks" /\ received' = [received EXCEPT ![su] = "failed"])
  BY DEF ReceiveFails, Bye, Lost, LostOutcome
<1> QED BY <1>1, <1>2, LeaveStep

-----------------------------------------------------------------------------
(* The theorems *)

LEMMA UploadStep == UploadInv /\ [Next]_vars => UploadInv'
<1> SUFFICES ASSUME UploadInv, [Next]_vars PROVE UploadInv'
  OBVIOUS
<1>1. CASE ClientStep
  BY <1>1, ReachStep, HelloStep, ShakenStep, ShakeEndStep, GiveStep, ProbeStep, AwaitStep,
     RecvStep, RecvFailsStep, RepliesStep, SkipStep, BatchDoneStep, SendAcceptedStep,
     SendUnitStep, SendBlockStep, EndUnitStep, FinishStep, DisconnectStep DEF ClientStep
<1>2. CASE ServerStep
  BY <1>2, GreetStep, HandleProbeStep, BeginReceiveStep, OpenFailsStep, ReceiveBlockStep,
     EndReceiveStep, ServerEndsStep DEF ServerStep
<1>3. CASE Drop
  BY <1>3, DropStep
<1>4. CASE UNCHANGED vars
  <2>1. UNCHANGED <<given, c2s, s2c, link, sv, su, got, disk, received, rejected, accepted,
                    tasks, cw, nextKey, pending, ri, cur, sent, short, done, skipped, cver,
                    acceptMode, mode_, integrity>>
    BY <1>4 DEF vars, agreed, fixed, client, server
  <2>2. TypeOK'
    BY <2>1 DEF UploadInv, TypeOK
  <2>3. Hand'
    BY <2>1 DEF UploadInv, Hand, Blank
  <2>4. Queue' /\ Batch' /\ Judgement' /\ OnTheWay' /\ Unanswered'
    BY <2>1, QueueKept, BatchKept, JudgementKept, OnTheWayKept, UnansweredKept DEF UploadInv
  <2>5. FrameKept /\ Here' = Here
    BY <2>1 DEF FrameKept, FrameOK, Here
  <2>6. Wire' /\ Meet'
    <3>1. c2s' \in Seq(FrameSet) /\ Len(c2s) \in Nat
      BY <2>1 DEF UploadInv, TypeOK
    <3>2. PICK n \in Nat : n = Len(c2s)
      BY <3>1
    <3> QED BY <2>1, <2>5, <3>1, <3>2, WirePrefix, MeetKept DEF UploadInv
  <2>7. Disk' /\ Told'
    <3>1. cur \in Nat
      BY UploadAssumption DEF UploadInv, TypeOK
    <3> QED BY <2>1, <3>1, DiskKept, ToldKept DEF UploadInv
  <2> QED BY <2>2, <2>3, <2>4, <2>6, <2>7 DEF UploadInv
<1> QED BY <1>1, <1>2, <1>3, <1>4 DEF Next

\* The inductive invariant: what the two sides and the frames between them hold
\* of each other in every state of a connection (worker.h:217-324,
\* connection.cxx:613-873).
THEOREM UploadInvariant == Spec => []UploadInv
<1>1. Init => UploadInv
  BY UploadInit
<1>2. UploadInv /\ [Next]_vars => UploadInv'
  BY UploadStep
<1> QED BY <1>1, <1>2, PTL DEF Spec

\* README.md "A rejected unit is never written.", for any filter and window
\* (connection.cxx:613-712).
THEOREM UploadRejectedNeverWritten == Spec => []RejectedNeverWritten
<1>1. UploadInv => RejectedNeverWritten
  BY DEF UploadInv, Disk
<1> QED BY <1>1, UploadInvariant, PTL

\* Whatever is under a unit's path is a prefix of that unit
\* (connection.cxx:673-712).
THEOREM UploadNoMisrouting == Spec => []NoMisrouting
<1>1. UploadInv => NoMisrouting
  BY DEF UploadInv, Disk
<1> QED BY <1>1, UploadInvariant, PTL

\* A unit the server reports as received is complete on its disk, wherever the
\* connection breaks off (connection.cxx:756-870).
THEOREM UploadOkMeansComplete == Spec => []OkMeansComplete
<1>1. UploadInv => OkMeansComplete
  BY DEF UploadInv, Disk
<1> QED BY <1>1, UploadInvariant, PTL

\* The client skips what the server turned down, and reports an upload, done or
\* failed, of nothing that was turned down (worker.h:300-308,321).
THEOREM UploadVerdictsAgree == Spec => []VerdictsAgree
<1>1. UploadInv => VerdictsAgree
  BY DEF UploadInv, Told
<1> QED BY <1>1, UploadInvariant, PTL

\* No frame the client sends makes the server close the connection: the mode,
\* the order of the frames and the keys always fit (worker.h:217-324,
\* connection.cxx:667-712).
THEOREM UploadFrameExpected == Spec => []FrameExpected
<1>1. UploadInv => FrameExpected
  <2> SUFFICES ASSUME UploadInv, sv # "closed", c2s # <<>>, NEW f, f = Head(c2s)
               PROVE  /\ f.kind \in {"data", "end"} <=> sv = "blocks"
                      /\ f.kind = "hello" <=> sv = "hello"
                      /\ f.kind \in {"probe", "accepted"} => mode_
                      /\ f.kind = "unit" => ~mode_
                      /\ f.kind = "accepted" => f.key \in DOMAIN accepted
    BY DEF FrameExpected
  <2>1. f \in FrameSet /\ FrameOK(f) /\ Fits(Here, f)
    BY FirstFrame
  <2>2. sv \in {"hello", "unit", "blocks"} /\ Here.at = sv
    BY DEF UploadInv, TypeOK, Here, Place
  <2>3. f.kind \in Kinds
    BY <2>1 DEF FrameSet
  <2> QED BY <2>1, <2>2, <2>3 DEF Kinds, Fits, FrameOK
<1> QED BY <1>1, UploadInvariant, PTL
=============================================================================
