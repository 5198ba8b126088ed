-------------------------- MODULE SchedulerProofs --------------------------
(***************************************************************************)
(* Proofs about the scheduler, for any number of workers, queue places,    *)
(* thresholds, trees, rules and roots: the units made of a file tile it,   *)
(* the walk follows the rules, and it is given up for want of healthy      *)
(* workers only when none is left - the latter when the number of workers  *)
(* divides that of the values of size_t.                                   *)
(***************************************************************************)
EXTENDS Scheduler, SequenceTheorems, TLAPS

UnitRec == [file : Nat, off : Nat, len : Nat]
FileRec == [root : Nat, path : Seq(STRING), size : Nat]

\* A file is being cut: its next unit begins inside it.
Cutting == walk \in {"select", "dispatch"} =>
             files # <<>> /\ IF Big THEN offset < Size ELSE offset = 0

\* Every variable of the walk, of the workers and of their queues has its type.
TypeOK ==
  /\ st \in [Worker -> {"PENDING", "READY", "FAILED"}]
  /\ up \in [Worker -> {"init", "up", "stopped"}]
  /\ queue \in [Worker -> Seq(UnitRec)] /\ taken \subseteq UnitRec
  /\ walk \in {"root", "entry", "select", "dispatch", "aborted", "done"}
  /\ root \in 0 .. Roots
  /\ files \in Seq(FileRec) /\ offset \in Nat /\ chunk \in Nat
  /\ scan \in 0 .. N /\ chosen \in Worker \cup {NoIdx} /\ minIdx \in Worker \cup {NoIdx}
  /\ minCap \in Nat
  /\ start \in Worker \cup {NoIdx} /\ k \in Nat

-----------------------------------------------------------------------------
(* Arithmetic and types *)

LEMMA ModFacts ==
  ASSUME NEW a \in Nat, NEW b \in Nat \ {0}
  PROVE  /\ a % b \in 0 .. b - 1
         /\ a < b => a % b = a
         /\ b <= a /\ a < b + b => a % b = a - b
<1>1. a % b \in 0 .. b - 1 /\ a \div b \in Nat /\ a = b * (a \div b) + (a % b)
  OBVIOUS
<1>2. PICK q \in Nat, r \in 0 .. b - 1 : q = a \div b /\ r = a % b /\ a = b * q + r
  BY <1>1
<1>3. CASE q = 0
  BY <1>2, <1>3
<1>4. CASE q = 1
  BY <1>2, <1>4
<1>5. CASE q >= 2
  <2>1. PICK q2 \in Nat : q = 2 + q2
    <3>1. q - 2 \in Nat /\ q = 2 + (q - 2)
      BY <1>5
    <3> QED
      BY <3>1
  <2>2. b * q = b + b + b * q2 /\ b * q2 \in Nat
    BY <2>1
  <2> QED
    BY <1>2, <2>2
<1> QED
  BY <1>2, <1>3, <1>4, <1>5

IdxAt(j) == ((start + j) % SizeMod) % N

LEMMA IdxRange ==
  ASSUME NEW j \in Nat, TypeOK
  PROVE  IdxAt(j) \in Worker
<1>1. start \in Nat
  BY CountsAssumption, SizeModAssumption DEF TypeOK, Worker, NoIdx
<1>2. PICK a \in Nat : a = (start + j) % SizeMod
  <2>1. start + j \in Nat /\ SizeMod \in Nat \ {0}
    BY <1>1, CountsAssumption, SizeModAssumption
  <2> QED
    BY <2>1, ModFacts
<1>3. N \in Nat \ {0}
  BY CountsAssumption
<1>4. a % N \in 0 .. N - 1
  BY <1>3, ModFacts
<1> QED
  BY <1>2, <1>4 DEF IdxAt, Worker

\* From any start that selectWorker or the chunks give, dispatch comes to every
\* worker, the one of index size_t(-1) included when N divides SizeMod.
LEMMA IdxCovers ==
  ASSUME TypeOK, SizeMod % N = 0, NEW i \in Worker
  PROVE  \E j \in 0 .. N - 1 : IdxAt(j) = i
<1> N \in Nat \ {0} /\ SizeMod \in Nat \ {0} /\ N < SizeMod
  BY CountsAssumption, SizeModAssumption
<1>0. i \in Nat /\ i < N
  BY DEF Worker
<1>1. PICK q \in Nat : SizeMod = N * q /\ q >= 2
  <2>1. PICK q \in Nat : q = SizeMod \div N /\ SizeMod = N * q + (SizeMod % N)
    OBVIOUS
  <2>2. SizeMod = N * q
    BY <2>1
  <2>3. q # 0 /\ q # 1
    BY <2>2
  <2> QED
    BY <2>1, <2>2, <2>3
<1>2. PICK r \in Nat : q = r + 2
  <2>1. q - 2 \in Nat /\ q = (q - 2) + 2
    BY <1>1
  <2> QED
    BY <2>1
<1>3. SizeMod = N * r + N + N /\ N * r \in Nat
  BY <1>1, <1>2
<1>4. N + N <= SizeMod
  BY <1>3
<1>5. CASE start \in Worker
  <2>1. start \in Nat /\ start < N
    BY <1>5 DEF Worker
  <2>2. CASE start <= i
    <3>1. i - start \in 0 .. N - 1 /\ start + (i - start) = i /\ i < SizeMod
      BY <2>1, <2>2, <1>0
    <3>2. i % SizeMod = i /\ i % N = i
      BY <1>0, <3>1, ModFacts
    <3>3. IdxAt(i - start) = i
      BY <3>1, <3>2 DEF IdxAt
    <3> QED
      BY <3>1, <3>3
  <2>3. CASE i < start
    <3>1. /\ (i + N) - start \in 0 .. N - 1 /\ start + ((i + N) - start) = i + N
          /\ i + N < SizeMod /\ i + N \in Nat
      BY <2>1, <2>3, <1>0, <1>4
    <3>2. (i + N) % SizeMod = i + N
      BY <3>1, ModFacts
    <3>3. N <= i + N /\ i + N < N + N /\ (i + N) - N = i
      BY <1>0
    <3>4. (i + N) % N = i
      BY <3>1, <3>3, ModFacts
    <3>5. IdxAt((i + N) - start) = i
      BY <3>1, <3>2, <3>4 DEF IdxAt
    <3> QED
      BY <3>1, <3>5
  <2> QED
    BY <2>1, <2>2, <2>3, <1>0
<1>6. CASE start = NoIdx
  <2>1. start = SizeMod - 1
    BY <1>6 DEF NoIdx
  <2>2. CASE i = N - 1
    <3>1. start + 0 = SizeMod - 1 /\ SizeMod - 1 \in Nat /\ SizeMod - 1 < SizeMod
      BY <2>1
    <3>2. (SizeMod - 1) % SizeMod = SizeMod - 1
      BY <3>1, ModFacts
    <3>3. SizeMod - 1 = N * (q - 1) + (N - 1) /\ q - 1 \in Nat
      BY <1>1
    <3>4. (SizeMod - 1) % N = N - 1
      <4>1. PICK m \in Nat : m = SizeMod - 1
        BY <3>1
      <4>2. PICK d \in Nat, e \in 0 .. N - 1 : e = m % N /\ m = N * d + e
        <5>1. m \div N \in Nat /\ m % N \in 0 .. N - 1 /\ m = N * (m \div N) + (m % N)
          OBVIOUS
        <5> QED
          BY <5>1
      <4>3. PICK g \in Nat : g = q - 1
        BY <3>3
      <4>4. N * g + (N - 1) = N * d + e
        BY <3>3, <4>1, <4>2, <4>3
      <4>5. CASE d = g
        BY <4>1, <4>2, <4>4, <4>5
      <4>6. CASE d > g
        <5>1. PICK x \in Nat : d = g + 1 + x
          <6>1. d - (g + 1) \in Nat /\ d = g + 1 + (d - (g + 1))
            BY <4>6
          <6> QED
            BY <6>1
        <5>2. N * d = N * g + N + N * x /\ N * x \in Nat /\ N * g \in Nat
          BY <5>1
        <5> QED
          BY <5>2, <4>4
      <4>7. CASE d < g
        <5>1. PICK x \in Nat : g = d + 1 + x
          <6>1. g - (d + 1) \in Nat /\ g = d + 1 + (g - (d + 1))
            BY <4>7
          <6> QED
            BY <6>1
        <5>2. N * g = N * d + N + N * x /\ N * x \in Nat /\ N * d \in Nat
          BY <5>1
        <5> QED
          BY <5>2, <4>4, <4>2
      <4> QED
        BY <4>5, <4>6, <4>7
    <3>5. IdxAt(0) = i
      BY <3>1, <3>2, <3>4, <2>2 DEF IdxAt
    <3> QED
      BY <3>5
  <2>3. CASE i < N - 1
    <3>1. /\ i + 1 \in 0 .. N - 1 /\ start + (i + 1) = SizeMod + i /\ SizeMod + i \in Nat
          /\ SizeMod <= SizeMod + i /\ SizeMod + i < SizeMod + SizeMod /\ (SizeMod + i) - SizeMod = i
      BY <2>1, <2>3, <1>0
    <3>2. (SizeMod + i) % SizeMod = i
      BY <3>1, ModFacts
    <3>3. i % N = i
      BY <1>0, ModFacts
    <3>4. IdxAt(i + 1) = i
      BY <3>1, <3>2, <3>3 DEF IdxAt
    <3> QED
      BY <3>1, <3>4
  <2> QED
    BY <2>2, <2>3, <1>0
<1> QED
  BY <1>5, <1>6 DEF TypeOK

-----------------------------------------------------------------------------
(* What holds of the walk and the workers *)

\* The workers' states say what their channels do, and those dispatch has tried
\* for a unit have stopped.
Health ==
  /\ \A i \in Worker : /\ st[i] = "FAILED" => up[i] = "stopped"
                       /\ st[i] = "READY" => up[i] # "init"
  /\ walk = "dispatch" => k < N /\ \A j \in 0 .. k - 1 : up[IdxAt(j)] = "stopped"
  /\ walk = "aborted" => \A j \in 0 .. N - 1 : up[IdxAt(j)] = "stopped"

StateInv == TypeOK /\ Cutting /\ Health

LEMMA Constants ==
  /\ N \in Nat /\ N > 0 /\ QueueCap \in Nat /\ 0 \in Worker
  /\ Worker = 0 .. N - 1 /\ Worker \subseteq Nat /\ NoIdx \in Nat /\ NoIdx \notin Worker
  BY CountsAssumption, SizeModAssumption DEF Worker, NoIdx

LEMMA StateInit == Init => StateInv
<1> SUFFICES ASSUME Init PROVE StateInv
  OBVIOUS
<1>1. <<>> \in Seq(UnitRec) /\ <<>> \in Seq(FileRec)
  OBVIOUS
<1>2. TypeOK
  BY <1>1, Constants, WalkAssumption DEF Init, TypeOK
<1>3. Cutting /\ Health
  BY DEF Init, Cutting, Health
<1> QED
  BY <1>2, <1>3 DEF StateInv

\* The steps in the tree leave the workers and the current file alone.
LEMMA StateTree ==
  ASSUME StateInv,
         \/ NextRoot \/ RootFailed \/ LeaveDir
         \/ \E e \in Entries : VisitDir(e) \/ StatFails(e) \/ PassOver(e)
  PROVE  StateInv'
<1> USE DEF StateInv
<1>1. /\ st' = st /\ up' = up /\ queue' = queue /\ taken' = taken
      /\ files' = files /\ offset' = offset /\ chunk' = chunk
      /\ scan' = scan /\ chosen' = chosen /\ minIdx' = minIdx /\ minCap' = minCap
      /\ start' = start /\ k' = k
  BY DEF NextRoot, RootFailed, LeaveDir, VisitDir, StatFails, PassOver, chans, file, sel, disp
<1>2. walk' \in {"root", "entry", "done"}
  BY DEF NextRoot, RootFailed, LeaveDir, VisitDir, StatFails, PassOver, Visit
<1>3. root' \in 0 .. Roots
  <2>1. CASE NextRoot
    BY <2>1, WalkAssumption DEF NextRoot, tree, TypeOK
  <2> QED
    BY <2>1 DEF RootFailed, LeaveDir, VisitDir, StatFails, PassOver, TypeOK
<1>4. TypeOK'
  BY <1>1, <1>2, <1>3 DEF TypeOK
<1>5. Cutting' /\ Health'
  BY <1>1, <1>2 DEF Cutting, Health
<1> QED
  BY <1>4, <1>5

LEMMA StateFile ==
  ASSUME StateInv, NEW e \in Entries, NEW size \in Sizes, VisitFile(e, size)
  PROVE  StateInv'
<1> USE DEF StateInv
<1>1. st' = st /\ up' = up /\ queue' = queue /\ taken' = taken /\ root' = root
  BY DEF VisitFile, chans
<1>2. PICK rec \in FileRec : rec = [root |-> root, path |-> e.path, size |-> size]
  <2>1. root \in Nat /\ e.path \in Seq(STRING) /\ size \in Nat
    BY WalkAssumption DEF TypeOK
  <2> QED
    BY <2>1 DEF FileRec
<1>3. files' = Append(files, rec) /\ rec.size = size /\ size \in Nat
  BY <1>2, WalkAssumption DEF VisitFile
<1>4. files' \in Seq(FileRec) /\ files' # <<>> /\ files'[Len(files')] = rec
  <2>1. PICK fs \in Seq(FileRec) : fs = files
    BY DEF TypeOK
  <2>2. PICK gs : gs = Append(fs, rec)
    OBVIOUS
  <2>3. gs \in Seq(FileRec) /\ Len(gs) = Len(fs) + 1 /\ gs[Len(fs) + 1] = rec /\ gs # <<>>
    BY <2>2, AppendProperties
  <2> QED
    BY <1>3, <2>1, <2>2, <2>3
<1>5. offset' = 0 /\ chunk' = 0 /\ Size' = size
  BY <1>3, <1>4 DEF VisitFile, Size
<1>6. CASE size >= Threshold
  <2>1. walk' = "dispatch" /\ start' = 0 /\ k' = 0
    BY <1>6 DEF VisitFile
  <2>2. scan' = scan /\ chosen' = chosen /\ minIdx' = minIdx /\ minCap' = minCap
    BY <1>6 DEF VisitFile, sel
  <2>3. Big' /\ offset' < Size'
    BY <1>3, <1>5, <1>6, CutAssumption DEF Big
  <2>4. TypeOK'
    BY <1>1, <1>4, <1>5, <2>1, <2>2, Constants DEF TypeOK
  <2>5. Cutting'
    BY <1>4, <2>3 DEF Cutting
  <2>6. Health'
    BY <1>1, <2>1, Constants DEF Health
  <2> QED
    BY <2>4, <2>5, <2>6
<1>7. CASE ~(size >= Threshold)
  <2>1. walk' = "select" /\ scan' = 0 /\ chosen' = NoIdx /\ minIdx' = NoIdx /\ minCap' = QueueCap
    BY <1>7 DEF VisitFile
  <2>2. start' = start /\ k' = k
    BY <1>7 DEF VisitFile, disp
  <2>3. ~Big'
    BY <1>5, <1>7 DEF Big
  <2>4. TypeOK'
    BY <1>1, <1>4, <1>5, <2>1, <2>2, Constants DEF TypeOK
  <2>5. Cutting'
    BY <1>4, <1>5, <2>3 DEF Cutting
  <2>6. Health'
    BY <1>1, <2>1 DEF Health
  <2> QED
    BY <2>4, <2>5, <2>6
<1> QED
  BY <1>6, <1>7

LEMMA StateSelect ==
  ASSUME StateInv, ScanWorker \/ Selected
  PROVE  StateInv'
<1> USE DEF StateInv
<1>1. /\ st' = st /\ up' = up /\ queue' = queue /\ taken' = taken /\ root' = root
      /\ files' = files /\ offset' = offset /\ chunk' = chunk /\ walk = "select"
  BY DEF ScanWorker, Selected, chans, tree, file
<1>2. Size' = Size /\ (Big' <=> Big)
  BY <1>1 DEF Size, Big
<1>3. CASE ScanWorker
  <2>1. walk' = walk /\ start' = start /\ k' = k
    BY <1>3 DEF ScanWorker, disp
  <2>2. scan \in Worker /\ scan' \in 0 .. N
    BY <1>3, Constants DEF ScanWorker, TypeOK
  <2>3. Occupancy(scan) \in Nat
    BY <2>2 DEF Occupancy, TypeOK
  <2>4. /\ minCap' \in {minCap, Occupancy(scan)} /\ minIdx' \in {minIdx, scan}
        /\ chosen' \in {chosen, scan}
    BY <1>3 DEF ScanWorker
  <2>5. TypeOK'
    BY <1>1, <2>1, <2>2, <2>3, <2>4 DEF TypeOK
  <2> QED
    BY <1>1, <1>2, <2>1, <2>5 DEF Cutting, Health
<1>4. CASE Selected
  <2>1. /\ walk' = "dispatch" /\ start' \in {chosen, minIdx} /\ k' = 0
        /\ scan' = scan /\ chosen' = chosen /\ minIdx' = minIdx /\ minCap' = minCap
    BY <1>4 DEF Selected, sel
  <2>2. TypeOK'
    BY <1>1, <2>1 DEF TypeOK
  <2>3. Cutting' /\ Health'
    BY <1>1, <1>2, <2>1, Constants DEF Cutting, Health
  <2> QED
    BY <2>2, <2>3
<1> QED
  BY <1>3, <1>4

\* A worker that cannot take the unit is left behind.
LEMMA StateTryNext ==
  ASSUME StateInv, AwaitInit \/ SkipWorker
  PROVE  StateInv'
<1> USE DEF StateInv
<1>1. /\ up' = up /\ queue' = queue /\ taken' = taken /\ root' = root /\ start' = start
      /\ files' = files /\ offset' = offset /\ chunk' = chunk /\ walk = "dispatch"
      /\ scan' = scan /\ chosen' = chosen /\ minIdx' = minIdx /\ minCap' = minCap
  BY DEF AwaitInit, SkipWorker, TryNext, chans, tree, file, sel, disp
<1>2. Size' = Size /\ (Big' <=> Big)
  BY <1>1 DEF Size, Big
<1>3. \A j \in Nat : IdxAt(j)' = IdxAt(j)
  BY <1>1 DEF IdxAt
<1>4. k \in Nat /\ k < N /\ Idx = IdxAt(k) /\ Idx \in Worker
  BY <1>1, IdxRange DEF Health, TypeOK, Idx, IdxAt
<1>5. PICK w \in Worker : w = Idx
  BY <1>4
<1>6. /\ st' \in [Worker -> {"PENDING", "READY", "FAILED"}]
      /\ \A i \in Worker : /\ st'[i] = "FAILED" => up[i] = "stopped"
                           /\ st'[i] = "READY" => up[i] # "init"
  <2>1. CASE AwaitInit
    <3>1. \/ st' = [st EXCEPT ![w] = "FAILED"] /\ up[w] = "stopped"
          \/ st' = [st EXCEPT ![w] = "READY"] /\ up[w] # "init"
      BY <2>1, <1>5 DEF AwaitInit
    <3> QED
      BY <3>1 DEF TypeOK, Health
  <2>2. CASE SkipWorker
    BY <2>2 DEF SkipWorker, TypeOK, Health
  <2> QED
    BY <2>1, <2>2
<1>7. CASE TryNext
  <2>1. up[w] = "stopped"
    <3>1. CASE SkipWorker
      BY <3>1, <1>5 DEF SkipWorker, Health
    <3>2. CASE AwaitInit
      <4>1. k' # k
        BY <1>7, <1>4 DEF TryNext
      <4> QED
        BY <3>2, <4>1, <1>5 DEF AwaitInit, disp
    <3> QED
      BY <3>1, <3>2
  <2>2. k' = k + 1 /\ walk' = IF k + 1 = N THEN "aborted" ELSE "dispatch"
    BY <1>7 DEF TryNext
  <2>3. \A j \in 0 .. (k + 1) - 1 : up[IdxAt(j)] = "stopped"
    <3>1. \A j \in 0 .. (k + 1) - 1 : j \in 0 .. k - 1 \/ j = k
      BY <1>4
    <3> QED
      BY <3>1, <2>1, <1>1, <1>4, <1>5 DEF Health
  <2>4. TypeOK'
    BY <1>1, <1>4, <1>6, <2>2 DEF TypeOK
  <2>5. Cutting'
    BY <1>1, <1>2 DEF Cutting
  <2>6. Health'
    <3>1. walk' = "dispatch" => k' < N /\ \A j \in 0 .. k' - 1 : up[IdxAt(j)] = "stopped"
      BY <2>2, <2>3, <1>4, Constants
    <3>2. walk' = "aborted" => \A j \in 0 .. N - 1 : up[IdxAt(j)] = "stopped"
      BY <2>2, <2>3
    <3>3. \A j \in 0 .. N - 1 : j \in Nat
      BY Constants
    <3>4. \A j \in 0 .. k' - 1 : j \in Nat
      BY <2>2, <1>4
    <3> QED
      BY <3>1, <3>2, <3>3, <3>4, <1>1, <1>3, <1>6 DEF Health
  <2> QED
    BY <2>4, <2>5, <2>6
<1>8. CASE ~TryNext
  <2>1. walk' = walk /\ k' = k
    BY <1>8 DEF AwaitInit, SkipWorker, disp
  <2>2. TypeOK'
    BY <1>1, <1>6, <2>1 DEF TypeOK
  <2>3. Cutting'
    BY <1>1, <1>2, <2>1 DEF Cutting
  <2>4. \A j \in 0 .. k - 1 : j \in Nat
    BY <1>4
  <2>5. Health'
    BY <1>1, <1>3, <1>6, <2>1, <2>4 DEF Health
  <2> QED
    BY <2>2, <2>3, <2>5
<1> QED
  BY <1>7, <1>8

LEMMA UnitType ==
  ASSUME StateInv, walk = "dispatch"
  PROVE  /\ Unit \in UnitRec /\ Unit.file = Len(files) /\ Unit.off = offset
         /\ Len(files) \in Nat /\ Len(files) >= 1 /\ Size \in Nat
         /\ IF Big THEN /\ Unit.len > 0 /\ offset + Unit.len <= Size
                        /\ offset + ChunkSize < Size => Unit.len = ChunkSize
                        /\ ~(offset + ChunkSize < Size) => offset + Unit.len = Size
            ELSE offset = 0 /\ Unit.len = Size
<1> USE DEF StateInv
<1>1. files \in Seq(FileRec) /\ files # <<>>
  BY DEF Cutting, TypeOK
<1>2. Len(files) \in Nat /\ Len(files) >= 1 /\ files[Len(files)] \in FileRec
  BY <1>1
<1>3. Size \in Nat
  BY <1>2 DEF Size, FileRec
<1>4. offset \in Nat /\ ChunkSize \in Nat /\ ChunkSize > 0
  BY CutAssumption DEF TypeOK
<1>5. PICK l \in Nat : /\ l = IF ~Big THEN Size
                              ELSE IF ChunkSize < Size - offset THEN ChunkSize ELSE Size - offset
                       /\ IF Big THEN /\ l > 0 /\ offset + l <= Size
                                      /\ offset + ChunkSize < Size => l = ChunkSize
                                      /\ ~(offset + ChunkSize < Size) => offset + l = Size
                          ELSE offset = 0 /\ l = Size
  <2>1. CASE Big
    <3>1. offset < Size
      BY <2>1 DEF Cutting
    <3> QED
      BY <2>1, <3>1, <1>3, <1>4
  <2>2. CASE ~Big
    BY <2>2, <1>3 DEF Cutting
  <2> QED
    BY <2>1, <2>2
<1>6. Unit = [file |-> Len(files), off |-> offset, len |-> l]
  BY <1>5 DEF Unit
<1> QED
  BY <1>2, <1>3, <1>4, <1>5, <1>6 DEF UnitRec

LEMMA StateEnqueue ==
  ASSUME StateInv, Enqueue
  PROVE  StateInv'
<1> USE DEF StateInv
<1>1. /\ st' = st /\ up' = up /\ taken' = taken /\ root' = root /\ files' = files
      /\ scan' = scan /\ chosen' = chosen /\ minIdx' = minIdx /\ minCap' = minCap
      /\ offset' = offset + ChunkSize /\ chunk' = chunk + 1 /\ k' = 0
      /\ start' = (chunk + 1) % N /\ walk = "dispatch"
      /\ walk' = IF Big /\ offset + ChunkSize < Size THEN "dispatch" ELSE "entry"
  BY DEF Enqueue, UnitQueued, tree, sel
<1>2. Size' = Size /\ (Big' <=> Big)
  BY <1>1 DEF Size, Big
<1>3. PICK w \in Worker : w = Idx
  BY <1>1, IdxRange DEF Health, TypeOK, Idx, IdxAt
<1>4. PICK u \in UnitRec : u = Unit
  BY <1>1, UnitType
<1>5. queue' = [queue EXCEPT ![w] = Append(queue[w], u)]
  BY <1>3, <1>4 DEF Enqueue
<1>6. queue' \in [Worker -> Seq(UnitRec)]
  BY <1>5 DEF TypeOK
<1>7. start' \in Worker
  <2>1. chunk + 1 \in Nat /\ N \in Nat \ {0}
    BY CountsAssumption DEF TypeOK
  <2> QED
    BY <2>1, <1>1, ModFacts DEF Worker
<1>8. offset' \in Nat /\ chunk' \in Nat
  BY <1>1, CutAssumption DEF TypeOK
<1>9. TypeOK'
  BY <1>1, <1>6, <1>7, <1>8 DEF TypeOK
<1>10. Cutting'
  BY <1>1, <1>2 DEF Cutting
<1>11. Health'
  BY <1>1, Constants DEF Health
<1> QED
  BY <1>9, <1>10, <1>11

\* A worker that has stopped stays so.
LEMMA StateWorker ==
  ASSUME StateInv, NEW i \in Worker, WorkerInit(i) \/ WorkerProcess(i) \/ WorkerFail(i)
  PROVE  StateInv'
<1> USE DEF StateInv
<1>1. /\ st' = st /\ walk' = walk /\ root' = root /\ start' = start /\ k' = k
      /\ files' = files /\ offset' = offset /\ chunk' = chunk
      /\ scan' = scan /\ chosen' = chosen /\ minIdx' = minIdx /\ minCap' = minCap
  BY DEF WorkerInit, WorkerProcess, WorkerFail, tree, file, sel, disp
<1>2. Size' = Size /\ (Big' <=> Big)
  BY <1>1 DEF Size, Big
<1>3. /\ up' \in [Worker -> {"init", "up", "stopped"}]
      /\ \A j \in Worker : up[j] = "stopped" => up'[j] = "stopped"
      /\ \A j \in Worker : up[j] # "init" => up'[j] # "init"
  BY DEF WorkerInit, WorkerProcess, WorkerFail, TypeOK
<1>4. queue' \in [Worker -> Seq(UnitRec)] /\ taken' \subseteq UnitRec
  <2>1. CASE WorkerInit(i)
    BY <2>1 DEF WorkerInit, TypeOK
  <2>2. CASE WorkerProcess(i)
    <3>1. PICK q \in Seq(UnitRec) : q = queue[i] /\ q # <<>>
      BY <2>2 DEF WorkerProcess, TypeOK
    <3>2. Head(q) \in UnitRec /\ Tail(q) \in Seq(UnitRec)
      BY <3>1
    <3>3. taken' = taken \cup {Head(q)} /\ queue' = [queue EXCEPT ![i] = Tail(q)]
      BY <2>2, <3>1 DEF WorkerProcess
    <3> QED
      BY <3>2, <3>3 DEF TypeOK
  <2>3. CASE WorkerFail(i)
    <3>1. \A j \in DOMAIN queue[i] : queue[i][j] \in UnitRec
      BY DEF TypeOK
    <3>2. <<>> \in Seq(UnitRec)
      OBVIOUS
    <3>3. queue' = [queue EXCEPT ![i] = <<>>] /\ taken' = taken \cup {queue[i][j] : j \in DOMAIN queue[i]}
      BY <2>3 DEF WorkerFail
    <3> QED
      BY <3>1, <3>2, <3>3 DEF TypeOK
  <2> QED
    BY <2>1, <2>2, <2>3
<1>5. TypeOK'
  BY <1>1, <1>3, <1>4 DEF TypeOK
<1>6. Cutting'
  BY <1>1, <1>2 DEF Cutting
<1>7. Health'
  <2>1. \A j \in Nat : IdxAt(j)' = IdxAt(j) /\ IdxAt(j) \in Worker
    BY <1>1, IdxRange DEF IdxAt
  <2>2. \A j \in 0 .. k - 1 : j \in Nat
    BY DEF TypeOK
  <2>3. \A j \in 0 .. N - 1 : j \in Nat
    BY Constants
  <2> QED
    BY <1>1, <1>3, <2>1, <2>2, <2>3 DEF Health
<1> QED
  BY <1>5, <1>6, <1>7

LEMMA StateStep == StateInv /\ [Next]_vars => StateInv'
<1> SUFFICES ASSUME StateInv, [Next]_vars PROVE StateInv'
  OBVIOUS
<1>1. CASE UNCHANGED vars
  BY <1>1 DEF StateInv, TypeOK, Cutting, Health, Size, Big, IdxAt,
              vars, chans, tree, file, sel, disp
<1>2. CASE WalkStep
  BY <1>2, StateTree, StateFile, StateSelect, StateTryNext, StateEnqueue DEF WalkStep
<1>3. CASE \E i \in Worker : WorkerStep(i) \/ WorkerFail(i)
  BY <1>3, StateWorker DEF WorkerStep
<1> QED
  BY <1>1, <1>2, <1>3 DEF Next

LEMMA StateAlways == Spec => []StateInv
  BY StateInit, StateStep, PTL DEF Spec

\* dispatch, "No healthy workers": the message is true whenever the number of
\* workers divides the number of values of size_t.
THEOREM SchedulerNoHealthyWorkers ==
  ASSUME SizeMod % N = 0
  PROVE  Spec => []NoHealthyWorkers
<1>1. StateInv => NoHealthyWorkers
  <2> SUFFICES ASSUME StateInv, walk = "aborted", NEW i \in Worker PROVE up[i] = "stopped"
    BY DEF NoHealthyWorkers
  <2>1. PICK j \in 0 .. N - 1 : IdxAt(j) = i
    BY IdxCovers DEF StateInv
  <2> QED
    BY <2>1 DEF StateInv, Health
<1> QED
  BY <1>1, StateAlways, PTL

-----------------------------------------------------------------------------
(* The units made of a file *)

AllUnits == (UNION {Queued(i) : i \in Worker}) \cup taken

Apart == \A u, v \in AllUnits : u.file = v.file /\ u # v => Bytes(u) \cap Bytes(v) = {}

Covers(f, n) == \A b \in Nat : b < n => \E u \in AllUnits : u.file = f /\ b \in Bytes(u)

\* What is queued of the file being cut is what lies before offset.
Partial ==
  walk \in {"select", "dispatch", "aborted"} =>
    /\ files # <<>> /\ files[Len(files)].root = root
    /\ \A u \in AllUnits : u.file = Len(files) => u.off < offset /\ u.off + u.len <= offset
    /\ Covers(Len(files), offset)

\* A file that has been cut to its end is covered.
Whole ==
  \A f \in 1 .. Len(files) :
    Given(f) /\ files[f].root \notin failed =>
      /\ \E u \in AllUnits : u.file = f
      /\ \A u \in AllUnits : u.file = f => u.off + u.len <= files[f].size
      /\ Covers(f, files[f].size)

\* A root that is being walked has not been given up.
RootsGiven == /\ failed \subseteq 0 .. root
              /\ walk \in {"entry", "select", "dispatch", "aborted"} => root \notin failed

TileInv == /\ OnePlace /\ Apart /\ Partial /\ Whole /\ RootsGiven
           /\ \A u \in AllUnits : u.file \in 1 .. Len(files)

LEMMA InQueues ==
  ASSUME NEW u
  PROVE  /\ u \in AllUnits <=> \/ \E i \in Worker : \E x \in DOMAIN queue[i] : queue[i][x] = u
                               \/ u \in taken
         /\ u \in AllUnits' <=> \/ \E i \in Worker : \E x \in DOMAIN queue'[i] : queue'[i][x] = u
                                \/ u \in taken'
<1>1. \A i : u \in Queued(i) <=> \E x \in DOMAIN queue[i] : queue[i][x] = u
  BY DEF Queued
<1>2. \A i : u \in Queued(i)' <=> \E x \in DOMAIN queue'[i] : queue'[i][x] = u
  BY DEF Queued
<1>3. u \in UNION {Queued(i) : i \in Worker} <=> \E i \in Worker : u \in Queued(i)
  OBVIOUS
<1>4. u \in UNION {Queued(i)' : i \in Worker} <=> \E i \in Worker : u \in Queued(i)'
  OBVIOUS
<1>5. AllUnits' = (UNION {Queued(i)' : i \in Worker}) \cup taken'
  BY DEF AllUnits, Worker
<1>6. u \in AllUnits <=> (\E i \in Worker : u \in Queued(i)) \/ u \in taken
  BY <1>3 DEF AllUnits
<1>7. u \in AllUnits' <=> (\E i \in Worker : u \in Queued(i)') \/ u \in taken'
  BY <1>4, <1>5
<1>8. u \in AllUnits <=> \/ \E i \in Worker : \E x \in DOMAIN queue[i] : queue[i][x] = u
                         \/ u \in taken
  BY <1>1, <1>6, Zenon
<1>9. u \in AllUnits' <=> \/ \E i \in Worker : \E x \in DOMAIN queue'[i] : queue'[i][x] = u
                          \/ u \in taken'
  BY <1>2, <1>7, Zenon
<1> QED
  BY <1>8, <1>9

LEMMA AllUnitsType == TypeOK => \A u \in AllUnits : u \in UnitRec
<1> SUFFICES ASSUME TypeOK, NEW u \in AllUnits PROVE u \in UnitRec
  OBVIOUS
<1>1. ASSUME NEW i \in Worker, NEW x \in DOMAIN queue[i] PROVE queue[i][x] \in UnitRec
  <2>1. queue[i] \in Seq(UnitRec)
    BY DEF TypeOK
  <2> QED
    BY <2>1
<1> QED
  BY <1>1, InQueues DEF TypeOK

\* A unit that is processed, or lost, is still the same unit.
LEMMA UnitsMove ==
  ASSUME StateInv, OnePlace, NEW i \in Worker, WorkerProcess(i) \/ WorkerFail(i)
  PROVE  OnePlace' /\ \A u : u \in AllUnits' <=> u \in AllUnits
<1> USE DEF StateInv
<1>1. PICK q \in Seq(UnitRec) : q = queue[i] /\ q # <<>>
  BY DEF WorkerProcess, WorkerFail, TypeOK
<1>p. /\ \A a, b \in Worker : \A x \in DOMAIN queue[a], y \in DOMAIN queue[b] :
           queue[a][x] = queue[b][y] => a = b /\ x = y
      /\ \A a \in Worker : \A x \in DOMAIN queue[a] : queue[a][x] \notin taken
  BY DEF OnePlace, Queued
<1>2. CASE WorkerProcess(i)
  <2>1. PICK t : t = Tail(q)
    OBVIOUS
  <2>2. taken' = taken \cup {q[1]} /\ queue' = [queue EXCEPT ![i] = t]
    BY <1>1, <1>2, <2>1 DEF WorkerProcess
  <2>3. /\ queue'[i] = t /\ \A a \in Worker : a # i => queue'[a] = queue[a]
    BY <2>2 DEF TypeOK
  <2>4. 1 \in DOMAIN q /\ \A x \in DOMAIN t : x + 1 \in DOMAIN q /\ t[x] = q[x + 1] /\ x \in Nat /\ x >= 1
    BY <1>1, <2>1, HeadTailProperties
  <2>5. \A x \in DOMAIN q : x = 1 \/ (x - 1 \in DOMAIN t /\ t[x - 1] = q[x])
    <3>1. Len(t) = Len(q) - 1 /\ DOMAIN t = 1 .. Len(t) /\ DOMAIN q = 1 .. Len(q) /\ Len(q) \in Nat
      BY <1>1, <2>1, HeadTailProperties
    <3>2. PICK n \in Nat : n = Len(q)
      BY <3>1
    <3>3. \A x : x \in DOMAIN t <=> x \in 1 .. n - 1
      BY <3>1, <3>2
    <3>4. \A x : x \in DOMAIN q <=> x \in 1 .. n
      BY <3>1, <3>2
    <3>5. \A x \in 1 .. n : x = 1 \/ (x - 1 \in 1 .. n - 1 /\ (x - 1) + 1 = x)
      OBVIOUS
    <3> QED
      BY <3>3, <3>4, <3>5, <2>4
  <2>6. \A a \in Worker : \A x \in DOMAIN queue'[a] :
          /\ a = i => x + 1 \in DOMAIN queue[a] /\ queue'[a][x] = queue[a][x + 1] /\ x \in Nat /\ x >= 1
          /\ a # i => x \in DOMAIN queue[a] /\ queue'[a][x] = queue[a][x]
    BY <1>1, <2>3, <2>4
  <2>7. \A a, b \in Worker : \A x \in DOMAIN queue'[a], y \in DOMAIN queue'[b] :
          queue'[a][x] = queue'[b][y] => a = b /\ x = y
    <3> SUFFICES ASSUME NEW a \in Worker, NEW b \in Worker, NEW x \in DOMAIN queue'[a],
                        NEW y \in DOMAIN queue'[b], queue'[a][x] = queue'[b][y]
                 PROVE  a = b /\ x = y
      OBVIOUS
    <3>1. CASE a = i /\ b = i
      <4>1. x + 1 = y + 1 /\ x \in Nat /\ y \in Nat
        BY <3>1, <2>6, <1>p
      <4> QED
        BY <3>1, <4>1
    <3>2. CASE ~(a = i /\ b = i)
      BY <3>2, <2>6, <1>p
    <3> QED
      BY <3>1, <3>2
  <2>8. \A a \in Worker : \A x \in DOMAIN queue'[a] : queue'[a][x] \notin taken'
    <3> SUFFICES ASSUME NEW a \in Worker, NEW x \in DOMAIN queue'[a]
                 PROVE  queue'[a][x] \notin taken /\ queue'[a][x] # q[1]
      BY <2>2
    <3>1. CASE a = i
      <4>1. x + 1 \in DOMAIN q /\ x + 1 # 1 /\ queue'[a][x] = q[x + 1]
        BY <3>1, <2>6, <1>1
      <4> QED
        BY <4>1, <1>1, <1>p, <2>4
    <3>2. CASE a # i
      BY <3>2, <2>4, <2>6, <1>1, <1>p
    <3> QED
      BY <3>1, <3>2
  <2>9. OnePlace'
    BY <2>7, <2>8 DEF OnePlace, Queued
  <2>10. ASSUME NEW u PROVE u \in AllUnits' <=> u \in AllUnits
    <3>1. u \in AllUnits' <=> \/ \E a \in Worker : \E x \in DOMAIN queue'[a] : queue'[a][x] = u
                              \/ u \in taken'
      BY InQueues
    <3>2. ASSUME NEW a \in Worker, NEW x \in DOMAIN queue[a]
          PROVE  \/ \E y \in DOMAIN queue'[a] : queue'[a][y] = queue[a][x]
                 \/ queue[a][x] \in taken'
      <4>1. CASE a = i
        BY <4>1, <2>2, <2>3, <2>5, <1>1
      <4>2. CASE a # i
        BY <4>2, <2>3
      <4> QED
        BY <4>1, <4>2
    <3>3. \A a \in Worker : \A x \in DOMAIN queue'[a] : \E y \in DOMAIN queue[a] : queue'[a][x] = queue[a][y]
      BY <2>6
    <3>4. u \in AllUnits => u \in AllUnits'
      BY <3>1, <3>2, <2>2, InQueues
    <3>5. u \in AllUnits' => u \in AllUnits
      BY <3>1, <3>3, <2>2, <2>4, <1>1, InQueues
    <3> QED
      BY <3>4, <3>5
  <2> QED
    BY <2>9, <2>10
<1>3. CASE WorkerFail(i)
  <2>1. taken' = taken \cup {q[x] : x \in DOMAIN q} /\ queue' = [queue EXCEPT ![i] = <<>>]
    BY <1>1, <1>3 DEF WorkerFail
  <2>2. queue'[i] = <<>> /\ \A a \in Worker : a # i => queue'[a] = queue[a]
    BY <2>1 DEF TypeOK
  <2>3. DOMAIN queue'[i] = {}
    BY <2>2
  <2>4. \A a \in Worker : \A x \in DOMAIN queue'[a] : a # i /\ x \in DOMAIN queue[a] /\ queue'[a][x] = queue[a][x]
    BY <2>2, <2>3
  <2>5. \A a, b \in Worker : \A x \in DOMAIN queue'[a], y \in DOMAIN queue'[b] :
          queue'[a][x] = queue'[b][y] => a = b /\ x = y
    BY <2>4, <1>p
  <2>6. \A a \in Worker : \A x \in DOMAIN queue'[a] : queue'[a][x] \notin taken'
    BY <2>1, <2>4, <1>1, <1>p
  <2>7. OnePlace'
    BY <2>5, <2>6 DEF OnePlace, Queued
  <2>8. ASSUME NEW u PROVE u \in AllUnits' <=> u \in AllUnits
    <3>1. u \in AllUnits' <=> \/ \E a \in Worker : \E x \in DOMAIN queue'[a] : queue'[a][x] = u
                              \/ u \in taken'
      BY InQueues
    <3> QED
      BY <3>1, <2>1, <2>2, <2>4, <1>1, InQueues
  <2> QED
    BY <2>7, <2>8
<1> QED
  BY <1>2, <1>3

\* The unit dispatched is a new one.
LEMMA UnitsGrow ==
  ASSUME StateInv, OnePlace, Enqueue, Unit \notin AllUnits
  PROVE  OnePlace' /\ \A u : u \in AllUnits' <=> u \in AllUnits \/ u = Unit
<1> USE DEF StateInv
<1>1. PICK w \in Worker : w = Idx
  BY IdxRange DEF Enqueue, Health, TypeOK, Idx, IdxAt
<1>2. PICK n \in UnitRec : n = Unit
  BY UnitType DEF Enqueue
<1>3. PICK q \in Seq(UnitRec) : q = queue[w]
  BY DEF TypeOK
<1>4. PICK t : t = Append(q, n)
  OBVIOUS
<1>5. queue' = [queue EXCEPT ![w] = t] /\ taken' = taken
  BY <1>1, <1>2, <1>3, <1>4 DEF Enqueue
<1>6. queue'[w] = t /\ \A a \in Worker : a # w => queue'[a] = queue[a]
  BY <1>5 DEF TypeOK
<1>7. PICK m \in Nat : m = Len(q) + 1
  BY <1>3
<1>8. \A x : x \in DOMAIN t <=> x \in DOMAIN q \/ x = m
  <2>1. t \in Seq(UnitRec) /\ Len(t) = Len(q) + 1 /\ Len(q) \in Nat
    BY <1>2, <1>3, <1>4, AppendProperties
  <2>2. \A x : x \in DOMAIN t <=> x \in 1 .. Len(t)
    BY <2>1
  <2>3. \A x : x \in DOMAIN q <=> x \in 1 .. Len(q)
    BY <1>3
  <2>4. PICK l \in Nat : l = Len(q)
    BY <2>1
  <2>5. \A x : x \in 1 .. l + 1 <=> x \in 1 .. l \/ x = l + 1
    OBVIOUS
  <2> QED
    BY <1>7, <2>1, <2>2, <2>3, <2>4, <2>5
<1>9. t[m] = n /\ m \notin DOMAIN q /\ \A x \in DOMAIN q : t[x] = q[x]
  <2>1. t[Len(q) + 1] = n /\ \A x \in 1 .. Len(q) : t[x] = q[x]
    BY <1>2, <1>3, <1>4, AppendProperties
  <2>2. DOMAIN q = 1 .. Len(q) /\ Len(q) + 1 \notin 1 .. Len(q)
    BY <1>3
  <2> QED
    BY <2>1, <2>2, <1>7
<1>p. /\ \A a, b \in Worker : \A x \in DOMAIN queue[a], y \in DOMAIN queue[b] :
           queue[a][x] = queue[b][y] => a = b /\ x = y
      /\ \A a \in Worker : \A x \in DOMAIN queue[a] : queue[a][x] \notin taken
  BY DEF OnePlace, Queued
<1>10. \A a \in Worker : \A x \in DOMAIN queue[a] : queue[a][x] # n
  BY <1>2, InQueues
<1>11. n \notin taken
  BY <1>2, InQueues
<1>12. \A a \in Worker : \A x \in DOMAIN queue'[a] :
         \/ x \in DOMAIN queue[a] /\ queue'[a][x] = queue[a][x]
         \/ a = w /\ x = m /\ queue'[a][x] = n
  BY <1>3, <1>6, <1>8, <1>9
<1>13. \A a, b \in Worker : \A x \in DOMAIN queue'[a], y \in DOMAIN queue'[b] :
         queue'[a][x] = queue'[b][y] => a = b /\ x = y
  BY <1>p, <1>10, <1>12
<1>14. \A a \in Worker : \A x \in DOMAIN queue'[a] : queue'[a][x] \notin taken'
  BY <1>p, <1>5, <1>11, <1>12
<1>15. OnePlace'
  BY <1>13, <1>14 DEF OnePlace, Queued
<1>16. ASSUME NEW u PROVE u \in AllUnits' <=> u \in AllUnits \/ u = n
  <2>1. n \in AllUnits'
    BY <1>6, <1>8, <1>9, InQueues
  <2>2. \A a \in Worker : \A x \in DOMAIN queue[a] : x \in DOMAIN queue'[a] /\ queue'[a][x] = queue[a][x]
    BY <1>3, <1>6, <1>8, <1>9
  <2>3. u \in AllUnits => u \in AllUnits'
    BY <2>2, <1>5, InQueues
  <2>4. u \in AllUnits' => u \in AllUnits \/ u = n
    BY <1>5, <1>12, InQueues
  <2> QED
    BY <2>1, <2>3, <2>4
<1> QED
  BY <1>2, <1>15, <1>16

-----------------------------------------------------------------------------
LEMMA TileInit == Init => TileInv
<1> SUFFICES ASSUME Init PROVE TileInv
  OBVIOUS
<1>1. \A i \in Worker : queue[i] = <<>> /\ DOMAIN queue[i] = {}
  BY DEF Init
<1>2. \A u : u \notin AllUnits
  BY <1>1, InQueues DEF Init
<1>3. OnePlace
  BY <1>1 DEF Init, OnePlace, Queued
<1>4. Apart /\ Partial /\ RootsGiven
  BY <1>2 DEF Init, Apart, Partial, RootsGiven
<1>5. Whole
  BY DEF Init, Whole
<1> QED
  BY <1>2, <1>3, <1>4, <1>5 DEF TileInv

\* A step that leaves the units alone, cuts nothing and gives no root up.
LEMMA TileSame ==
  ASSUME StateInv, TileInv, OnePlace', \A u : u \in AllUnits' <=> u \in AllUnits,
         files' = files, offset' = offset, root' = root, failed' = failed,
         \/ walk' = walk
         \/ walk \in {"select", "dispatch", "aborted"} /\ walk' \in {"select", "dispatch", "aborted"}
         \/ walk \in {"root", "entry"} /\ walk' \in {"root", "done"}
  PROVE  TileInv'
<1> USE DEF TileInv
<1>1. Apart' /\ \A u \in AllUnits' : u.file \in 1 .. Len(files')
  BY DEF Apart, Bytes
<1>2. \A f, n : Covers(f, n)' <=> Covers(f, n)
  BY DEF Covers, Bytes
<1>3. Partial'
  BY <1>2 DEF Partial
<1>4. \A f : Given(f)' => Given(f)
  BY DEF Given
<1>5. Whole'
  BY <1>2, <1>4 DEF Whole
<1>6. RootsGiven'
  BY DEF RootsGiven
<1> QED
  BY <1>1, <1>3, <1>5, <1>6

\* A new root has not been given up; one that is given up takes its files along.
LEMMA TileRoot ==
  ASSUME StateInv, TileInv, NextRoot \/ RootFailed
  PROVE  TileInv'
<1> USE DEF TileInv
<1>1. queue' = queue /\ taken' = taken /\ files' = files /\ offset' = offset
  BY DEF NextRoot, RootFailed, chans, file
<1>2. OnePlace' /\ \A u : u \in AllUnits' <=> u \in AllUnits
  BY <1>1 DEF OnePlace, Queued, AllUnits
<1>3. CASE NextRoot /\ root = Roots
  <2>1. root' = root /\ failed' = failed /\ walk = "root" /\ walk' = "done"
    BY <1>3 DEF NextRoot, tree
  <2> QED
    BY <1>1, <1>2, <2>1, TileSame
<1>4. CASE (NextRoot /\ root # Roots) \/ RootFailed
  <2>1. /\ failed \subseteq failed' /\ walk' \in {"root", "entry"} /\ root \in Nat
        /\ failed' \subseteq 0 .. root' /\ (walk' = "entry" => root' \notin failed')
    <3>1. root \in Nat /\ failed \subseteq 0 .. root
      BY DEF StateInv, TypeOK, RootsGiven
    <3>2. CASE NextRoot /\ root # Roots
      <4>1. walk' = "entry" /\ root' = root + 1 /\ failed' = failed
        BY <3>2 DEF NextRoot
      <4> QED
        BY <3>1, <4>1
    <3>3. CASE RootFailed
      <4>1. walk' = "root" /\ root' = root /\ failed' = failed \cup {root}
        BY <3>3 DEF RootFailed
      <4> QED
        BY <3>1, <4>1
    <3> QED
      BY <1>4, <3>1, <3>2, <3>3
  <2>2. Apart' /\ \A u \in AllUnits' : u.file \in 1 .. Len(files')
    BY <1>1, <1>2 DEF Apart, Bytes
  <2>3. \A f, n : Covers(f, n)' <=> Covers(f, n)
    BY <1>2 DEF Covers, Bytes
  <2>4. Partial' /\ RootsGiven'
    BY <2>1 DEF Partial, RootsGiven
  <2>5. ASSUME NEW f \in 1 .. Len(files), files[f].root \notin failed' PROVE Given(f)
    <3>1. CASE NextRoot
      BY <3>1 DEF NextRoot, Given
    <3>2. CASE RootFailed
      <4>1. files[f].root # root
        BY <2>5, <3>2 DEF RootFailed
      <4>2. CASE walk = "entry"
        BY <4>2 DEF Given
      <4>3. CASE walk = "aborted"
        <5>1. f # Len(files)
          BY <4>1, <4>3 DEF Partial
        <5>2. Len(files) \in Nat
          BY DEF StateInv, TypeOK
        <5> QED
          BY <5>1, <5>2 DEF Given
      <4> QED
        BY <3>2, <4>2, <4>3 DEF RootFailed
    <3> QED
      BY <1>4, <3>1, <3>2
  <2>6. Whole'
    BY <1>1, <1>2, <2>1, <2>3, <2>5 DEF Whole
  <2> QED
    BY <1>2, <2>2, <2>4, <2>6
<1> QED
  BY <1>3, <1>4

\* A new file has no units yet.
LEMMA TileFile ==
  ASSUME StateInv, TileInv, NEW e \in Entries, NEW size \in Sizes, VisitFile(e, size)
  PROVE  TileInv'
<1> USE DEF TileInv
<1>1. /\ queue' = queue /\ taken' = taken /\ root' = root /\ failed' = failed /\ offset' = 0
      /\ walk = "entry" /\ walk' \in {"select", "dispatch"}
      /\ files' = Append(files, [root |-> root, path |-> e.path, size |-> size])
  BY DEF VisitFile, Visit, chans
<1>2. OnePlace' /\ \A u : u \in AllUnits' <=> u \in AllUnits
  BY <1>1 DEF OnePlace, Queued, AllUnits
<1>3. PICK m \in Nat : m = Len(files)
  BY DEF StateInv, TypeOK
<1>4. PICK rec \in FileRec : rec = [root |-> root, path |-> e.path, size |-> size]
  <2>1. root \in Nat /\ e.path \in Seq(STRING) /\ size \in Nat
    BY WalkAssumption DEF StateInv, TypeOK
  <2> QED
    BY <2>1 DEF FileRec
<1>5. Len(files') = m + 1 /\ files' # <<>> /\ files'[m + 1] = rec /\ \A f \in 1 .. m : files'[f] = files[f]
  <2>1. files \in Seq(FileRec) /\ files' = Append(files, rec)
    BY <1>1, <1>4 DEF StateInv, TypeOK
  <2> QED BY <1>3, <2>1, AppendProperties
<1>6. Apart'
  BY <1>2 DEF Apart, Bytes
<1>7. \A f, n : Covers(f, n)' <=> Covers(f, n)
  BY <1>2 DEF Covers, Bytes
<1>8. \A u \in AllUnits : u.file \in 1 .. m
  BY <1>3
<1>9. \A u \in AllUnits' : u.file \in 1 .. Len(files')
  BY <1>2, <1>5, <1>8
<1>10. RootsGiven'
  BY <1>1 DEF RootsGiven
<1>11. Partial'
  <2>1. \A u \in AllUnits' : u.file # m + 1
    BY <1>2, <1>8
  <2>2. Covers(m + 1, 0)
    BY DEF Covers
  <2>3. rec.root = root
    BY <1>4
  <2> QED
    BY <1>1, <1>5, <1>7, <2>1, <2>2, <2>3 DEF Partial
<1>12. Whole'
  <2>1. \A f \in 1 .. m + 1 : Given(f)' => f \in 1 .. m
    BY <1>1, <1>5 DEF Given
  <2>2. \A f \in 1 .. m : Given(f)
    BY <1>1 DEF Given
  <2> QED
    BY <1>1, <1>2, <1>3, <1>5, <1>7, <2>1, <2>2 DEF Whole
<1> QED
  BY <1>2, <1>6, <1>9, <1>10, <1>11, <1>12

\* The next unit begins where the last one ended.
LEMMA TileEnqueue ==
  ASSUME StateInv, TileInv, Enqueue
  PROVE  TileInv'
<1> USE DEF TileInv
<1>1. /\ walk = "dispatch" /\ root' = root /\ failed' = failed /\ files' = files
      /\ offset' = offset + ChunkSize
      /\ walk' = IF Big /\ offset + ChunkSize < Size THEN "dispatch" ELSE "entry"
  BY DEF Enqueue, UnitQueued, tree
<1>2. PICK n \in UnitRec : n = Unit
  BY <1>1, UnitType
<1>3. PICK m \in Nat : m = Len(files) /\ m >= 1
  BY <1>1, UnitType
<1>4. PICK s \in Nat : s = Size /\ s = files[m].size
  BY <1>1, <1>3, UnitType DEF Size
<1>5. PICK o \in Nat : o = offset
  BY DEF StateInv, TypeOK
<1>6. PICK l \in Nat : l = n.len
  BY <1>2 DEF UnitRec
<1>7. n.file = m /\ n.off = o
  BY <1>1, <1>2, <1>3, <1>5, UnitType
<1>8. IF Big THEN /\ l > 0 /\ o + l <= s
                  /\ o + ChunkSize < s => l = ChunkSize
                  /\ ~(o + ChunkSize < s) => o + l = s
      ELSE o = 0 /\ l = s
  BY <1>1, <1>2, <1>4, <1>5, <1>6, UnitType
<1>9. \A b : b \in Bytes(n) <=> b \in o .. o + l - 1
  BY <1>6, <1>7 DEF Bytes
<1>10. /\ files[m].root = root /\ \A u \in AllUnits : u.file = m => u.off < o /\ u.off + u.len <= o
       /\ Covers(m, o)
  BY <1>1, <1>3, <1>5 DEF Partial
<1>11. n \notin AllUnits
  BY <1>5, <1>7, <1>10
<1>12. OnePlace' /\ \A u : u \in AllUnits' <=> u \in AllUnits \/ u = n
  BY <1>2, <1>11, UnitsGrow
<1>13. \A u \in AllUnits : u.file = m => Bytes(u) \cap Bytes(n) = {}
  <2> SUFFICES ASSUME NEW u \in AllUnits, u.file = m, NEW b \in Bytes(u), b \in Bytes(n)
               PROVE  FALSE
    OBVIOUS
  <2>1. u \in UnitRec
    BY AllUnitsType DEF StateInv
  <2>2. PICK uo \in Nat, ul \in Nat : uo = u.off /\ ul = u.len
    BY <2>1 DEF UnitRec
  <2>3. b \in uo .. uo + ul - 1 /\ b \in o .. o + l - 1 /\ uo + ul <= o
    BY <2>2, <1>9, <1>10 DEF Bytes
  <2> QED
    BY <2>3
<1>14. Apart'
  <2>1. \A u : Bytes(u)' = Bytes(u)
    BY DEF Bytes
  <2> SUFFICES ASSUME NEW u, u \in AllUnits \/ u = n, NEW v, v \in AllUnits \/ v = n,
                      u.file = v.file, u # v
               PROVE  Bytes(u) \cap Bytes(v) = {}
    BY <2>1, <1>12 DEF Apart
  <2> QED
    BY <1>7, <1>13 DEF Apart
<1>15. \A u \in AllUnits' : u.file \in 1 .. Len(files')
  BY <1>1, <1>3, <1>7, <1>12
<1>16. RootsGiven'
  BY <1>1 DEF RootsGiven
<1>17. ASSUME NEW f, NEW z, Covers(f, z) PROVE Covers(f, z)'
  BY <1>12, <1>17 DEF Covers, Bytes
<1>18. Covers(m, o + l)'
  <2> SUFFICES ASSUME NEW b \in Nat, b < o + l
               PROVE  \E u \in AllUnits' : u.file = m /\ b \in Bytes(u)
    BY DEF Covers, Bytes
  <2>1. CASE b < o
    BY <2>1, <1>10, <1>12 DEF Covers
  <2>2. CASE ~(b < o)
    <3>1. b \in Bytes(n)
      BY <2>2, <1>9
    <3> QED
      BY <3>1, <1>7, <1>12
  <2> QED
    BY <2>1, <2>2
<1>19. Partial'
  <2> SUFFICES ASSUME walk' = "dispatch" PROVE Partial'
    BY <1>1 DEF Partial
  <2>1. Big /\ o + ChunkSize < s /\ l = ChunkSize /\ l > 0
    BY <1>1, <1>4, <1>5, <1>8
  <2>2. offset' = o + l /\ files' # <<>> /\ Len(files') = m /\ files'[m].root = root'
    BY <2>1, <1>1, <1>3, <1>5, <1>10 DEF StateInv, Cutting
  <2>3. ASSUME NEW u, u \in AllUnits \/ u = n, u.file = m PROVE u.off < o + l /\ u.off + u.len <= o + l
    <3>1. CASE u = n
      BY <3>1, <1>6, <1>7, <2>1
    <3>2. CASE u \in AllUnits
      <4>1. u \in UnitRec
        BY <3>2, AllUnitsType DEF StateInv
      <4>2. PICK uo \in Nat, ul \in Nat : uo = u.off /\ ul = u.len
        BY <4>1 DEF UnitRec
      <4>3. uo < o /\ uo + ul <= o
        BY <2>3, <3>2, <4>2, <1>10
      <4> QED
        BY <4>2, <4>3
    <3> QED
      BY <2>3, <3>1, <3>2
  <2> QED
    BY <2>2, <2>3, <1>12, <1>18 DEF Partial
<1>20. Whole'
  <2> SUFFICES ASSUME NEW f \in 1 .. m, Given(f)', files[f].root \notin failed,
                      NEW z, z = files[f].size
               PROVE  /\ \E u \in AllUnits' : u.file = f
                      /\ \A u \in AllUnits' : u.file = f => u.off + u.len <= z
                      /\ Covers(f, z)'
    BY <1>1, <1>3 DEF Whole
  <2>1. CASE f # m
    <3>1. Given(f) /\ f \in 1 .. Len(files)
      BY <2>1, <1>3 DEF Given
    <3>2. /\ \E u \in AllUnits : u.file = f
          /\ \A u \in AllUnits : u.file = f => u.off + u.len <= z
          /\ Covers(f, z)
      BY <3>1 DEF Whole
    <3> QED
      BY <2>1, <3>2, <1>7, <1>12, <1>17
  <2>2. CASE f = m
    <3>1. ~(Big /\ o + ChunkSize < s)
      BY <2>2, <1>1, <1>3, <1>4, <1>5 DEF Given
    <3>2. o + l = s
      BY <3>1, <1>8
    <3>3. ASSUME NEW u, u \in AllUnits \/ u = n, u.file = m PROVE u.off + u.len <= s
      <4>1. CASE u = n
        BY <4>1, <1>6, <1>7, <3>2
      <4>2. CASE u \in AllUnits
        <5>1. u \in UnitRec
          BY <4>2, AllUnitsType DEF StateInv
        <5>2. PICK uo \in Nat, ul \in Nat : uo = u.off /\ ul = u.len
          BY <5>1 DEF UnitRec
        <5>3. uo + ul <= o
          BY <3>3, <4>2, <5>2, <1>10
        <5> QED
          BY <5>2, <5>3, <3>2
      <4> QED
        BY <3>3, <4>1, <4>2
    <3> QED
      BY <2>2, <3>2, <3>3, <1>4, <1>7, <1>12, <1>18
  <2> QED
    BY <2>1, <2>2
<1> QED
  BY <1>12, <1>14, <1>15, <1>16, <1>19, <1>20

LEMMA TileStep == StateInv /\ TileInv /\ [Next]_vars => TileInv'
<1> SUFFICES ASSUME StateInv, TileInv, [Next]_vars PROVE TileInv'
  OBVIOUS
<1>1. CASE NextRoot \/ RootFailed
  BY <1>1, TileRoot
<1>2. CASE \E e \in Entries, size \in Sizes : VisitFile(e, size)
  BY <1>2, TileFile
<1>3. CASE Enqueue
  BY <1>3, TileEnqueue
<1>4. ASSUME \/ UNCHANGED vars \/ LeaveDir \/ ScanWorker \/ Selected \/ AwaitInit \/ SkipWorker
             \/ \E e \in Entries : VisitDir(e) \/ StatFails(e) \/ PassOver(e)
             \/ \E i \in Worker : WorkerInit(i)
      PROVE  TileInv'
  <2>1. queue' = queue /\ taken' = taken /\ files' = files /\ offset' = offset /\ root' = root /\ failed' = failed
    BY <1>4 DEF vars, LeaveDir, ScanWorker, Selected, AwaitInit, SkipWorker, TryNext, VisitDir, StatFails,
                PassOver, WorkerInit, chans, tree, file
  <2>2. \/ walk' = walk
        \/ walk \in {"select", "dispatch", "aborted"} /\ walk' \in {"select", "dispatch", "aborted"}
        \/ walk \in {"root", "entry"} /\ walk' \in {"root", "done"}
    BY <1>4 DEF vars, LeaveDir, ScanWorker, Selected, AwaitInit, SkipWorker, TryNext, VisitDir, StatFails,
                PassOver, WorkerInit
  <2>3. OnePlace' /\ \A u : u \in AllUnits' <=> u \in AllUnits
    BY <2>1 DEF TileInv, OnePlace, Queued, AllUnits
  <2> QED
    BY <2>1, <2>2, <2>3, TileSame
<1>5. ASSUME NEW i \in Worker, WorkerProcess(i) \/ WorkerFail(i) PROVE TileInv'
  <2>1. files' = files /\ offset' = offset /\ root' = root /\ failed' = failed /\ walk' = walk
    BY <1>5 DEF WorkerProcess, WorkerFail, tree, file
  <2>2. OnePlace' /\ \A u : u \in AllUnits' <=> u \in AllUnits
    BY <1>5, UnitsMove DEF TileInv
  <2> QED
    BY <2>1, <2>2, TileSame
<1> QED
  BY <1>1, <1>2, <1>3, <1>4, <1>5 DEF Next, WalkStep, WorkerStep

LEMMA TileAlways == Spec => []TileInv
  BY TileInit, TileStep, StateAlways, PTL DEF Spec

\* enqueue: whatever workers fail and whenever the walk is given up, the units
\* of a file never overlap, and those of a file it got through make it up.
THEOREM SchedulerFilesTiled == Spec => []FilesTiled
<1>1. StateInv /\ TileInv => FilesTiled
  <2> SUFFICES ASSUME StateInv, TileInv PROVE FilesTiled
    OBVIOUS
  <2>1. \A f \in DOMAIN files : f \in 1 .. Len(files)
    BY DEF StateInv, TypeOK
  <2>2. \A f : \A u : u \in UnitsOf(f) <=> u \in AllUnits /\ u.file = f
    BY DEF UnitsOf, AllUnits
  <2>3. ASSUME NEW f \in DOMAIN files, Given(f), files[f].root \notin failed
        PROVE  UnitsOf(f) # {} /\ UNION {Bytes(u) : u \in UnitsOf(f)} = 0 .. files[f].size - 1
    <3>1. /\ \E u \in AllUnits : u.file = f
          /\ \A u \in AllUnits : u.file = f => u.off + u.len <= files[f].size
          /\ Covers(f, files[f].size)
      BY <2>1, <2>3 DEF TileInv, Whole
    <3>2. PICK s \in Nat : s = files[f].size
      <4>1. files[f] \in FileRec
        BY <2>3 DEF StateInv, TypeOK
      <4> QED
        BY <4>1 DEF FileRec
    <3>3. ASSUME NEW u \in UnitsOf(f), NEW b \in Bytes(u) PROVE b \in 0 .. s - 1
      <4>1. u \in UnitRec /\ u.off + u.len <= s
        BY <2>2, <3>1, <3>2, AllUnitsType DEF StateInv
      <4>2. PICK uo \in Nat, ul \in Nat : uo = u.off /\ ul = u.len
        BY <4>1 DEF UnitRec
      <4>3. b \in uo .. uo + ul - 1 /\ uo + ul <= s
        BY <4>1, <4>2 DEF Bytes
      <4> QED
        BY <4>3
    <3>4. ASSUME NEW b \in 0 .. s - 1 PROVE \E u \in UnitsOf(f) : b \in Bytes(u)
      <4>1. b \in Nat /\ b < s
        OBVIOUS
      <4> QED
        BY <4>1, <2>2, <3>1, <3>2 DEF Covers
    <3>5. UNION {Bytes(u) : u \in UnitsOf(f)} = 0 .. s - 1
      BY <3>3, <3>4
    <3> QED
      BY <2>2, <3>1, <3>2, <3>5
  <2>4. \A f \in DOMAIN files : \A u, v \in UnitsOf(f) : u # v => Bytes(u) \cap Bytes(v) = {}
    BY <2>2 DEF TileInv, Apart
  <2> QED
    BY <2>3, <2>4 DEF FilesTiled, TileInv
<1> QED
  BY <1>1, StateAlways, TileAlways, PTL

-----------------------------------------------------------------------------
(* The walk through the tree *)

Pre(p, n) == SubSeq(p, 1, n)
Walking == walk \in {"entry", "select", "dispatch", "aborted"}

\* The iterator's stack: the entries of level n have n names.
Stack == /\ dirs \in Seq(SUBSET Entries) /\ (Walking <=> dirs # <<>>)
         /\ \A n \in 1 .. Len(dirs) : \A x \in dirs[n] : Len(x.path) = n

\* The walk will come to p through the entry of level n that is on its way.
Ahead(p, n) == n \in 1 .. Len(dirs) /\ n <= Len(p) /\ \E x \in dirs[n] : x.path = Pre(p, n)

Coming(e) == \E n \in 1 .. Len(dirs) : Ahead(e.path, n)

\* It comes to an entry in one way, and to none that has been taken.
OneWay == \A e \in Entries : \A m, n \in 1 .. Len(dirs) : Ahead(e.path, m) /\ Ahead(e.path, n) => m = n
NoneAgain == \A f \in 1 .. Len(files) :
               /\ files[f].root <= root
               /\ files[f].root = root => \A e \in Entries : e.path = files[f].path => ~Coming(e)

\* The directories above an entry that is to come were kept, unless one of them
\* could not be examined.
Kept(r, p) == \/ \A m \in 1 .. Len(p) - 1 : keep(rules[r], Pre(p, m), TRUE)
              \/ \E m \in 1 .. Len(p) - 1 : [root |-> r, path |-> Pre(p, m)] \in unruled
AheadKept == \A n \in 1 .. Len(dirs) : \A x \in dirs[n] : Kept(root, x.path)

\* Of the root being walked, the files asked for are taken, skipped or to come.
Settled(r, e) == \/ Under(r, e, skipped)
                 \/ \E f \in 1 .. Len(files) : files[f].root = r /\ files[f].path = e.path
ToCome == Walking => \A e \in Entries : Wanted(root, e) =>
                       Settled(root, e) \/ Coming(e)

NoneTwice == \A f, g \in 1 .. Len(files) :
               files[f].root = files[g].root /\ files[f].path = files[g].path => f = g
NoneUnasked == \A f \in 1 .. Len(files) : \E e \in Entries :
                 /\ e.path = files[f].path
                 /\ Wanted(files[f].root, e) \/ Under(files[f].root, e, unruled)
Through(r) == (r < root \/ (r = root /\ walk \in {"root", "done"})) /\ r \notin failed
NoneMissing == \A r \in 1 .. Roots, e \in Entries : Through(r) /\ Wanted(r, e) => Settled(r, e)

WalkInv == /\ Stack /\ OneWay /\ NoneAgain /\ AheadKept /\ ToCome
           /\ NoneTwice /\ NoneUnasked /\ NoneMissing

LEMMA PreFacts ==
  ASSUME NEW p \in Seq(STRING), NEW n \in 1 .. Len(p)
  PROVE  /\ Pre(p, n) \in Seq(STRING) /\ Len(Pre(p, n)) = n
         /\ \A m \in 1 .. n : Pre(Pre(p, n), m) = Pre(p, m)
         /\ n = Len(p) => Pre(p, n) = p
<1>1. PICK l \in Nat : l = Len(p)
  OBVIOUS
<1>2. \A i \in 1 .. l : p[i] \in STRING
  BY <1>1
<1>3. ASSUME NEW m \in 1 .. l
      PROVE  /\ Pre(p, m) \in Seq(STRING) /\ Len(Pre(p, m)) = m
             /\ \A i \in 1 .. m : Pre(p, m)[i] = p[i]
  <2>1. m \in Nat /\ 1 <= m /\ m <= l
    OBVIOUS
  <2>2. Pre(p, m) = [i \in 1 .. m |-> p[i]]
    BY <2>1 DEF Pre
  <2>3. \A i \in 1 .. m : p[i] \in STRING
    BY <1>2, <2>1
  <2> QED
    BY <2>1, <2>2, <2>3
<1>4. Pre(p, n) \in Seq(STRING) /\ Len(Pre(p, n)) = n /\ \A i \in 1 .. n : Pre(p, n)[i] = p[i]
  BY <1>1, <1>3
<1>5. ASSUME NEW m \in 1 .. n PROVE Pre(Pre(p, n), m) = Pre(p, m)
  <2>1. m \in Nat /\ m <= n /\ m <= l /\ n <= l
    BY <1>1
  <2>2. Pre(p, m) = [i \in 1 .. m |-> p[i]]
    BY <2>1 DEF Pre
  <2>3. Pre(Pre(p, n), m) = [i \in 1 .. m |-> Pre(p, n)[i]]
    BY <2>1, <1>4 DEF Pre
  <2>4. \A i \in 1 .. m : i \in 1 .. n
    BY <2>1
  <2> QED
    BY <2>2, <2>3, <2>4, <1>4
<1>6. n = Len(p) => Pre(p, n) = p
  BY <1>4, SeqEqual
<1> QED
  BY <1>4, <1>5, <1>6

LEMMA EntryFacts == \A e \in Entries : e.path \in Seq(STRING) /\ Len(e.path) \in Nat /\ Len(e.path) >= 1
  BY WalkAssumption

\* On the way to an entry there is one entry of every level, a directory unless
\* it is the entry itself.
LEMMA OnWay ==
  ASSUME NEW e \in Entries, NEW n \in 1 .. Len(e.path)
  PROVE  \E y \in Entries : /\ y.path = Pre(e.path, n) /\ Len(y.path) = n
                            /\ IF n = Len(e.path) THEN y = e ELSE y.kind = "dir"
<1>1. Pre(e.path, n) \in Seq(STRING) /\ Len(Pre(e.path, n)) = n /\ (n = Len(e.path) => Pre(e.path, n) = e.path)
  BY EntryFacts, PreFacts
<1>2. CASE n = Len(e.path)
  BY <1>1, <1>2
<1>3. CASE n # Len(e.path)
  <2>1. n \in 1 .. Len(e.path) - 1
    BY <1>3, EntryFacts
  <2>2. PICK d \in Entries : d.path = Pre(e.path, n) /\ d.kind = "dir"
    BY <2>1, TreeAssumption DEF Pre
  <2> QED
    BY <1>1, <1>3, <2>2
<1> QED
  BY <1>2, <1>3

LEMMA InDirFacts ==
  ASSUME NEW x \in Entries
  PROVE  /\ x \in InDir(<<>>) <=> Len(x.path) = 1
         /\ \A d \in Entries : x \in InDir(d.path) <=>
              Len(x.path) = Len(d.path) + 1 /\ Pre(x.path, Len(d.path)) = d.path
<1>1. x.path \in Seq(STRING)
  BY EntryFacts
<1>2. SubSeq(x.path, 1, 0) = <<>>
  BY <1>1, SubSeqEmpty
<1>3. Len(<<>>) = 0
  OBVIOUS
<1> QED
  BY <1>2, <1>3 DEF InDir, Pre

-----------------------------------------------------------------------------
(* What a visit does to the stack *)

OnTheWay(e, x) == Len(e.path) <= Len(x.path) /\ Pre(x.path, Len(e.path)) = e.path

LEMMA VisitFacts ==
  ASSUME Stack, NEW e \in Entries, Visit(e)
  PROVE  \E l \in Nat, v \in Seq(SUBSET Entries) :
           /\ l = Len(dirs) /\ l >= 1 /\ Len(e.path) = l /\ e \in dirs[l]
           /\ v = Visited(e) /\ Len(v) = l /\ v[l] = dirs[l] \ {e}
           /\ \A n \in 1 .. l : n # l => v[n] = dirs[n]
<1>1. dirs \in Seq(SUBSET Entries) /\ dirs # <<>>
  BY DEF Stack, Visit, Walking
<1>2. PICK l \in Nat : l = Len(dirs) /\ l >= 1 /\ l \in 1 .. Len(dirs)
  BY <1>1
<1>3. e \in dirs[l] /\ Len(e.path) = l
  BY <1>2 DEF Visit, Stack
<1>4. PICK v : v = Visited(e)
  OBVIOUS
<1>5. v = [dirs EXCEPT ![l] = dirs[l] \ {e}]
  BY <1>2, <1>4 DEF Visited
<1>6. dirs[l] \ {e} \in SUBSET Entries
  BY <1>1, <1>2
<1>7. v \in Seq(SUBSET Entries) /\ Len(v) = l /\ v[l] = dirs[l] \ {e} /\ \A n \in 1 .. l : n # l => v[n] = dirs[n]
  BY <1>1, <1>2, <1>5, <1>6
<1> QED
  BY <1>2, <1>3, <1>4, <1>7

\* An entry that is visited and not entered is no longer on the way.
LEMMA DropStep ==
  ASSUME Stack, OneWay, NEW e \in Entries, Visit(e), dirs' = Visited(e), Walking'
  PROVE  /\ Stack' /\ OneWay'
         /\ \A x \in Entries : Coming(x)' <=> Coming(x) /\ ~OnTheWay(e, x)
         /\ \A n \in 1 .. Len(dirs') : n \in 1 .. Len(dirs) /\ \A x \in dirs'[n] : x \in dirs[n]
<1>1. PICK l \in Nat, v \in Seq(SUBSET Entries) :
           /\ l = Len(dirs) /\ l >= 1 /\ Len(e.path) = l /\ e \in dirs[l]
           /\ v = Visited(e) /\ Len(v) = l /\ v[l] = dirs[l] \ {e}
           /\ \A n \in 1 .. l : n # l => v[n] = dirs[n]
  BY VisitFacts
<1>2. dirs' = v /\ Len(dirs') = l
  BY <1>1
<1>3. \A n \in 1 .. l : \A x : x \in v[n] <=> x \in dirs[n] /\ ~(n = l /\ x = e)
  BY <1>1
<1>4. v # <<>>
  BY <1>1
<1>5. Stack'
  BY <1>1, <1>2, <1>3, <1>4 DEF Stack
<1>6. ASSUME NEW x \in Entries, NEW n \in 1 .. l
      PROVE  Ahead(x.path, n)' <=> Ahead(x.path, n) /\ ~(n = l /\ OnTheWay(e, x))
  <2>1. Ahead(x.path, n)' <=> n <= Len(x.path) /\ \E y \in v[n] : y.path = Pre(x.path, n)
    BY <1>2 DEF Ahead, Pre
  <2>2. Ahead(x.path, n) <=> n <= Len(x.path) /\ \E y \in dirs[n] : y.path = Pre(x.path, n)
    BY <1>1 DEF Ahead
  <2>3. OnTheWay(e, x) <=> l <= Len(x.path) /\ Pre(x.path, l) = e.path
    BY <1>1 DEF OnTheWay
  <2>4. \A y \in dirs[n] : y \in Entries
    BY <1>1 DEF Stack
  <2>5. \A y \in dirs[n] : y.path = e.path => y = e
    BY <2>4, TreeAssumption
  <2> QED
    BY <1>3, <2>1, <2>2, <2>3, <2>5
<1>7. OneWay'
  BY <1>1, <1>2, <1>6 DEF OneWay
<1>8. ASSUME NEW x \in Entries PROVE Coming(x)' <=> Coming(x) /\ ~OnTheWay(e, x)
  <2>1. Coming(x) <=> \E n \in 1 .. l : Ahead(x.path, n)
    BY <1>1 DEF Coming
  <2>2. Coming(x)' <=> \E n \in 1 .. l : Ahead(x.path, n)'
    BY <1>2 DEF Coming
  <2>3. OnTheWay(e, x) => Ahead(x.path, l) /\ l \in 1 .. l
    BY <1>1 DEF OnTheWay, Ahead
  <2>4. \A m, n \in 1 .. l : Ahead(x.path, m) /\ Ahead(x.path, n) => m = n
    BY <1>1 DEF OneWay
  <2> QED
    BY <2>1, <2>2, <2>3, <2>4, <1>6
<1>9. \A n \in 1 .. Len(dirs') : n \in 1 .. Len(dirs) /\ \A x \in dirs'[n] : x \in dirs[n]
  BY <1>1, <1>2, <1>3
<1> QED
  BY <1>5, <1>7, <1>8, <1>9

\* A directory that is entered gives way to what is in it.
LEMMA EnterStep ==
  ASSUME Stack, OneWay, NEW e \in Entries, Visit(e),
         dirs' = Append(Visited(e), InDir(e.path)), Walking'
  PROVE  /\ Stack' /\ OneWay'
         /\ \A x \in Entries : Coming(x)' <=> Coming(x) /\ x # e
         /\ \A n \in 1 .. Len(dirs') : \A x \in dirs'[n] :
              (n \in 1 .. Len(dirs) /\ x \in dirs[n]) \/ x \in InDir(e.path)
<1>1. PICK l \in Nat, v \in Seq(SUBSET Entries) :
           /\ l = Len(dirs) /\ l >= 1 /\ Len(e.path) = l /\ e \in dirs[l]
           /\ v = Visited(e) /\ Len(v) = l /\ v[l] = dirs[l] \ {e}
           /\ \A n \in 1 .. l : n # l => v[n] = dirs[n]
  BY VisitFacts
<1>2. PICK d \in SUBSET Entries : d = InDir(e.path)
  BY DEF InDir
<1>3. PICK t : t = Append(v, d)
  OBVIOUS
<1>4. /\ t \in Seq(SUBSET Entries) /\ t # <<>> /\ Len(t) = l + 1 /\ t[l + 1] = d
      /\ \A n \in 1 .. l : t[n] = v[n]
  BY <1>1, <1>2, <1>3, AppendProperties
<1>5. dirs' = t /\ Len(dirs') = l + 1
  BY <1>1, <1>2, <1>3, <1>4
<1>6. \A n \in 1 .. l : \A x : x \in t[n] <=> x \in dirs[n] /\ ~(n = l /\ x = e)
  BY <1>1, <1>4
<1>7. \A n \in 1 .. l + 1 : n \in 1 .. l \/ n = l + 1
  OBVIOUS
<1>8. \A x \in d : Len(x.path) = l + 1
  BY <1>1, <1>2, InDirFacts
<1>9. Stack'
  BY <1>1, <1>4, <1>5, <1>6, <1>7, <1>8 DEF Stack
<1>10. ASSUME NEW x \in Entries, NEW n \in 1 .. l
       PROVE  Ahead(x.path, n)' <=> Ahead(x.path, n) /\ ~(n = l /\ OnTheWay(e, x))
  <2>1. Ahead(x.path, n)' <=> n <= Len(x.path) /\ \E y \in t[n] : y.path = Pre(x.path, n)
    BY <1>5, <1>7 DEF Ahead, Pre
  <2>2. Ahead(x.path, n) <=> n <= Len(x.path) /\ \E y \in dirs[n] : y.path = Pre(x.path, n)
    BY <1>1 DEF Ahead
  <2>3. OnTheWay(e, x) <=> l <= Len(x.path) /\ Pre(x.path, l) = e.path
    BY <1>1 DEF OnTheWay
  <2>4. \A y \in dirs[n] : y \in Entries
    BY <1>1 DEF Stack
  <2>5. \A y \in dirs[n] : y.path = e.path => y = e
    BY <2>4, TreeAssumption
  <2> QED
    BY <1>6, <2>1, <2>2, <2>3, <2>5
<1>11. ASSUME NEW x \in Entries
       PROVE  Ahead(x.path, l + 1)' <=> OnTheWay(e, x) /\ x # e
  <2>1. Ahead(x.path, l + 1)' <=> l + 1 <= Len(x.path) /\ \E y \in d : y.path = Pre(x.path, l + 1)
    BY <1>4, <1>5 DEF Ahead, Pre
  <2>2. OnTheWay(e, x) <=> l <= Len(x.path) /\ Pre(x.path, l) = e.path
    BY <1>1 DEF OnTheWay
  <2>3. x.path \in Seq(STRING) /\ Len(x.path) \in Nat
    BY EntryFacts
  <2>4. ASSUME l + 1 <= Len(x.path), NEW y \in d, y.path = Pre(x.path, l + 1)
        PROVE  OnTheWay(e, x) /\ x # e
    <3>1. l + 1 \in 1 .. Len(x.path) /\ l \in 1 .. l + 1 /\ l <= Len(x.path) /\ Len(x.path) # l
      BY <2>3, <2>4, <1>1
    <3>2. Pre(Pre(x.path, l + 1), l) = Pre(x.path, l)
      BY <2>3, <3>1, PreFacts
    <3>3. y \in Entries /\ Pre(y.path, l) = e.path
      BY <1>1, <1>2, InDirFacts
    <3> QED
      BY <3>1, <3>2, <3>3, <2>2, <2>4, <1>1
  <2>5. ASSUME OnTheWay(e, x), x # e
        PROVE  l + 1 <= Len(x.path) /\ \E y \in d : y.path = Pre(x.path, l + 1)
    <3>1. Len(x.path) # l
      <4>1. SUFFICES ASSUME Len(x.path) = l PROVE FALSE
        OBVIOUS
      <4>2. l \in 1 .. Len(x.path)
        BY <4>1, <1>1
      <4>3. Pre(x.path, l) = x.path
        BY <4>1, <4>2, <2>3, PreFacts
      <4> QED
        BY <4>3, <2>2, <2>5, TreeAssumption
    <3>2. l + 1 <= Len(x.path) /\ l + 1 \in 1 .. Len(x.path) /\ l \in 1 .. l + 1
      BY <3>1, <2>2, <2>3, <2>5, <1>1
    <3>3. PICK y \in Entries : y.path = Pre(x.path, l + 1) /\ Len(y.path) = l + 1
      BY <3>2, OnWay
    <3>4. Pre(y.path, l) = e.path
      <4>1. Pre(Pre(x.path, l + 1), l) = Pre(x.path, l)
        BY <2>3, <3>2, PreFacts
      <4> QED
        BY <4>1, <3>3, <2>2, <2>5
    <3>5. y \in d
      BY <3>3, <3>4, <1>1, <1>2, InDirFacts
    <3> QED
      BY <3>2, <3>3, <3>5
  <2> QED
    BY <2>1, <2>4, <2>5
<1>12. ASSUME NEW x \in Entries
       PROVE  OnTheWay(e, x) => Ahead(x.path, l) /\ l \in 1 .. l
  BY <1>1 DEF OnTheWay, Ahead
<1>13. \A x \in Entries : \A m, n \in 1 .. l : Ahead(x.path, m) /\ Ahead(x.path, n) => m = n
  BY <1>1 DEF OneWay
<1>14. OneWay'
  <2> SUFFICES ASSUME NEW x \in Entries, NEW m \in 1 .. l + 1, NEW n \in 1 .. l + 1,
                      Ahead(x.path, m)', Ahead(x.path, n)'
               PROVE  m = n
    BY <1>5 DEF OneWay
  <2> QED
    BY <1>7, <1>10, <1>11, <1>12, <1>13
<1>15. ASSUME NEW x \in Entries PROVE Coming(x)' <=> Coming(x) /\ x # e
  <2>1. Coming(x) <=> \E n \in 1 .. l : Ahead(x.path, n)
    BY <1>1 DEF Coming
  <2>2. Coming(x)' <=> \E n \in 1 .. l + 1 : Ahead(x.path, n)'
    BY <1>5 DEF Coming
  <2>3. OnTheWay(e, e)
    <3>1. l \in 1 .. Len(e.path)
      BY <1>1
    <3>2. Pre(e.path, l) = e.path
      BY <3>1, <1>1, EntryFacts, PreFacts
    <3> QED
      BY <3>2, <1>1 DEF OnTheWay
  <2>4. \A n \in 1 .. l : n \in 1 .. l + 1
    OBVIOUS
  <2>5. l + 1 \in 1 .. l + 1
    BY <1>1
  <2>6. Coming(x)' => Coming(x) /\ x # e
    BY <2>1, <2>2, <2>3, <1>7, <1>10, <1>11, <1>12, <1>13
  <2>7. Coming(x) /\ x # e => Coming(x)'
    BY <2>1, <2>2, <2>4, <2>5, <1>10, <1>11
  <2> QED
    BY <2>6, <2>7
<1>16. \A n \in 1 .. Len(dirs') : \A x \in dirs'[n] :
         (n \in 1 .. Len(dirs) /\ x \in dirs[n]) \/ x \in InDir(e.path)
  BY <1>1, <1>2, <1>4, <1>5, <1>6, <1>7
<1> QED
  BY <1>9, <1>14, <1>15, <1>16

-----------------------------------------------------------------------------
(* The walk follows the rules *)

\* On the way to a file that is asked for there are only directories the rules
\* keep, before the file itself.
LEMMA WantedWay ==
  ASSUME NEW r, NEW x \in Entries, Wanted(r, x), NEW e \in Entries, OnTheWay(e, x)
  PROVE  IF x = e THEN e.kind = "file" /\ keep(rules[r], e.path, FALSE)
                  ELSE e.kind = "dir" /\ keep(rules[r], e.path, TRUE)
<1>1. Len(e.path) \in Nat /\ Len(e.path) >= 1 /\ Len(x.path) \in Nat
  BY EntryFacts
<1>2. Len(e.path) \in 1 .. Len(x.path)
  BY <1>1 DEF OnTheWay
<1>3. PICK y \in Entries : /\ y.path = Pre(x.path, Len(e.path))
                           /\ IF Len(e.path) = Len(x.path) THEN y = x ELSE y.kind = "dir"
  BY <1>2, OnWay
<1>4. y = e
  BY <1>3, TreeAssumption DEF OnTheWay
<1>5. CASE x = e
  BY <1>5 DEF Wanted
<1>6. CASE x # e
  <2>1. Len(e.path) # Len(x.path) /\ e.kind = "dir"
    BY <1>3, <1>4, <1>6
  <2>2. Len(e.path) \in 1 .. Len(x.path) - 1
    BY <1>1, <1>2, <2>1
  <2>3. keep(rules[r], SubSeq(x.path, 1, Len(e.path)), TRUE)
    BY <2>2 DEF Wanted
  <2> QED
    BY <1>6, <2>1, <2>3 DEF OnTheWay, Pre
<1> QED
  BY <1>5, <1>6

LEMMA UnderWay ==
  ASSUME NEW r, NEW x \in Entries, NEW e \in Entries, OnTheWay(e, x), NEW S,
         [root |-> r, path |-> e.path] \in S
  PROVE  Under(r, x, S)
<1>1. Len(e.path) \in 1 .. Len(x.path)
  BY EntryFacts DEF OnTheWay
<1> QED
  BY <1>1 DEF OnTheWay, Under, Pre

\* What is settled stays so.
LEMMA HistoryGrows ==
  ASSUME rules' = rules, skipped \subseteq skipped', unruled \subseteq unruled',
         Len(files) \in Nat, Len(files') \in Nat, Len(files) <= Len(files'),
         \A f \in 1 .. Len(files) : files'[f] = files[f]
  PROVE  /\ \A r : \A e \in Entries : Wanted(r, e)' <=> Wanted(r, e)
         /\ \A r : \A e \in Entries : Settled(r, e) => Settled(r, e)'
         /\ \A r : \A e \in Entries : Under(r, e, unruled) => Under(r, e, unruled)'
         /\ \A r, q : Kept(r, q) => Kept(r, q)'
<1>1. \A r : \A e \in Entries : Wanted(r, e)' <=> Wanted(r, e)
  BY DEF Wanted
<1>2. \A r : \A e \in Entries : Under(r, e, unruled) => Under(r, e, unruled)'
  BY DEF Under
<1>3. \A r : \A e \in Entries : Under(r, e, skipped) => Under(r, e, skipped)'
  BY DEF Under
<1>4. \A f \in 1 .. Len(files) : f \in 1 .. Len(files')
  OBVIOUS
<1>5. \A r : \A e \in Entries : Settled(r, e) => Settled(r, e)'
  BY <1>3, <1>4 DEF Settled
<1>6. \A r, q : Kept(r, q) => Kept(r, q)'
  BY DEF Kept, Pre
<1> QED
  BY <1>1, <1>2, <1>5, <1>6

\* A step inside a root that takes no file.
LEMMA WalkSame ==
  ASSUME StateInv, WalkInv, Walking, Walking', root' = root, rules' = rules, files' = files,
         failed' = failed, skipped \subseteq skipped', unruled \subseteq unruled',
         Stack', OneWay', AheadKept',
         \A x \in Entries : Coming(x)' => Coming(x),
         \A x \in Entries : Wanted(root, x) /\ Coming(x) => Coming(x)' \/ Under(root, x, skipped)'
  PROVE  WalkInv'
<1> USE DEF WalkInv
<1>1. Len(files) \in Nat
  BY DEF StateInv, TypeOK
<1>2. /\ \A r : \A e \in Entries : Wanted(r, e)' <=> Wanted(r, e)
      /\ \A r : \A e \in Entries : Settled(r, e) => Settled(r, e)'
      /\ \A r : \A e \in Entries : Under(r, e, unruled) => Under(r, e, unruled)'
  BY <1>1, HistoryGrows
<1>3. NoneAgain' /\ NoneTwice'
  BY DEF NoneAgain, NoneTwice
<1>4. NoneUnasked'
  BY <1>2 DEF NoneUnasked
<1>5. \A r : Through(r)' => Through(r)
  BY DEF Through, Walking
<1>6. NoneMissing'
  BY <1>2, <1>5 DEF NoneMissing
<1>7. \A x \in Entries : Under(root, x, skipped)' => Settled(root, x)'
  BY DEF Settled
<1>8. ToCome'
  BY <1>2, <1>7 DEF ToCome
<1> QED
  BY <1>3, <1>4, <1>6, <1>8

LEMMA KeptBelow ==
  ASSUME NEW e \in Entries, NEW x \in InDir(e.path), NEW r,
         \/ Kept(r, e.path) /\ keep(rules[r], e.path, TRUE)
         \/ [root |-> r, path |-> e.path] \in unruled
  PROVE  Kept(r, x.path)
<1>1. x \in Entries /\ e.path \in Seq(STRING) /\ x.path \in Seq(STRING)
  BY EntryFacts DEF InDir
<1>2. PICK l \in Nat : l = Len(e.path) /\ l >= 1
  BY EntryFacts
<1>3. Len(x.path) = l + 1 /\ Pre(x.path, l) = e.path
  BY <1>1, <1>2, InDirFacts
<1>4. \A m : m \in 1 .. Len(x.path) - 1 <=> m \in 1 .. l - 1 \/ m = l
  BY <1>2, <1>3
<1>5. \A m \in 1 .. l - 1 : Pre(x.path, m) = Pre(e.path, m)
  <2>1. l \in 1 .. Len(x.path)
    BY <1>2, <1>3
  <2>2. \A m \in 1 .. l : Pre(Pre(x.path, l), m) = Pre(x.path, m)
    BY <2>1, <1>1, PreFacts
  <2>3. \A m \in 1 .. l - 1 : m \in 1 .. l
    BY <1>2
  <2> QED
    BY <2>2, <2>3, <1>3
<1> QED
  BY <1>2, <1>3, <1>4, <1>5 DEF Kept

\* A visit that leaves the entry out: it is not asked for, or it is skipped.
LEMMA WalkDrop ==
  ASSUME StateInv, WalkInv, NEW e \in Entries, Visit(e), dirs' = Visited(e), walk' = walk,
         root' = root, rules' = rules, files' = files, failed' = failed, unruled' = unruled,
         skipped \subseteq skipped',
         \/ InRoot(e) \in skipped'
         \/ ~(e.kind = "dir" /\ keep(rules[root], e.path, TRUE))
            /\ ~(e.kind = "file" /\ keep(rules[root], e.path, FALSE))
  PROVE  WalkInv'
<1> USE DEF WalkInv
<1>1. Walking /\ Walking'
  BY DEF Visit, Walking
<1>2. /\ Stack' /\ OneWay'
      /\ \A x \in Entries : Coming(x)' <=> Coming(x) /\ ~OnTheWay(e, x)
      /\ \A n \in 1 .. Len(dirs') : n \in 1 .. Len(dirs) /\ \A x \in dirs'[n] : x \in dirs[n]
  BY <1>1, DropStep
<1>3. AheadKept'
  <2>1. \A q : Kept(root, q) => Kept(root, q)'
    BY DEF Kept, Pre
  <2> SUFFICES ASSUME NEW n \in 1 .. Len(dirs'), NEW x \in dirs'[n] PROVE Kept(root, x.path)'
    BY DEF AheadKept
  <2>2. Kept(root, x.path)
    BY <1>2 DEF AheadKept
  <2>3. PICK q : q = x.path
    OBVIOUS
  <2> QED
    BY <2>1, <2>2
<1>4. ASSUME NEW x \in Entries, Wanted(root, x), Coming(x)
      PROVE  Coming(x)' \/ Under(root, x, skipped)'
  <2>1. CASE ~OnTheWay(e, x)
    BY <2>1, <1>2, <1>4
  <2>2. CASE OnTheWay(e, x)
    <3>1. InRoot(e) \in skipped'
      BY <2>2, <1>4, WantedWay
    <3>2. Under(root, x, skipped')
      BY <2>2, <3>1, UnderWay DEF InRoot
    <3> QED
      BY <3>2 DEF Under
  <2> QED
    BY <2>1, <2>2
<1> QED
  BY <1>1, <1>2, <1>3, <1>4, WalkSame

\* A directory that is entered: the rules keep it, or could not be asked.
LEMMA WalkEnter ==
  ASSUME StateInv, WalkInv, NEW e \in Entries, Visit(e), e.kind = "dir",
         dirs' = Append(Visited(e), InDir(e.path)), walk' = walk,
         root' = root, rules' = rules, files' = files, failed' = failed, skipped' = skipped,
         unruled \subseteq unruled',
         keep(rules[root], e.path, TRUE) \/ InRoot(e) \in unruled'
  PROVE  WalkInv'
<1> USE DEF WalkInv
<1>1. Walking /\ Walking'
  BY DEF Visit, Walking
<1>2. /\ Stack' /\ OneWay'
      /\ \A x \in Entries : Coming(x)' <=> Coming(x) /\ x # e
      /\ \A n \in 1 .. Len(dirs') : \A x \in dirs'[n] :
           (n \in 1 .. Len(dirs) /\ x \in dirs[n]) \/ x \in InDir(e.path)
  BY <1>1, EnterStep
<1>3. AheadKept'
  <2>1. \A q : Kept(root, q) => Kept(root, q)'
    BY DEF Kept, Pre
  <2>2. Kept(root, e.path)
    <3>1. PICK l \in Nat, v \in Seq(SUBSET Entries) : l = Len(dirs) /\ l >= 1 /\ e \in dirs[l]
      BY VisitFacts
    <3> QED
      BY <3>1 DEF AheadKept
  <2>3. \/ Kept(root, e.path)' /\ keep(rules'[root], e.path, TRUE)
        \/ [root |-> root, path |-> e.path] \in unruled'
    BY <2>1, <2>2 DEF InRoot
  <2> SUFFICES ASSUME NEW n \in 1 .. Len(dirs'), NEW x \in dirs'[n] PROVE Kept(root, x.path)'
    BY DEF AheadKept
  <2>4. CASE n \in 1 .. Len(dirs) /\ x \in dirs[n]
    BY <2>1, <2>4 DEF AheadKept
  <2>5. CASE x \in InDir(e.path)
    <3>1. x \in Entries /\ e.path \in Seq(STRING) /\ x.path \in Seq(STRING)
      BY <2>5, EntryFacts DEF InDir
    <3>2. CASE [root |-> root, path |-> e.path] \in unruled'
      <4>1. PICK l \in Nat : l = Len(e.path) /\ l >= 1
        BY EntryFacts
      <4>2. Len(x.path) = l + 1 /\ Pre(x.path, l) = e.path
        BY <2>5, <3>1, <4>1, InDirFacts
      <4>3. l \in 1 .. Len(x.path) - 1
        BY <4>1, <4>2
      <4> QED
        BY <3>2, <4>2, <4>3 DEF Kept, Pre
    <3>3. CASE keep(rules[root], e.path, TRUE)
      <4>1. Kept(root, x.path)
        BY <2>2, <2>5, <3>3, KeptBelow
      <4> QED
        BY <2>1, <4>1
    <3> QED
      BY <2>3, <3>2, <3>3
  <2> QED
    BY <1>2, <2>4, <2>5
<1>4. \A x \in Entries : Wanted(root, x) /\ Coming(x) => Coming(x)' \/ Under(root, x, skipped)'
  BY <1>2 DEF Wanted
<1> QED
  BY <1>1, <1>2, <1>3, <1>4, WalkSame

\* A file that is taken was asked for, and is not come to again.
LEMMA WalkFile ==
  ASSUME StateInv, WalkInv, NEW e \in Entries, NEW size \in Sizes, VisitFile(e, size)
  PROVE  WalkInv'
<1> USE DEF WalkInv
<1>1. /\ Visit(e) /\ dirs' = Visited(e) /\ walk = "entry" /\ walk' \in {"select", "dispatch"}
      /\ root' = root /\ rules' = rules /\ failed' = failed /\ skipped' = skipped /\ unruled' = unruled
      /\ e.kind = "file" /\ keep(rules[root], e.path, FALSE)
  BY DEF VisitFile, Visit
<1>2. Walking /\ Walking'
  BY <1>1 DEF Walking
<1>3. /\ Stack' /\ OneWay'
      /\ \A x \in Entries : Coming(x)' <=> Coming(x) /\ ~OnTheWay(e, x)
      /\ \A n \in 1 .. Len(dirs') : n \in 1 .. Len(dirs) /\ \A x \in dirs'[n] : x \in dirs[n]
  BY <1>1, <1>2, DropStep
<1>4. PICK rec \in FileRec : rec = [root |-> root, path |-> e.path, size |-> size]
  <2>1. root \in Nat /\ e.path \in Seq(STRING) /\ size \in Nat
    BY WalkAssumption DEF StateInv, TypeOK
  <2> QED
    BY <2>1 DEF FileRec
<1>5. PICK m \in Nat : m = Len(files)
  BY DEF StateInv, TypeOK
<1>6. Len(files') = m + 1 /\ files'[m + 1] = rec /\ \A f \in 1 .. m : files'[f] = files[f]
  BY <1>4, <1>5, AppendProperties DEF VisitFile, StateInv, TypeOK
<1>7. rec.root = root /\ rec.path = e.path
  BY <1>4
<1>8. /\ \A r : \A x \in Entries : Wanted(r, x)' <=> Wanted(r, x)
      /\ \A r : \A x \in Entries : Settled(r, x) => Settled(r, x)'
      /\ \A r : \A x \in Entries : Under(r, x, unruled) => Under(r, x, unruled)'
      /\ \A r, q : Kept(r, q) => Kept(r, q)'
  BY <1>1, <1>5, <1>6, HistoryGrows
<1>9. PICK l \in Nat : l = Len(dirs) /\ l >= 1 /\ Len(e.path) = l /\ e \in dirs[l]
  BY <1>1, VisitFacts
<1>10. OnTheWay(e, e) /\ Coming(e)
  <2>1. l \in 1 .. Len(e.path) /\ l \in 1 .. Len(dirs)
    BY <1>9
  <2>2. Pre(e.path, l) = e.path
    BY <2>1, <1>9, EntryFacts, PreFacts
  <2> QED
    BY <2>1, <2>2, <1>9 DEF OnTheWay, Coming, Ahead
<1>11. \A f : f \in 1 .. m + 1 <=> f \in 1 .. m \/ f = m + 1
  OBVIOUS
<1>12. \A f \in 1 .. m : ~(files[f].root = root /\ files[f].path = e.path)
  BY <1>5, <1>10 DEF NoneAgain
<1>13. NoneTwice'
  BY <1>6, <1>7, <1>11, <1>12, <1>5 DEF NoneTwice
<1>14. NoneAgain'
  <2> SUFFICES ASSUME NEW f \in 1 .. m + 1
               PROVE  /\ files'[f].root <= root
                      /\ files'[f].root = root =>
                           \A x \in Entries : x.path = files'[f].path => ~Coming(x)'
    BY <1>1, <1>6 DEF NoneAgain
  <2>1. CASE f \in 1 .. m
    BY <2>1, <1>3, <1>5, <1>6 DEF NoneAgain
  <2>2. CASE f = m + 1
    <3>1. root <= root
      BY DEF StateInv, TypeOK
    <3>2. \A x \in Entries : x.path = e.path => x = e
      BY TreeAssumption
    <3> QED
      BY <2>2, <3>1, <3>2, <1>3, <1>6, <1>7, <1>10
  <2> QED
    BY <1>11, <2>1, <2>2
<1>15. AheadKept'
  <2> SUFFICES ASSUME NEW n \in 1 .. Len(dirs'), NEW x \in dirs'[n] PROVE Kept(root, x.path)'
    BY DEF AheadKept
  <2>1. Kept(root, x.path)
    BY <1>3 DEF AheadKept
  <2> QED
    BY <2>1, <1>1, <1>8 DEF Kept, Pre
<1>16. Wanted(root, e) \/ Under(root, e, unruled)
  <2>1. Kept(root, e.path)
    BY <1>9 DEF AheadKept
  <2>2. \A n \in 1 .. Len(e.path) - 1 : n \in 1 .. Len(e.path)
    BY <1>9
  <2> QED
    BY <2>1, <2>2, <1>1 DEF Kept, Wanted, Under, Pre
<1>17. NoneUnasked'
  <2> SUFFICES ASSUME NEW f \in 1 .. m + 1, NEW r, r = files'[f].root
               PROVE  \E x \in Entries : /\ x.path = files'[f].path
                                         /\ Wanted(r, x)' \/ Under(r, x, unruled)'
    BY <1>6 DEF NoneUnasked, Wanted, Under
  <2>1. CASE f \in 1 .. m
    <3>1. PICK x \in Entries : x.path = files[f].path /\ (Wanted(r, x) \/ Under(r, x, unruled))
      BY <2>1, <1>5, <1>6 DEF NoneUnasked
    <3> QED
      BY <2>1, <3>1, <1>6, <1>8
  <2>2. CASE f = m + 1
    <3>1. Wanted(r, e) \/ Under(r, e, unruled)
      BY <2>2, <1>6, <1>7, <1>16
    <3>2. e.path = files'[f].path
      BY <2>2, <1>6, <1>7
    <3> QED
      BY <3>1, <3>2, <1>8
  <2> QED
    BY <1>11, <2>1, <2>2
<1>18. NoneMissing'
  <2>1. \A r : Through(r)' => Through(r)
    BY <1>1 DEF Through
  <2> QED
    BY <2>1, <1>8 DEF NoneMissing
<1>19. ToCome'
  <2> SUFFICES ASSUME NEW x \in Entries, Wanted(root, x) PROVE Settled(root, x)' \/ Coming(x)'
    BY <1>1, <1>8 DEF ToCome
  <2>1. CASE Settled(root, x)
    BY <2>1, <1>1, <1>8
  <2>2. CASE Coming(x) /\ ~OnTheWay(e, x)
    BY <2>2, <1>3
  <2>3. CASE OnTheWay(e, x)
    <3>1. x = e
      BY <2>3, <1>1, WantedWay
    <3>2. m + 1 \in 1 .. Len(files')
      BY <1>6
    <3> QED
      BY <3>1, <3>2, <1>1, <1>6, <1>7 DEF Settled
  <2> QED
    BY <2>1, <2>2, <2>3, <1>2 DEF ToCome
<1> QED
  BY <1>3, <1>13, <1>14, <1>15, <1>17, <1>18, <1>19

\* A root begins with all its entries to come, and ends with none.
LEMMA WalkNextRoot ==
  ASSUME StateInv, WalkInv, NextRoot
  PROVE  WalkInv'
<1> USE DEF WalkInv
<1>1. walk = "root" /\ files' = files /\ rules' = rules /\ failed' = failed /\ skipped' = skipped
      /\ unruled' = unruled
  BY DEF NextRoot, tree, file
<1>2. root \in Nat /\ Len(files) \in Nat
  BY DEF StateInv, TypeOK
<1>3. /\ \A r : \A x \in Entries : Wanted(r, x)' <=> Wanted(r, x)
      /\ \A r : \A x \in Entries : Settled(r, x) => Settled(r, x)'
      /\ \A r : \A x \in Entries : Under(r, x, unruled) => Under(r, x, unruled)'
  BY <1>1, <1>2, HistoryGrows
<1>4. NoneTwice' /\ NoneUnasked'
  BY <1>1, <1>3 DEF NoneTwice, NoneUnasked
<1>5. CASE root = Roots
  <2>1. walk' = "done" /\ root' = root /\ dirs' = dirs
    BY <1>5 DEF NextRoot, tree
  <2>2. Stack' /\ OneWay' /\ AheadKept' /\ NoneAgain'
    <3>1. dirs = <<>> /\ Len(dirs) = 0
      BY <1>1 DEF Stack, Walking
    <3>2. Stack'
      BY <1>1, <2>1 DEF Stack, Walking
    <3>3. OneWay' /\ AheadKept'
      BY <2>1, <3>1 DEF OneWay, AheadKept
    <3>4. \A x : ~Coming(x)'
      BY <2>1, <3>1 DEF Coming
    <3> QED
      BY <1>1, <2>1, <3>2, <3>3, <3>4 DEF NoneAgain
  <2>3. ToCome'
    BY <2>1 DEF ToCome, Walking
  <2>4. NoneMissing'
    <3>1. \A r : Through(r)' => Through(r)
      BY <1>1, <2>1 DEF Through
    <3> QED
      BY <3>1, <1>3 DEF NoneMissing
  <2> QED
    BY <1>4, <2>2, <2>3, <2>4
<1>6. CASE root # Roots
  <2>1. walk' = "entry" /\ root' = root + 1
    BY <1>6 DEF NextRoot
  <2>2. PICK d \in SUBSET Entries : d = InDir(<<>>)
    BY DEF InDir
  <2>3. dirs' = <<d>> /\ Len(dirs') = 1 /\ dirs' \in Seq(SUBSET Entries) /\ dirs' # <<>> /\ dirs'[1] = d
    <3>1. dirs' = <<d>>
      BY <1>6, <2>2 DEF NextRoot
    <3> QED
      BY <3>1
  <2>4. \A n \in 1 .. 1 : n = 1
    OBVIOUS
  <2>5. \A x \in d : Len(x.path) = 1
    BY <2>2, InDirFacts
  <2>6. Stack'
    BY <2>1, <2>3, <2>4, <2>5 DEF Stack, Walking
  <2>7. OneWay'
    BY <2>3, <2>4 DEF OneWay
  <2>8. NoneAgain'
    <3> SUFFICES ASSUME NEW f \in 1 .. Len(files)
                 PROVE  files[f].root <= root + 1 /\ files[f].root # root + 1
      BY <1>1, <2>1 DEF NoneAgain
    <3>1. files[f].root <= root
      BY DEF NoneAgain
    <3>2. files[f] \in FileRec
      BY DEF StateInv, TypeOK
    <3>3. PICK r \in Nat : r = files[f].root
      BY <3>2 DEF FileRec
    <3> QED
      BY <1>2, <3>1, <3>3
  <2>9. AheadKept'
    <3> SUFFICES ASSUME NEW x \in d, NEW r PROVE Kept(r, x.path)'
      BY <2>3, <2>4 DEF AheadKept, Kept, Pre
    <3>1. Len(x.path) = 1
      BY <2>5
    <3>2. \A m \in 1 .. Len(x.path) - 1 : FALSE
      BY <3>1
    <3> QED
      BY <3>2 DEF Kept
  <2>10. ToCome'
    <3> SUFFICES ASSUME NEW x \in Entries PROVE Coming(x)'
      BY DEF ToCome
    <3>1. 1 \in 1 .. Len(x.path) /\ 1 <= Len(x.path)
      BY EntryFacts
    <3>2. PICK y \in Entries : y.path = Pre(x.path, 1) /\ Len(y.path) = 1
      BY <3>1, OnWay
    <3>3. y \in d
      BY <2>2, <3>2, InDirFacts
    <3>4. Ahead(x.path, 1)'
      BY <2>3, <3>1, <3>2, <3>3 DEF Ahead, Pre
    <3> QED
      BY <2>3, <3>4 DEF Coming
  <2>11. NoneMissing'
    <3>1. \A r \in 1 .. Roots : Through(r)' => Through(r)
      <4> SUFFICES ASSUME NEW r \in 1 .. Roots, r < root + 1 \/ (r = root + 1 /\ FALSE)
                   PROVE  r < root \/ r = root
        BY <1>1, <2>1 DEF Through
      <4> QED
        BY <1>2, WalkAssumption
    <3> QED
      BY <3>1, <1>3 DEF NoneMissing
  <2> QED
    BY <1>4, <2>6, <2>7, <2>8, <2>9, <2>10, <2>11
<1> QED
  BY <1>5, <1>6

LEMMA WalkLeaveDir ==
  ASSUME StateInv, WalkInv, LeaveDir
  PROVE  WalkInv'
<1> USE DEF WalkInv
<1>1. /\ walk = "entry" /\ files' = files /\ rules' = rules /\ failed' = failed /\ skipped' = skipped
      /\ unruled' = unruled /\ root' = root /\ dirs[Len(dirs)] = {}
      /\ dirs' = SubSeq(dirs, 1, Len(dirs) - 1)
      /\ walk' = IF Len(dirs) = 1 THEN "root" ELSE "entry"
  BY DEF LeaveDir, file
<1>2. PICK l \in Nat : l = Len(dirs) /\ l >= 1
  BY <1>1 DEF Stack, Walking
<1>3. /\ dirs' \in Seq(SUBSET Entries) /\ Len(dirs') = l - 1 /\ \A n \in 1 .. l - 1 : dirs'[n] = dirs[n]
  <2>1. dirs \in Seq(SUBSET Entries)
    BY DEF Stack
  <2>2. PICK s \in Seq(SUBSET Entries) : s = dirs /\ Len(s) = l
    BY <1>2, <2>1
  <2>3. dirs' = [i \in 1 .. l - 1 |-> s[i]]
    BY <1>1, <1>2, <2>2
  <2>4. l - 1 \in Nat /\ \A i \in 1 .. l - 1 : s[i] \in SUBSET Entries
    BY <1>2, <2>2
  <2> QED
    BY <2>2, <2>3, <2>4
<1>4. \A n \in 1 .. l : n \in 1 .. l - 1 \/ n = l
  OBVIOUS
<1>5. \A n \in 1 .. l - 1 : n \in 1 .. l
  OBVIOUS
<1>6. Stack'
  <2>1. l = 1 <=> dirs' = <<>>
    BY <1>2, <1>3
  <2>2. Walking' <=> l # 1
    BY <1>1, <1>2 DEF Walking
  <2>3. \A n \in 1 .. l - 1 : \A x \in dirs'[n] : Len(x.path) = n
    BY <1>2, <1>3, <1>5 DEF Stack
  <2> QED
    BY <1>3, <2>1, <2>2, <2>3 DEF Stack
<1>7. ASSUME NEW x \in Entries
      PROVE  /\ \A n \in 1 .. l - 1 : Ahead(x.path, n)' <=> Ahead(x.path, n)
             /\ ~Ahead(x.path, l)
  <2>1. ~Ahead(x.path, l)
    BY <1>1, <1>2 DEF Ahead
  <2>2. \A n \in 1 .. l - 1 : Ahead(x.path, n)' <=> Ahead(x.path, n)
    BY <1>2, <1>3, <1>5 DEF Ahead, Pre
  <2> QED
    BY <2>1, <2>2
<1>8. OneWay'
  BY <1>2, <1>3, <1>5, <1>7 DEF OneWay
<1>9. \A x \in Entries : Coming(x)' <=> Coming(x)
  <2> TAKE x \in Entries
  <2>1. Coming(x) <=> \E n \in 1 .. l : Ahead(x.path, n)
    BY <1>2 DEF Coming
  <2>2. Coming(x)' <=> \E n \in 1 .. l - 1 : Ahead(x.path, n)'
    BY <1>3 DEF Coming
  <2> QED
    BY <2>1, <2>2, <1>4, <1>5, <1>7
<1>10. AheadKept'
  <2> SUFFICES ASSUME NEW n \in 1 .. l - 1, NEW x \in dirs[n] PROVE Kept(root, x.path)'
    BY <1>1, <1>3 DEF AheadKept
  <2>1. Kept(root, x.path)
    BY <1>2, <1>5 DEF AheadKept
  <2> QED
    BY <2>1, <1>1 DEF Kept, Pre
<1>11. CASE l # 1
  <2>1. Walking /\ Walking'
    BY <1>1, <1>2, <1>11 DEF Walking
  <2> QED
    BY <2>1, <1>1, <1>6, <1>8, <1>9, <1>10, WalkSame
<1>12. CASE l = 1
  <2>1. walk' = "root"
    BY <1>1, <1>2, <1>12
  <2>2. Len(files) \in Nat /\ root \in Nat
    BY DEF StateInv, TypeOK
  <2>3. /\ \A r : \A x \in Entries : Wanted(r, x)' <=> Wanted(r, x)
        /\ \A r : \A x \in Entries : Settled(r, x) => Settled(r, x)'
        /\ \A r : \A x \in Entries : Under(r, x, unruled) => Under(r, x, unruled)'
    BY <1>1, <2>2, HistoryGrows
  <2>4. NoneTwice' /\ NoneUnasked' /\ NoneAgain'
    BY <1>1, <1>9, <2>3 DEF NoneTwice, NoneUnasked, NoneAgain
  <2>5. ToCome'
    BY <2>1 DEF ToCome, Walking
  <2>6. \A x \in Entries : ~Coming(x)
    <3>1. \A n \in 1 .. l - 1 : FALSE
      BY <1>12
    <3> QED
      BY <1>3, <1>9, <3>1 DEF Coming
  <2>7. \A x \in Entries : Wanted(root, x) => Settled(root, x)
    BY <1>1, <2>6 DEF ToCome, Walking
  <2>8. NoneMissing'
    <3> SUFFICES ASSUME NEW r \in 1 .. Roots, NEW x \in Entries, Through(r)', Wanted(r, x)
                 PROVE  Settled(r, x)
      BY <2>3 DEF NoneMissing
    <3>1. r < root \/ r = root
      BY <1>1 DEF Through
    <3>2. CASE r = root
      BY <3>2, <2>7
    <3>3. CASE r < root
      <4>1. Through(r)
        BY <1>1, <3>3 DEF Through
      <4> QED
        BY <4>1 DEF NoneMissing
    <3> QED
      BY <3>1, <3>2, <3>3
  <2> QED
    BY <1>6, <1>8, <1>10, <2>4, <2>5, <2>8
<1> QED
  BY <1>11, <1>12

LEMMA WalkRootFailed ==
  ASSUME StateInv, WalkInv, RootFailed
  PROVE  WalkInv'
<1> USE DEF WalkInv
<1>1. /\ files' = files /\ rules' = rules /\ skipped' = skipped /\ unruled' = unruled /\ root' = root
      /\ dirs' = <<>> /\ walk' = "root" /\ failed' = failed \cup {root}
  BY DEF RootFailed, file
<1>2. Len(files) \in Nat /\ Len(dirs') = 0 /\ dirs' \in Seq(SUBSET Entries)
  BY <1>1 DEF StateInv, TypeOK
<1>3. /\ \A r : \A x \in Entries : Wanted(r, x)' <=> Wanted(r, x)
      /\ \A r : \A x \in Entries : Settled(r, x) => Settled(r, x)'
      /\ \A r : \A x \in Entries : Under(r, x, unruled) => Under(r, x, unruled)'
  BY <1>1, <1>2, HistoryGrows
<1>4. Stack' /\ OneWay' /\ AheadKept'
  BY <1>1, <1>2 DEF Stack, Walking, OneWay, AheadKept
<1>5. \A x : ~Coming(x)'
  BY <1>2 DEF Coming
<1>6. NoneTwice' /\ NoneUnasked' /\ NoneAgain'
  BY <1>1, <1>3, <1>5 DEF NoneTwice, NoneUnasked, NoneAgain
<1>7. ToCome'
  BY <1>1 DEF ToCome, Walking
<1>8. \A r : Through(r)' => Through(r)
  BY <1>1 DEF Through
<1>9. NoneMissing'
  BY <1>3, <1>8 DEF NoneMissing
<1> QED
  BY <1>4, <1>6, <1>7, <1>9

LEMMA WalkInit == Init => WalkInv
<1> SUFFICES ASSUME Init PROVE WalkInv
  OBVIOUS
<1>1. dirs = <<>> /\ files = <<>> /\ walk = "root" /\ root = 0
  BY DEF Init
<1>2. Stack /\ OneWay /\ AheadKept
  BY <1>1 DEF Stack, Walking, OneWay, AheadKept
<1>3. NoneAgain /\ NoneTwice /\ NoneUnasked
  BY <1>1 DEF NoneAgain, NoneTwice, NoneUnasked
<1>4. ToCome
  BY <1>1 DEF ToCome, Walking
<1>5. NoneMissing
  <2>1. \A r \in 1 .. Roots : ~Through(r)
    BY <1>1, WalkAssumption DEF Through
  <2> QED
    BY <2>1 DEF NoneMissing
<1> QED
  BY <1>2, <1>3, <1>4, <1>5 DEF WalkInv

LEMMA WalkIdle ==
  ASSUME StateInv, WalkInv, UNCHANGED tree, files' = files,
         walk' = walk \/ (Walking /\ Walking')
  PROVE  WalkInv'
<1> USE DEF WalkInv
<1>1. /\ rules' = rules /\ root' = root /\ dirs' = dirs /\ skipped' = skipped /\ unruled' = unruled
      /\ failed' = failed
  BY DEF tree
<1>2. \A r : Through(r)' => Through(r)
  BY <1>1 DEF Through, Walking
<1>3. Walking' <=> Walking
  BY DEF Walking
<1>4. Stack' /\ OneWay' /\ AheadKept' /\ NoneAgain' /\ NoneTwice' /\ NoneUnasked'
  <2>1. Stack'
    BY <1>1, <1>3 DEF Stack
  <2>2. OneWay'
    BY <1>1 DEF OneWay, Ahead, Pre
  <2>3. AheadKept'
    BY <1>1 DEF AheadKept, Kept, Pre
  <2>4. NoneAgain' /\ NoneTwice'
    BY <1>1 DEF NoneAgain, NoneTwice, Coming, Ahead, Pre
  <2>5. NoneUnasked'
    BY <1>1 DEF NoneUnasked, Wanted, Under
  <2> QED
    BY <2>1, <2>2, <2>3, <2>4, <2>5
<1>5. ToCome'
  BY <1>1, <1>3 DEF ToCome, Settled, Coming, Ahead, Pre, Wanted, Under
<1>6. NoneMissing'
  <2> SUFFICES ASSUME NEW r \in 1 .. Roots, NEW e \in Entries, Through(r)', Wanted(r, e)'
               PROVE  Settled(r, e)'
    BY DEF NoneMissing
  <2>1. Through(r) /\ Wanted(r, e)
    BY <1>1, <1>2 DEF Wanted
  <2>2. Settled(r, e)
    BY <2>1 DEF NoneMissing
  <2> QED
    BY <1>1, <2>2 DEF Settled, Under
<1> QED
  BY <1>4, <1>5, <1>6

LEMMA WalkStepKeeps == StateInv /\ WalkInv /\ [Next]_vars => WalkInv'
<1> SUFFICES ASSUME StateInv, WalkInv, [Next]_vars PROVE WalkInv'
  OBVIOUS
<1>1. CASE NextRoot
  BY <1>1, WalkNextRoot
<1>2. CASE RootFailed
  BY <1>2, WalkRootFailed
<1>3. CASE LeaveDir
  BY <1>3, WalkLeaveDir
<1>4. ASSUME NEW e \in Entries, VisitDir(e) PROVE WalkInv'
  <2>1. /\ Visit(e) /\ e.kind = "dir" /\ walk' = walk /\ root' = root /\ rules' = rules
        /\ files' = files /\ failed' = failed /\ unruled' = unruled
    BY <1>4 DEF VisitDir, file
  <2>2. CASE keep(rules[root], e.path, TRUE) /\ Enter(e)
    BY <2>1, <2>2, WalkEnter DEF Enter
  <2>3. CASE keep(rules[root], e.path, TRUE) /\ Leave(e)
    BY <2>1, <2>3, WalkDrop DEF Leave
  <2>4. CASE ~keep(rules[root], e.path, TRUE)
    BY <1>4, <2>1, <2>4, WalkDrop DEF VisitDir
  <2> QED
    BY <1>4, <2>2, <2>3, <2>4 DEF VisitDir
<1>5. ASSUME NEW e \in Entries, StatFails(e) PROVE WalkInv'
  <2>1. Visit(e) /\ walk' = walk /\ root' = root /\ rules' = rules /\ files' = files /\ failed' = failed
    BY <1>5 DEF StatFails, file
  <2>2. CASE Leave(e) /\ UNCHANGED unruled
    BY <2>1, <2>2, WalkDrop DEF Leave
  <2>3. CASE e.kind = "dir" /\ Enter(e) /\ unruled' = unruled \cup {InRoot(e)}
    BY <2>1, <2>3, WalkEnter DEF Enter
  <2> QED
    BY <1>5, <2>2, <2>3 DEF StatFails
<1>6. ASSUME NEW e \in Entries, PassOver(e) PROVE WalkInv'
  <2>1. /\ Visit(e) /\ walk' = walk /\ root' = root /\ rules' = rules /\ files' = files
        /\ failed' = failed /\ unruled' = unruled /\ skipped' = skipped /\ dirs' = Visited(e)
        /\ e.kind = "other" \/ (e.kind = "file" /\ ~keep(rules[root], e.path, FALSE))
    BY <1>6 DEF PassOver, file
  <2> QED
    BY <2>1, WalkDrop
<1>7. ASSUME NEW e \in Entries, NEW size \in Sizes, VisitFile(e, size) PROVE WalkInv'
  BY <1>7, WalkFile
<1>8. ASSUME \/ UNCHANGED vars \/ ScanWorker \/ Selected \/ AwaitInit \/ SkipWorker \/ Enqueue
             \/ \E i \in Worker : WorkerInit(i) \/ WorkerProcess(i) \/ WorkerFail(i)
      PROVE  WalkInv'
  <2>1. UNCHANGED tree /\ files' = files
    BY <1>8 DEF vars, ScanWorker, Selected, AwaitInit, SkipWorker, TryNext, Enqueue, WorkerInit,
                WorkerProcess, WorkerFail, file
  <2>2. walk' = walk \/ (Walking /\ Walking')
    BY <1>8 DEF vars, ScanWorker, Selected, AwaitInit, SkipWorker, TryNext, Enqueue, UnitQueued,
                WorkerInit, WorkerProcess, WorkerFail, Walking
  <2> QED
    BY <2>1, <2>2, WalkIdle
<1> QED
  BY <1>1, <1>2, <1>3, <1>4, <1>5, <1>6, <1>7, <1>8 DEF Next, WalkStep, WorkerStep

LEMMA WalkAlways == Spec => []WalkInv
  BY WalkInit, WalkStepKeeps, StateAlways, PTL DEF Spec

\* run and the recursive iterator: over any tree and any rules the walk takes no
\* file twice, none that the rules drop, and misses none that they ask for (those
\* that only keep()'s default lets past an --include are left open).
THEOREM SchedulerWalkFollowsRules == Spec => []WalkFollowsRules
<1>1. StateInv /\ WalkInv => WalkFollowsRules
  <2> SUFFICES ASSUME StateInv, WalkInv PROVE WalkFollowsRules
    OBVIOUS
  <2>1. \A f : f \in DOMAIN files <=> f \in 1 .. Len(files)
    BY DEF StateInv, TypeOK
  <2>2. \A f, g \in DOMAIN files :
          files[f].root = files[g].root /\ files[f].path = files[g].path => f = g
    BY <2>1 DEF WalkInv, NoneTwice
  <2>3. \A f \in DOMAIN files : \E e \in Entries :
          e.path = files[f].path /\ (Wanted(files[f].root, e) \/ Under(files[f].root, e, unruled))
    BY <2>1 DEF WalkInv, NoneUnasked
  <2>4. ASSUME NEW r \in 1 .. Roots, NEW e \in Entries, Through(r), Wanted(r, e)
        PROVE  \/ Under(r, e, skipped)
               \/ \E f \in DOMAIN files : files[f].root = r /\ files[f].path = e.path
    <3>1. Settled(r, e)
      BY <2>4 DEF WalkInv, NoneMissing
    <3> QED
      BY <3>1, <2>1 DEF Settled
  <2> QED
    BY <2>2, <2>3, <2>4 DEF WalkFollowsRules, Through
<1> QED
  BY <1>1, StateAlways, WalkAlways, PTL
=============================================================================
