----------------------------- MODULE Scheduler -----------------------------
(***************************************************************************)
(* client/scheduler.h: the walk thread goes through the roots one by one,  *)
(* turns the files the filter rules keep into units and hands each unit to *)
(* one of N worker threads.  A file below the threshold is one unit, given *)
(* to the worker selectWorker() picks; a big file is cut into chunk units  *)
(* that go round the workers.  dispatch() tries the workers in turn from a *)
(* start index and skips those that failed.  A root that fails does not    *)
(* keep the next one from being walked with the same workers.              *)
(*                                                                         *)
(* The directories are read by std::filesystem's recursive iterator: it    *)
(* gives the entries of a directory in any order, enters one right after   *)
(* it has been visited unless its recursion is disabled, leaves out the    *)
(* ones it may not read, and ends with any other error.                    *)
(*                                                                         *)
(* The worker thread with its queue is muypoco::Chan, which is not part of *)
(* the repository: enqueue() waits for a place while the worker runs and   *)
(* is false once it has stopped, awaitInit() waits for the outcome of      *)
(* Worker::init(), a failed process() stops the worker.                    *)
(*                                                                         *)
(* Every worker's `warm' key keeps its initial value NONE (worker.h:81 is  *)
(* its only store), so affinity::distance() is the same for all workers of *)
(* one selection and selectWorker() takes the first one that is not busy.  *)
(***************************************************************************)
EXTENDS FilterRules

CONSTANTS N,          \* cfg.workers
          QueueCap,   \* places of a worker's queue (128)
          Busy,       \* busyThreshold (32)
          SizeMod,    \* values of size_t (2^64)
          Threshold,  \* cfg.bigFileThreshold
          ChunkSize,  \* cfg.chunkSize
          Entries,    \* paths below a root, as [path, kind]
          RuleLists,  \* what addRoot() may have been given: the rules of each root
          Roots,      \* bound: roots
          Sizes       \* bound: sizes of a file

ASSUME CountsAssumption ==
  N \in Nat \ {0} /\ QueueCap \in Nat \ {0} /\ Busy \in 1 .. QueueCap
ASSUME SizeModAssumption == SizeMod \in Nat /\ N < SizeMod
\* A threshold of 0 would send an empty file nowhere, a chunk size of 0 would
\* never get past offset 0: the code checks neither.
ASSUME CutAssumption == Threshold \in Nat \ {0} /\ ChunkSize \in Nat \ {0}
ASSUME WalkAssumption ==
  /\ Roots \in Nat /\ Sizes \subseteq Nat
  /\ \A e \in Entries : /\ e.path \in Seq(STRING) /\ e.path # <<>>
                        /\ e.kind \in {"dir", "file", "other"}
\* A path names one entry, and every entry is in a directory.
ASSUME TreeAssumption ==
  /\ \A d, e \in Entries : d.path = e.path => d = e
  /\ \A e \in Entries : \A n \in 1 .. Len(e.path) - 1 :
       \E d \in Entries : d.path = SubSeq(e.path, 1, n) /\ d.kind = "dir"

VARIABLES st,                           \* workersStates
          up, queue,                    \* Chan: "init", "up" or "stopped"; its units
          walk,                         \* pc of the walk thread
          rules,                        \* Root::rules, of every root
          root, ok,                     \* start()'s loop over the roots, and its ok
          dirs,                         \* iterator: entries not visited yet, innermost directory last
          skipped, unruled, failed,     \* history: entries left out after an error or for want
                                        \* of permission, directories entered without asking
                                        \* the rules, roots given up
          files, offset, chunk,         \* files enqueued; enqueue()'s offset and n
          scan, chosen, minIdx, minCap, \* selectWorker()'s loop
          start, k,                     \* dispatch()'s loop
          taken                         \* units processed, or gone with their worker

chans == <<up, queue, taken>>
tree  == <<rules, root, ok, dirs, skipped, unruled, failed>>
file  == <<files, offset, chunk>>
sel   == <<scan, chosen, minIdx, minCap>>
disp  == <<start, k>>
vars  == <<st, chans, walk, tree, file, sel, disp>>

Worker == 0 .. N - 1
NoIdx  == SizeMod - 1   \* static_cast<size_t>(-1)
Size   == files[Len(files)].size
Big    == Size >= Threshold

\* addRoot
Init == /\ st = [i \in Worker |-> "PENDING"]
        /\ up = [i \in Worker |-> "init"]
        /\ queue = [i \in Worker |-> <<>>]
        /\ \E l \in RuleLists :
             rules = [r \in 1 .. Roots |-> [i \in DOMAIN l[r] |-> compileRule(l[r][i])]]
        /\ walk = "root" /\ root = 0 /\ ok = TRUE
        /\ dirs = <<>> /\ skipped = {} /\ unruled = {} /\ failed = {}
        /\ files = <<>> /\ offset = 0 /\ chunk = 0
        /\ scan = 0 /\ chosen = NoIdx /\ minIdx = NoIdx /\ minCap = QueueCap
        /\ start = 0 /\ k = 0
        /\ taken = {}

-----------------------------------------------------------------------------
(* start and run: the roots, and the entries the iterator gives *)

InDir(d) == {e \in Entries : Len(e.path) = Len(d) + 1 /\ SubSeq(e.path, 1, Len(d)) = d}

\* The next root, or the end of start().
NextRoot == /\ walk = "root"
            /\ IF root = Roots
               THEN walk' = "done" /\ UNCHANGED tree
               ELSE /\ walk' = "entry"
                    /\ root' = root + 1
                    /\ dirs' = <<InDir(<<>>)>>
                    /\ UNCHANGED <<rules, ok, skipped, unruled, failed>>
            /\ UNCHANGED <<st, chans, file, sel, disp>>

\* run() returns false: the root cannot be opened, the iterator ends with an
\* error, or enqueue() found no healthy worker.
RootFailed == /\ walk \in {"entry", "aborted"}
              /\ walk' = "root"
              /\ ok' = FALSE
              /\ failed' = failed \cup {root}
              /\ dirs' = <<>>
              /\ UNCHANGED <<st, chans, rules, root, skipped, unruled, file, sel, disp>>

\* The iterator leaves a directory whose entries have all been visited.
LeaveDir == /\ walk = "entry" /\ dirs[Len(dirs)] = {}
            /\ dirs' = SubSeq(dirs, 1, Len(dirs) - 1)
            /\ walk' = IF Len(dirs) = 1 THEN "root" ELSE "entry"
            /\ UNCHANGED <<st, chans, rules, root, ok, skipped, unruled, failed, file, sel, disp>>

Visit(e) == walk = "entry" /\ e \in dirs[Len(dirs)]
Visited(e) == [dirs EXCEPT ![Len(dirs)] = @ \ {e}]
InRoot(e) == [root |-> root, path |-> e.path]
Enter(e) == dirs' = Append(Visited(e), InDir(e.path)) /\ UNCHANGED skipped
Leave(e) == dirs' = Visited(e) /\ skipped' = skipped \cup {InRoot(e)}

\* Faulty: the directory is left out of the upload and walked all the same.
VisitDirWalksOn(e) ==
  /\ Visit(e) /\ e.kind = "dir"
  /\ Enter(e) \/ Leave(e)
  /\ UNCHANGED <<st, chans, walk, rules, root, ok, unruled, failed, file, sel, disp>>
\* A directory: disable_recursion_pending() unless the rules keep it.
VisitDir(e) ==
  /\ Visit(e) /\ e.kind = "dir"
  /\ IF keep(rules[root], e.path, TRUE)
     THEN Enter(e) \/ Leave(e)
     ELSE dirs' = Visited(e) /\ UNCHANGED skipped
  /\ UNCHANGED <<st, chans, walk, rules, root, ok, unruled, failed, file, sel, disp>>

\* The entry cannot be examined: it is skipped, but nothing keeps the iterator
\* from entering it when it is a directory.
StatFails(e) ==
  /\ Visit(e)
  /\ \/ Leave(e) /\ UNCHANGED unruled
     \/ e.kind = "dir" /\ Enter(e) /\ unruled' = unruled \cup {InRoot(e)}
  /\ UNCHANGED <<st, chans, walk, rules, root, ok, failed, file, sel, disp>>

\* Neither a directory nor a regular file, or a file the rules do not keep.
PassOver(e) ==
  /\ Visit(e)
  /\ e.kind = "other" \/ (e.kind = "file" /\ ~keep(rules[root], e.path, FALSE))
  /\ dirs' = Visited(e)
  /\ UNCHANGED <<st, chans, walk, rules, root, ok, skipped, unruled, failed, file, sel, disp>>

\* A file to upload; enqueue() up to its first unit.
VisitFile(e, size) ==
  /\ Visit(e) /\ e.kind = "file" /\ keep(rules[root], e.path, FALSE)
  /\ dirs' = Visited(e)
  /\ files' = Append(files, [root |-> root, path |-> e.path, size |-> size])
  /\ offset' = 0 /\ chunk' = 0
  /\ IF size >= Threshold
     THEN walk' = "dispatch" /\ start' = 0 /\ k' = 0 /\ UNCHANGED sel
     ELSE /\ walk' = "select"
          /\ scan' = 0 /\ chosen' = NoIdx /\ minIdx' = NoIdx /\ minCap' = QueueCap
          /\ UNCHANGED disp
  /\ UNCHANGED <<st, chans, rules, root, ok, skipped, unruled, failed>>

\* Faulty: the last chunk is as long as the others.
UnitOverlong == [file |-> Len(files), off |-> offset,
                 len |-> IF Big THEN ChunkSize ELSE Size]
Unit == [file |-> Len(files), off |-> offset,
         len |-> IF ~Big THEN Size
                 ELSE IF ChunkSize < Size - offset THEN ChunkSize ELSE Size - offset]

-----------------------------------------------------------------------------
(* selectWorker *)

Occupancy(i) == Len(queue[i])

\* One worker of the loop: the occupancies are read one after the other while
\* the workers run.
ScanWorker ==
  /\ walk = "select" /\ scan < N
  /\ scan' = scan + 1
  /\ IF up[scan] = "stopped"
     THEN UNCHANGED <<chosen, minIdx, minCap>>
     ELSE /\ IF Occupancy(scan) < minCap
             THEN minIdx' = scan /\ minCap' = Occupancy(scan)
             ELSE UNCHANGED <<minIdx, minCap>>
          /\ chosen' = IF chosen = NoIdx /\ Occupancy(scan) < Busy THEN scan ELSE chosen
  /\ UNCHANGED <<st, chans, walk, tree, file, disp>>

Selected == /\ walk = "select" /\ scan = N
            /\ walk' = "dispatch"
            /\ start' = IF chosen # NoIdx THEN chosen ELSE minIdx
            /\ k' = 0
            /\ UNCHANGED <<st, chans, tree, file, sel>>

-----------------------------------------------------------------------------
(* dispatch *)

\* (startIdx + k) % workers.size(), the sum in size_t.
Idx == ((start + k) % SizeMod) % N

\* Faulty: gives the root up after the first worker that cannot take the unit.
TryNextGivesUp == /\ walk' = "aborted"
                  /\ UNCHANGED <<chans, tree, file, sel, disp>>
\* Faulty: the same worker is tried again.
TryNextStuck == /\ walk' = "dispatch"
                /\ UNCHANGED <<chans, tree, file, sel, disp>>
\* The next worker; after the last one the root ends with "No healthy workers".
TryNext == /\ k' = k + 1
           /\ walk' = IF k + 1 = N THEN "aborted" ELSE "dispatch"
           /\ UNCHANGED <<chans, tree, file, sel, start>>

AwaitInit ==
  /\ walk = "dispatch" /\ st[Idx] = "PENDING" /\ up[Idx] # "init"
  /\ IF up[Idx] = "stopped"
     THEN st' = [st EXCEPT ![Idx] = "FAILED"] /\ TryNext
     ELSE st' = [st EXCEPT ![Idx] = "READY"] /\ UNCHANGED <<chans, walk, tree, file, sel, disp>>

\* The worker is known to have failed, has stopped, or stops while enqueue()
\* waits for a place.
SkipWorker == /\ walk = "dispatch" /\ st[Idx] # "PENDING"
              /\ st[Idx] = "FAILED" \/ up[Idx] = "stopped"
              /\ TryNext
              /\ UNCHANGED st

\* The unit has been queued: on to the file's next chunk, or to the next file.
UnitQueued == /\ offset' = offset + ChunkSize
              /\ chunk' = chunk + 1
              /\ walk' = IF Big /\ offset + ChunkSize < Size THEN "dispatch" ELSE "entry"
              /\ start' = (chunk + 1) % N /\ k' = 0

Enqueue == /\ walk = "dispatch" /\ st[Idx] = "READY" /\ up[Idx] = "up"
           /\ Occupancy(Idx) < QueueCap
           /\ queue' = [queue EXCEPT ![Idx] = Append(@, Unit)]
           /\ UnitQueued
           /\ UNCHANGED <<st, up, taken, tree, files, sel>>

-----------------------------------------------------------------------------
(* The workers: muypoco::Chan around Worker::init and Worker::process *)

WorkerInit(i) == /\ up[i] = "init"
                 /\ \E s \in {"up", "stopped"} : up' = [up EXCEPT ![i] = s]
                 /\ UNCHANGED <<st, queue, taken, walk, tree, file, sel, disp>>

WorkerProcess(i) ==
  /\ up[i] = "up" /\ queue[i] # <<>>
  /\ taken' = taken \cup {Head(queue[i])}
  /\ queue' = [queue EXCEPT ![i] = Tail(@)]
  /\ UNCHANGED <<st, up, walk, tree, file, sel, disp>>

\* process() fails: the worker stops and its units go with it.
WorkerFail(i) ==
  /\ up[i] = "up" /\ queue[i] # <<>>
  /\ up' = [up EXCEPT ![i] = "stopped"]
  /\ taken' = taken \cup {queue[i][j] : j \in DOMAIN queue[i]}
  /\ queue' = [queue EXCEPT ![i] = <<>>]
  /\ UNCHANGED <<st, walk, tree, file, sel, disp>>

WalkStep == \/ NextRoot \/ RootFailed \/ LeaveDir
            \/ \E e \in Entries : \/ VisitDir(e) \/ StatFails(e) \/ PassOver(e)
                                  \/ \E size \in Sizes : VisitFile(e, size)
            \/ ScanWorker \/ Selected \/ AwaitInit \/ SkipWorker \/ Enqueue
WorkerStep(i) == WorkerInit(i) \/ WorkerProcess(i)

Next == WalkStep \/ \E i \in Worker : WorkerStep(i) \/ WorkerFail(i)

Spec == Init /\ [][Next]_vars

\* The walk and the workers keep running; nothing obliges a worker to fail.
FairSpec == Spec /\ WF_vars(WalkStep) /\ \A i \in Worker : WF_vars(WorkerStep(i))

-----------------------------------------------------------------------------
(* Properties *)

\* The units of one file that a worker has, has processed or has lost.
Queued(i) == {queue[i][j] : j \in DOMAIN queue[i]}
UnitsOf(f) == {u \in (UNION {Queued(i) : i \in Worker}) \cup taken : u.file = f}
Bytes(u) == u.off .. u.off + u.len - 1

\* scheduler.h:300-328 - the units made of a file tile it: no byte is left out,
\* none is in two units or in two places of the queues, and every file has a
\* unit, an empty one included, unless its root was given up in the middle of it.
Given(f) == f < Len(files) \/ walk \in {"root", "entry", "done"}
OnePlace ==
  /\ \A i, j \in Worker : \A x \in DOMAIN queue[i], y \in DOMAIN queue[j] :
       queue[i][x] = queue[j][y] => i = j /\ x = y
  /\ \A i \in Worker : Queued(i) \cap taken = {}
FilesTiled ==
  /\ OnePlace
  /\ \A f \in DOMAIN files :
       LET us == UnitsOf(f) IN
       /\ \A u, v \in us : u # v => Bytes(u) \cap Bytes(v) = {}
       /\ Given(f) /\ files[f].root \notin failed
            => us # {} /\ UNION {Bytes(u) : u \in us} = 0 .. files[f].size - 1

\* scheduler.h:312,324 "No healthy workers" - the walk is given up with this
\* message only when every worker has stopped.
NoHealthyWorkers == walk = "aborted" => \A i \in Worker : up[i] = "stopped"

\* The files a root's rules let through: every directory above the file is kept,
\* and so is the file.
Wanted(r, e) == /\ e.kind = "file" /\ keep(rules[r], e.path, FALSE)
                /\ \A n \in 1 .. Len(e.path) - 1 : keep(rules[r], SubSeq(e.path, 1, n), TRUE)
Under(r, e, set) == \E n \in 1 .. Len(e.path) : [root |-> r, path |-> SubSeq(e.path, 1, n)] \in set

\* The files of a list with an --include that no rule matches: keep() keeps them,
\* while cli.cxx:17 says of --include "only upload files matching this glob".
LeftOpen(r, e) == /\ \E i \in DOMAIN rules[r] : rules[r][i].include
                  /\ \A i \in DOMAIN rules[r] : rules[r][i].dirOnly \/ ~Matches(rules[r][i], e.path)

\* scheduler.h:111-123,331-382 - the walk uploads what the rules ask for: it
\* takes no file twice, none that a rule drops and none below a directory that
\* the rules drop (unless that one could not be examined), and a root it got
\* through has given all its files but those it skipped with a message or for
\* want of permission.  Whether the files of LeftOpen belong to them, on which
\* code and help text differ, is not said here: they may be taken or not.
WalkFollowsRules ==
  /\ \A f, g \in DOMAIN files :
       files[f].root = files[g].root /\ files[f].path = files[g].path => f = g
  /\ \A f \in DOMAIN files : \E e \in Entries :
       e.path = files[f].path /\ (Wanted(files[f].root, e) \/ Under(files[f].root, e, unruled))
  /\ \A r \in 1 .. Roots, e \in Entries :
       (r < root \/ (r = root /\ walk \in {"root", "done"})) /\ r \notin failed
       /\ Wanted(r, e) /\ ~LeftOpen(r, e)
         => Under(r, e, skipped)
            \/ \E f \in DOMAIN files : files[f].root = r /\ files[f].path = e.path

\* scheduler.h:233-260,277-284 - the walk ends, whatever fails: no unit is
\* dispatched round and round, and no root is walked again.
WalkEnds == <>(walk = "done")
=============================================================================
