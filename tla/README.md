# dicker: TLA+ models, checks and proofs

dicker uploads directory trees. A client walks the trees, cuts the files into
units and sends them over several connections; a server receives the units into
a directory per session, logs the sessions and serves them over HTTP on the same
port. The repository's own description is in `src/README.md` and `src/arch.md`.

This directory holds TLA+ modules translated from the C++ sources, TLC
configurations that check them on small instances, and TLAPS proofs of most of
their safety properties for every value of the constants. `PROJECT.json` has the
machine-readable part: the runs, the source lines of every definition, a mutant for every property,
the hazards, the findings and the theorems.

    tlc -workers 2 -config MCUpload.cfg MCUpload     # one run
    tlapm SpscRingProofs.tla                         # one module of proofs

## 1. Inventory

### Client (`src/client`)

| Component | State | Operations | Correct when |
|---|---|---|---|
| Ring buffer, `ring.h` | slots, `head`, `tail`, two futex gates, `closed` | `push`, `pop`, `close` | no slot is written while it is read, values come out in order, no wake-up is lost, `close()` releases everybody |
| Storage reader, `storageReader.h`, `storage.h` | rings of free and of filled buffers, disk semaphore | `submit`, `process`, `next`, `recycle` | a buffer is in one place, permits are conserved, a unit's blocks arrive in order, every read ends |
| Scheduler, `scheduler.h` | roots and their filter rules, worker states, queues, the walk's position | `addRoot`, `start`, `run`, `keep`, `enqueue`, `selectWorker`, `dispatch` | the walk takes what the rules ask for, units tile their files, none is in two places, the walk ends and a root is given up only if nobody is left |
| Worker, `worker.h`, `task.h`, `shared/protocol.h` | protocol version, mode, batch of probes, next key | `init`, `shake`, `process`, `probe`, `resolve`, `send`, `upload`, `finish` | agrees with the server about the mode, every verdict and every unit |
| Network thread, `net.h`, `net_io.h`, `tls.h` | send queue, socket | `tcpDial`, `socks5Connect`, `handshake`, `enqueue`, `await`, `recvExact` | frames arrive in order or the worker is told |
| Configuration, logging, events, affinity, compressors, listener | none that matters to the upload | | |

Threads: one walk thread (the caller), and per connection a worker thread, a
reader thread and a network thread. Walk to worker and worker to reader are
queues (`muypoco::Chan`, not in the repository); reader and worker exchange
buffer indices through two rings; all readers share one semaphore.

### Server (`src/server`)

| Component | State | Operations | Correct when |
|---|---|---|---|
| Byte channel, `byte_channel.cxx` and the back-pressure of `connection.cxx` | buffered blocks, `closed_`, `paused_`, the resume wakeup | `push`, `read_exact`, `close`, pause, resume | memory is bounded, nobody waits on a socket that is not read |
| Connection, `connection.cxx`, `tls_layer.cxx` | life-cycle state, four libuv handles, writes in flight, consumer thread, outbox | accept, read, write, async and close callbacks | it is always released, and nothing outlives it |
| Upload handling, `connection.cxx`, `handshake.cxx` | mode, keys accepted, unit being received | `handle_handshake_data`, `handle_upload`, `handle_probe` | rejected units are not written, `ok` means complete |
| File sink, `file_sink.cxx` | files, registry of shared descriptors | `resolve_safe_path`, `open_sequential`, `open_offset`, `write`, `close_all` | chunks land in their places in any order, one descriptor per big file, no name leaves the session's directory |
| Archive, `archive.cxx` | sizes listed, file being read, staged tar bytes | `begin`, `refill_raw`, `next` | the archive reads back whole, whatever uploads do to the files meanwhile |
| Session log, `db.cxx`, `server.cxx` | log file, ids known to be logged, directories, sinks | `get_or_create_sink`, `append`, `load_all` | no session has two rows, a recorded one stays listed unless a torn row touches its own, and none is listed that never had a directory, also after crashes |
| Token store, `db.cxx`, `dbtool.cxx` | token file | `add-token`, `del-token`, `verify_token`, `write_file_atomic` | never torn, an acknowledged change is in effect and, once synced, survives a crash |
| HTTP, `http.cxx`, `router.cxx`, `middleware/`, `controllers/` | one request, its route and place in the chain | collect, parse, `dispatch`, `require_auth`, controllers | one answer per request, by the right route; tokens take effect at once |
| Set-up and shutdown, `server.cxx` | loop, listening handles, sessions | `run`, `stop` | |
| Decompressors | per unit | decode a block | |

Threads: one libuv loop for everything, and one consumer thread for every
upload connection. The two share the byte channel, the outbox and three
`uv_async_t` wakeups; the consumers of one session share its file sink.

### What is hard here

* Lock-free and futex code: the order of loads, stores, gate bumps and sleeps.
* The consumer and the loop wake each other through coalescing wakeups, while
  the loop may be closing the very handles those need.
* A batch protocol with keys, verdicts and two protocol versions, over a
  connection that can drop between any two frames.
* Waiting in circles: a reader waits for a buffer with a disk permit in its
  hands; a worker waits for the replies to a batch that is not full.
* Crashes, and tools killed, between write, `fsync`, rename and the `fsync` of the directory.
* Values that are stale when used: sizes listed before the files are read, a token
  store opened in one step and asked in the next, a directory's rule asked before
  its entries come.
* Arithmetic on `size_t(-1)`; last chunks; water marks.

`PROJECT.json` lists each of these as a hazard, at its line, with the properties
that would catch it or the reason why none does.

## 2. Plan

Order of work, the most important behaviour first.

1. *Done.* The primitives on which both programs rest: `SpscRing` with its
   abstract specification `BoundedFifo`, and `ByteChannel`; proofs for both.
2. *Done.* What is built on them: `StorageReader`, `Connection`.
3. *Done.* The protocol: `Upload` (both sides), `Scheduler`, `FileSink`.
4. *Done.* What must survive a restart: `SessionLog`, `TokenStore`.
5. *Done.* The rest of the server's and the client's own logic: names
   (`resolve_safe_path` in `FileSink`), downloads beside uploads (`Archive`), HTTP
   requests beside the tools that change tokens (`HttpApi`), directories of
   sessions (`SessionLog`), several roots with filter rules and the errors of
   the iterator (`Scheduler`, `FilterRules`), the atomic steps of the disk
   semaphore (`StorageReader`), dialling, proxy and TLS handshake (`Upload`).
6. *Done.* Proofs of every invariant that a run checks and of the refinement
   of `BoundedFifo`; see section 5. Liveness is checked and not proved.
7. *Later, model.* `Server::stop` and the destructor with connections open; an
   abstract specification of an upload (a unit is pending, received, skipped or
   lost) that `Upload` implements.

No module uses a `RECURSIVE` operator, every constant has its assumption in the
module that declares it and every action is one operation or one step of it, so
that all of them can be proved about.

## 3. Modules and the code

Each `MCxxx` module extends the module it checks and defines the larger values
of its constants; the `.cfg` gives the others. `Archive` composes the download
with `FileSink`, `HttpApi` the requests with `TokenStore`, `Scheduler` uses
`FilterRules`. Definitions whose comment begins with *Faulty* are the
mutants: the operator that follows them, with a plausible mistake in it. They
are used by no specification.

### SpscRing, BoundedFifo

One action per atomic access of `push()`, `pop()` and `close()`, so that every
interleaving of the three threads is one of the model's. The counters `head` and
`tail` are the code's; the slot is the counter modulo the capacity.
`std::atomic::wait` is the comparison with the gate and the sleep in one step,
which is what the futex gives; a notified thread compares again. `sent`, `got`,
`refused` and `ended` are history variables. The refinement maps the queue of
`BoundedFifo` to the published part of `sent` that has not been taken out.

### ByteChannel

The loop thread (`on_read`, `push`, `apply_backpressure`, `on_resume_async`,
`begin_teardown`) and the consumer (`read_exact`) with the mutex made explicit by
`Unlocked`. Bytes are counted. Of the list of blocks only the front one matters
to `read_exact`, and the next one may have any size.

### StorageReader

A reader thread and a worker thread per pair, all pairs sharing the semaphore:
`AcquireLoad`, `AcquireCas`, `AcquireWait`, `ReleaseAdd` and `notify_one` are its
atomic operations (a spurious failure of the exchange changes nothing).
`ready` is used by one producer and one consumer, so it is the queue that
`SpscRing` implements. `spare` has two producers as soon as a read brings
nothing (`storageReader.h:138` and `recycle()`); a push to it is therefore three
steps, the load of `tail`, the write of the slot and the store of `tail + 1`. One
producer may overwrite what the other wrote, and the store of the one that is
late may take the tail back: `spare` is the sequence of the places written since
the head and `spareTail` how many of them are pushed. `Shrinking` says for which
readers that can happen, `Blocks` of how many blocks a reader's units may be.

### Scheduler, FilterRules

`start()` walks the roots one after the other. The recursive iterator is a stack
of the entries not visited yet (`dirs`): it gives the entries of a directory in
any order and enters one right after its visit unless the recursion is disabled
(`VisitDir`), leaves out what it may not read, and may end with an error
(`RootFailed`). An entry that cannot be examined is skipped without a look at
the rules; if it is a directory the iterator may enter it all the same
(`StatFails`). `FilterRules` has `compileRule` and `keep`: a path is the sequence
of its names, a pattern the sequence of the parts between its slashes, and the
regular expression the code makes of it is the way the parts can be laid over
the path (`GlobMatch`). `TreeAssumption` says what a tree is: a path names one
entry, and the entries on the way to it are directories.

`selectWorker` reads the occupancies one worker at a time
while the workers run; `dispatch` is one step per worker tried. Workers may fail
at `init()` or at any unit, and what they had queued is lost with them. `size_t`
has `SizeMod` values, so that `size_t(-1) + k` wraps as in the code. The class
a worker is `warm` for is stored nowhere, so all distances of one selection are
equal and the first worker that is not busy is taken. `muypoco::Chan` is
external and modelled from its use.

### Upload

One connection, from dialling on (`tcpDial`, `socks5Connect`, `TlsHandshake`; any
configuration with or without proxy and TLS), with the worker and the server's consumer
as two processes and a queue of frames in each direction. `Init` chooses what
the peers know (protocol 1 or 2), whether the server has a filter, whether the
client asks for checksums and whether the connection is faulty; a faulty connection may drop at any moment and lose a
suffix of what is under way in each direction, replies may be late, files may
not open and writes may fail. A checksum is the content it stands for. A file
that ends before its listed length is recorded in `short`.

### FileSink, Archive

The connections of one session write a whole file and the chunks of a big file,
over files that may be there from an earlier upload and are one cell longer.
The search of the registry and the entry of a new descriptor are two steps
under one mutex. A name is the sequence of its parts; `resolve_safe_path` and
`lexically_normal` are operators over it, and one of the names uploaded leaves the
directory and is refused. `NamesAssumption` says that no two names of the upload
are the same file: a client sends the paths its walk meets, absolute and normal,
each once. (Paths of two drives that differ in nothing else would break it.)

`Archive` adds the download of the session: the files are listed one by one in
any order, their sizes go into the headers, and the contents are read a buffer
at a time, each turn of `refill_raw`'s loop an action. The loop thread would run
these turns without a pause between two writes; consumer threads write to the
files at the same time, so every turn is a step of its own. A tar stream is a
sequence of headers, cells, zeros and the end mark, and `Members` reads it as a
tar program does. The compressor is external: it gives output, keeps what it
was given, or fails.

### Connection

`c` is the record of the members that only the loop thread touches; the member
functions are operators on it (`begin_teardown`, `finalize_close`, `Written`,
`pump_download`), and every libuv callback is an action that applies them in the
order of the code. A write may be refused at once (`FailingWrites` says which)
or complete later, well or badly. `call` is the `read_exact()` the consumer is in: how
many messages it still wants, at most `MaxCount` in all, and whether it has
signalled a resume, which it does once per call. The object goes through upload, rejection,
HTTP answer, download and TLS. libuv itself (close callbacks after those of the
pending writes, coalescing of `uv_async_send`) is external.

### SessionLog

The log is the sequence of what `append()` wrote: whole rows, whole rows without
a newline, parts of rows. A crash before `fsync` may leave any of these or
nothing. `recorded` is history: the sessions whose `append()` succeeded. A handshake first needs the session's sink (`get_or_create_sink`), and a
new sink its directory, which may fail; directories are never synced, so a crash
may lose them, and an operator may remove them (`RemoveDirectory`). `exists()` is
taken for the directory being there: a file of the session's name is not modelled.

### TokenStore, HttpApi

`live` is the token file as processes see it, `durable` the set of those a crash may
leave: the one with which the directory was last synced and those renamed to it since.
An unsynced content may come back torn. A tool may be killed between any two of its
steps (`Killed`); the next one may then find its change made already and report success
without syncing anything (`Load`). `soft` keeps the tokens of such reports, and of those
after a sync that failed, until the directory is synced or a crash has ended what they
were worth.

`HttpApi` adds the request the loop thread works on: fragments, refusals, the two lists
of routes, the middleware chain with the open of the store and the check as two steps,
the controllers and the application's handlers, which may set any of `Statuses`. A
middleware or handler leaves its answer in the context (`status`), and `Flush` sends it at
the end of `Router::dispatch` if `respond` is still set; `begin_download` clears the flag
and begins the response itself. `sent` counts the responses begun. `matched` is the first route of a list that has the path and the
method, and `RoutesAssumption` says that the handlers of the protected endpoints
are in no header, so that an application's route cannot name them. `r.promise` is
history: what the tools had reported about the request's token when it arrived, and
have not withdrawn since.

## 4. Runs

| Run | What it checks | States |
|---|---|---|
| `ring` | `NoSlotRace`, `FifoDelivery`, `NoLostWakeup`, refinement of `BoundedFifo`, `AllDelivered`, `CloseUnblocks` | 162 000 |
| `channel` | `BufferBound`, `NoStall`, `ReadReturns` | 38 000 |
| `reader` | `BuffersConserved`, `BlocksInOrder`, `PermitsConserved`, `ReadsEnd` | 321 000 |
| `scheduler` | `FilesTiled`, `NoHealthyWorkers`, `WalkFollowsRules`, `WalkEnds` | 804 000 |
| `upload` | `RejectedNeverWritten`, `NoMisrouting`, `FrameExpected`, `OkMeansComplete`, `VerdictsAgree`, `BothEnd`, `AllSettled` | 231 000 |
| `file_sink` | `ReceivedOnDisk`, `OneDescriptor`, `ArchiveReadable`, `UntouchedExact`, `PathsConfined` | 2 312 000 |
| `connection` | `NothingOutlives`, `TornDownIsFreed`, `PeerGoneIsFreed` | 210 000 |
| `sessions` | `NoDuplicates`, `RecordedListed`, `ListedHadDirectory` | 3 176 000 |
| `tokens` | `NeverTorn`, `AckedInEffect`, `TokensTakeEffect`, `OneAnswer`, `RoutesAnswer` | 775 000 |
| `channel_large_read` | `ResumesOnceDrained`: **violated**, finding 1 | |
| `scheduler_three` | `NoHealthyWorkers`: **violated**, finding 2 | |
| `connection_reply` | `TornDownIsFreed`: **violated**, finding 3 | |

The type invariants of `SpscRing` and `ByteChannel` are proved and not listed in
their runs. `sessions`, `file_sink` and `tokens` use symmetry: sessions, connections,
tools and tokens are only compared for equality, and these runs check no liveness.

### Bounds, and why they are enough

* `ring`: two places and three values. The ring gets full and empty, a slot is
  used a second time, a push and a pop sleep, and a close meets each of them. The
  safety properties are proved for every capacity and any number of values.
* `channel`: marks 1 and 4, reads of one or two bytes, `read_exact` of up to 4,
  twelve bytes in all: several pauses and resumes within one behaviour. Safety
  is proved for all values with `MaxCount <= High`.
* `reader`: three pairs and one permit, so that a reader asleep is told of a permit
  which a third one has taken meanwhile and goes back to sleep (`storage.h:41`). The
  units have one, three and no blocks: three are more than the two buffers, so that
  reader has to wait for its worker, and its file is the one that may shrink. Each pair
  has one unit; that blocks of one unit are not taken for those of the next is proved
  for any number of units (`ReaderBlocksInOrder`). A ring has twice as many places as
  there are buffers, as in the code (8 and 4).
* `scheduler`: queues of two with one as the busy mark, so workers are free,
  busy and full; files of size 0 and 3 with a threshold of 3 and chunks of 2: an
  empty file and one whose last chunk is short. Two roots with a directory, a
  file in it and one beside it, and four rule lists: an excluded directory, a
  nested file whose directory is dropped by a later rule, `**` and a pattern
  that begins with a slash.
  `SizeMod = 16` agrees with 2^64 modulo 1, 2 and 3 workers (both are 1 modulo 3).
* `upload`: three units and a window of two, so a batch fills up, another does
  not, and keys of two batches are alive; two blocks per unit. Every unit may
  be rejected.
* `file_sink`: two connections, a small file, a name that is refused and two
  chunks of a big file, the last of them short (3 = 2 + 1), over files that were
  longer or absent; tar blocks and buffers of two cells, so that padding, a
  short last buffer and several compressions happen. `PathsConfined` looks at
  all names of up to four parts out of two names, the empty part and the dots.
* `connection`: marks 0 and 2, five messages: enough to shake hands, pause,
  resume and pause again; a `read_exact` of one or two messages, so within the
  high-water mark. With `MaxCount = 3` TLC finds `PeerGoneIsFreed` violated: the
  large read of finding 1 leaves the socket paused, and on a paused socket the end of
  the peer is not noticed. A connection exists once in its module since
  connections share no state on the loop thread.
* `sessions`: two sessions, five pieces: a torn row, the row glued to it and whole
  rows before and after them, of either session. `tokens`: three runs of two tools over two
  tokens, which is one that is killed, one that reports without a sync and one more
  (four runs, 5.2 million states, show the same); the built-in routes and three of an application, one of which shares a path with a
  built-in one; fragments up to one more than the header limit.

Deadlock is checked in `ring`, where somebody can always call again. The other
systems stop: the walk ends, the connection is deleted, the upload is over.

### Fairness

* A thread inside a call goes on: weak fairness of the steps *within* `push`,
  `pop` and `close`, of readers, workers, the walk, the consumer and the loop.
  The operating system schedules runnable threads. Nothing obliges anybody to
  begin a call; `AllDelivered` adds as its own premise that the consumer keeps
  popping.
* libuv visits all pending wakeups in every turn of the loop, so each callback
  of `Connection` has a fairness condition of its own. A peer that is still
  there need not send, and need not take what is sent: messages and the
  completion of writes to it are not promised. `PeerGoneIsFreed` has the
  departure of the peer as its premise.
* `channel` assumes that the peer sends what it has and closes; a peer that
  stays silent keeps its connection (a hazard the code has no timeout for).
* Nothing is assumed about drops, failures, crashes and late replies: they may
  come at any time, or never. `Scheduler` and `Upload` end in either case.

### Findings

1. **A large read stops the stream** (`byte_channel.cxx:56`, run
   `channel_large_read`). `read_exact()` signals at most once per call. When a
   call wants more than the high-water mark, the socket is resumed after the
   first drain, fills the buffer and is paused again, and the second drain of
   the same call signals nothing. `server.h:56` says of the low-water mark
   "resume once the buffer drains to this". Blocks may have 64 MB
   (`arch.md:158`), the default mark is 8 MB. With `MaxCount <= High` the
   stall is impossible; that is theorem `ChannelNoStall`.
2. **A healthy worker is passed over** (`scheduler.h:235`, run `scheduler_three`).
   When every worker's queue is full, `selectWorker()` answers `size_t(-1)`, and
   the sum with `k` wraps to 0 at `k = 1`. With three workers the ones tried are
   0, 0 and 1; the walk of the root is given up with "No healthy workers"
   although worker 2 is. With two workers the round happens to be complete.
3. **The loop waits for ever** (`connection.cxx:309`, run `connection_reply`).
   If the OK reply of the handshake is refused at once, the connection is torn
   down before its consumer exists, the consumer is started all the same and
   then joined by the loop; nobody closes its channel. `server.h:69`: "Serves
   until stop() is called." The run `connection` covers all other writes.

Deviations that the models contain and no run reports, because a property leaves
the case out or nothing is promised:

* `storageReader.h:138` pushes to the spare ring from the reader thread while
  the worker may push to it; `storage.h:17-19` and `ring.h` speak of one
  producer. A buffer may be lost by it: `BuffersConserved` allows that for
  files that shrink, and for these only.
* A file that shrinks between listing and reading ends its unit early and is
  reported as `ok` by both sides (`storageReader.h:137`); `README.md:72` does
  not say so. `OkMeansComplete` leaves such units out.
* A row cut short in the session log is glued to the next one (`db.cxx:356`), which is
  lost with it although its `append()` succeeded; `db.h:36` speaks of a torn last row
  only. `RecordedListed` allows just this: a torn piece costs itself and the row right
  after it, and nothing else.
* A session log that cannot be opened counts as empty (`db.cxx:370`), and
  sessions are then appended again, against the comment at `server.cxx:39`.
  `NoDuplicates` excludes behaviours where that has happened (`unread`).
* The row counts as recorded whatever `fsync()` answers (`db.cxx:362`); the model takes
  a sync for one that succeeds.
* Two tools at work at the same time may undo each other's change
  (`dbtool.cxx:96`). `AckedInEffect` and `TokensTakeEffect` exclude this (`unsure`).
* A tool killed between the rename and the sync of the directory leaves a store that
  the next run finds unchanged by its command: it prints "token already present" or
  "token not found" and returns 0 without a sync (`dbtool.cxx:123-127`, `146-149`), and
  a crash takes that state back. A sync that fails is not reported either
  (`db.cxx:229-233`). No document says what a report is worth after a crash;
  `AckedInEffect` and `TokensTakeEffect` hold of these reports until the next crash only
  (`soft`), and of all others for good. Without that exemption TLC finds the behaviour in
  eight states.
* `arch.md:166` mentions an fsync on close; `file_sink.cxx:58` has none.
* `arch.md:165` says that absolute paths and drives are rejected;
  `resolve_safe_path` (`file_sink.cxx:87-99`) strips them instead, and accepts a `..`
  that stays inside. `PathsConfined` leaves open which names that stay inside are
  accepted.
* A row that is whole but lacks its newline is listed until the next append is
  glued to it; both sessions then stay known to the running server only.
* A read error while an archive is made is delivered as zeros under status 200
  (`archive.cxx:172`); `UntouchedExact` counts such a file as touched. The zeros
  for a file that shrank are staged all at once, while `archive.h:14-17` says that
  peak memory stays bounded.
* The header of a member of 8 GB or more carries its size modulo 8 GB
  (`archive.cxx:109`): with `OctalLimit = 2`, `ArchiveReadable` is violated.
* A token store that cannot be opened counts as empty (`db.cxx:181`), for a tool
  that adds a token as well.
* `cli.cxx:17` says of `--include` "only upload files matching this glob"; a path
  no rule matches is kept (`scheduler.h:122`), so an `--include` on its own leaves
  nothing out. `WalkFollowsRules` does not say whether such files are taken
  (`LeftOpen`).
* A pattern `/name` is matched by name at any depth, since its slash is erased
  before `basenameOnly` looks for one (`scheduler.h:75-80`); `**/a` does not match
  an `a` in the root itself.
* `README.md:126` calls the key of `server/example.cxx` always safe; the example
  enters a unit when it is probed, so one whose upload breaks off is refused
  when it is tried again.
* `arch.md:147` speaks of batches of up to 32 probes; the client's window is
  128 and the server has no limit.

## 5. Proofs

All theorems hold for every value of the constants that satisfies the named
assumptions of the module that declares them. TLC evaluates these in the runs.
None of the properties is inductive; each module of proofs names the invariant
that is, part by part, and TLC checked every one of them on an instance before
it was proved. A lemma `...Step` has a case, or a lemma, per action.

**SpscRingProofs.** `RingTypeCorrect`, `RingNoSlotRace`, `RingFifoDelivery`,
`RingNoLostWakeup`, `RingEndMeansDrained`, `RingImplementsFifo`, for a ring of at
least one place (`CapAssumption`). `RingInv` adds

* `Counts`: at most `Cap` values lie between `head` and `tail`, and the history
  variables have their lengths;
* `SlotsHold`: the slot of every number from `head` on holds what was
  published under that number. This needs that fewer than `Cap` consecutive
  numbers have different slots, lemma `SlotsDiffer`, which is where modular
  arithmetic comes in;
* `Delivered`: what was handed out are the first `head` values published;
* `ProducerAt`, `ConsumerAt`, `CloserAt`: what each thread knows at each
  place of its program (a producer about to write has room, and so on);
* `ConsumerGate`, `ProducerGate`: a thread that has read a gate and then found
  nothing to do either still sees that gate value and nothing has happened, or
  the gate has moved on, or the other thread is about to move it. This is
  the argument for the re-check after reading the gate (`ring.h:43`, `ring.h:72`).

`RingStep` has one step per action, grouped by what the action leaves alone.
`RingImplementsFifo` is the refinement: the store of `tail` is an `Accept`, the store
of `head` a `Deliver`, the store of `closed` a `Close`, and every other step leaves the
abstract queue alone or is a refusal; `Delivered` is what makes the value that
was read the head of that queue.

**ByteChannelProofs.** `ChannelTypeCorrect` and `ChannelBufferBound` rest on
`BoundInv` (`TypeOK`, the shape of the front block and `Room`, which says what can
still arrive in each state of pause and resume). The bound is
`High - 1 + 2 * MaxRead` and not `High - 1 + MaxRead`: a resume sent before the
pause and served after it lets one more read in, and TLC shows that the
larger value is reached. `ChannelNoStall` needs `AnswerDue`: a pause nobody
has answered leaves enough bytes for a read in progress to end and for another
one to begin, which will signal. It has the premise `MaxCount <= High`, and
finding 1 shows that it cannot be dropped.

**ConnectionProofs.** For any number of messages, all
water marks and every write that may fail: `ConnectionDeletedAlone` (the object is
deleted only when its handles are closed, its writes are done and its consumer has
ended) and the action property `ConnectionNotUsedAfterDelete` (nobody reads or writes
a member afterwards). `LifeInv` says what is true of the members the loop thread keeps
(`Sound`: a teardown that has not closed the handles has closed the channel of a
consumer), who may still call on the object, and that the loop joins the consumer, or
has deleted the object, just when the last handle is closed. Every member function
is shown once to keep `Sound` (`Kept`), and the callbacks are put together from
these lemmas. `ConnectionNothingOutlives` and `ConnectionTeardownGoesOn`, the safety part of
`TornDownIsFreed`, need `Orderly` as well: the handles of a started connection are
closed only after its consumer's last call. This has the premise
`"ok" \notin FailingWrites`, that the reply which comes before the consumer is not
refused; finding 3 shows what happens without it.

**StorageReaderProofs.** `ReaderPermitsConserved`, `ReaderBlocksInOrder` and
`ReaderBuffersConserved`, for any number of pairs, permits, blocks and buffers.
`StorageInv` has, for every pair, what the threads have in their hands (`Hands`),
that no buffer is in two places (`Apart`, which counts the places behind the tail
of the spare ring as well, since a late store may bring them back), that none is
lost unless the file shrinks (`Kept`), how far a loaded tail may be from the real
one (`Tails`) and what is in the ready ring (`InOrder`). The first version of the
model had a push to `spare` in two steps; the proof of `Apart` did not go through
for it, which showed that with more than two buffers the interleaving of two
pushes can do more than lose a buffer. The run, with two buffers, cannot show that;
the theorem covers every number.

**SchedulerProofs.** `SchedulerFilesTiled`, `SchedulerWalkFollowsRules` and
`SchedulerNoHealthyWorkers`, for any number of workers, queue lengths, thresholds,
chunk sizes, trees, rules and roots. `StateInv` relates `dispatch`'s round to the
states of the workers: those tried have stopped. `SchedulerNoHealthyWorkers` has the
premise `SizeMod % N = 0`, the number of workers divides 2^64; for these `IdxCovers`
shows that the round, begun at any index or at `size_t(-1)`, meets every worker.
Finding 2 is what happens without it. `TileInv` says that a unit is in one place,
that units of a file lie apart, and that those given out cover it up to `offset`
(`Partial`) and in the end to its size (`Whole`). `WalkInv` is the argument for the
walk: level `n` of the iterator's stack holds entries of `n` names (`Stack`), the walk
comes to an entry in one way and to none that it has taken (`OneWay`,
`NoneAgain`), the directories above it were kept (`AheadKept`), and every file the
rules ask for is taken, skipped or still ahead (`ToCome`, `NoneMissing`). It rests
on `TreeAssumption`.

**UploadProofs.** `UploadRejectedNeverWritten`, `UploadNoMisrouting`,
`UploadOkMeansComplete`, `UploadVerdictsAgree` and `UploadFrameExpected`, for any number
of units and blocks, any window and any filter (`UploadAssumption`), with every
combination of versions, checksums and faults that `Init` allows. `UploadInv` relates the
two sides through what lies between them:

* `Hand`: where the two sides are in the handshake, and that they leave it with the
  same mode;
* `Queue` and `Batch`: units are taken in order, so that in accept mode a unit's key is
  the number of units before it, and the batch is the last keys in a row. This makes
  the server's look-up of a key (`connection.cxx:698`) a fact about numbers;
* `Judgement`, `OnTheWay`, `Unanswered`: every key of the batch has its reply read, its reply
  under way or its probe under way, in this order, and what a reply says (`Verdict`) is
  what the server still holds. A dropped connection only takes ends off the last two;
* `Wire` and `Meet`: the frames under way are a stream that begins at the place of
  the server (`Here`), whose every frame fits the place the one before leads to (`Fits`,
  `After`), whose headers are of ascending units, and that ends at the place of the
  client (`There`) while the connection is up;
* `Disk` and `Told`: nothing is on disk beyond the server's unit, nothing is reported
  beyond the client's, and the server's is never ahead of the client's.

The lemmas `WireAppend`, `WireTail` and `WirePrefix` carry the stream over a frame
that is sent, one that is read and a suffix that is lost; every action uses one of them.

**FileSinkProofs, the sink.** `SinkOneDescriptor`, `SinkReceivedOnDisk` and
`SinkPathsConfined`, for any number of connections and files and any chunk size.
`SinkInv` says who holds a unit (`OneWriter`), what a connection knows about its
file at each step (`Opening`) and that what it has written so far is on disk
(`Written`). `NamesAssumption` is needed: a whole file under a second name would be
truncated by its second upload. `ArchiveKeepsSink` shows that the composition with a
download implements the sink's own specification, so that all three hold beside any
download (`ArchiveSinkSafe`).

**FileSinkProofs, the names.** `ResolveConfined` is about `resolve_safe_path` alone, for
names of any length. The normal form is built a part at a time (`Followed`). The
invariant of that loop (`PathAfter`): as long as the name has not left the directory the
result so far is as long as the name is deep and has no `..`; once the name has left it,
the result begins with `..` and stays so, whatever parts follow.
`SinkPathsConfined` uses it for every name the consumers see.

**FileSinkProofs, the archive.** `ArchiveIsReadable` and `ArchiveHasUntouched`, for any
session, any order of uploads, listing, reads and compressions, and any block, buffer and
target sizes. They have the premise `Size + 1 < OctalLimit`: no file, the longer ones
that were there before included (`FileBound`), has a size that eleven octal digits
cannot say. It is the 8 GB limit under Deviations above, and without it the
theorem is false. `StreamInv` follows the stream while it is made:

* `Stages`, `Current`, `SameSize`: what is made at each stage of the download, that a
  file's place and the cells still to come agree while nobody touches it, and that such a
  file has the size that was listed;
* `Layout`: there are names and places (`names`, `at`) such that at every place there is
  the header of its name (`Laid`), the stream made so far ends where the next header
  belongs but for the cells and padding the open member still owes (`Owed`), the
  names are the entries taken up but for touched ones that were skipped (`Chosen`), and
  the members of untouched files have the cells of their files (`Exact`).

The quantified `names` and `at` grow by one at every header (`OpenLaid`, `OpenExact`,
`ChosenOpen`) and stand still otherwise. `MembersRead` is the lemma on the reader's
side: from a stream laid out in this way and ended by its trailer, reading from the
front yields just these members; `RoundUpPads` is the arithmetic of the padding.
`SortedUnique` makes the names, being in order, the sorted listing of their set.

**DbProofs, the session log.** `LogNoDuplicates`, `LogRecordedListed`, `LogListedHadDirectory`.
`LogInv` needs more than the absence of duplicate rows: `Distinct` counts the rows
that lost their newline as well, because the next append may complete them. A running
server knows every session whose row stands in a line of its own (`OwnLinesKnown`), and one
that was recorded, or is known, has a whole row that was synced (`HasRow`), which no later
append, crash or restart takes away.

**DbProofs, the token store and HTTP.** `StoreNeverTorn`, `StoreAckedInEffect`, and of the composition
`HttpTokensTakeEffect`, `HttpOneAnswer`, `HttpRoutesAnswer`. `StoreInv` says that what
was renamed was synced (`Whole`), that a tool under way has the store with its
change in hand (`UnderWay`), and that a promise holds of the file, and one that is not
soft of every file a crash may leave (`AllKept`). `ConnInv` follows the request through
the two lists of routes and its chain: nothing has been answered before the request is
complete (`Fresh`), while it is worked on an answer is out just when `respond` is off
(`Owed`), the route is the first of both lists (`RouteAt`), `r.promise` never says more
than the tools have reported (`Current`), what was read from the store agrees with it
(`ReadAgrees`), and so do those let through (`Passed`) and those refused (`Refused`).
`RoutesMeaning` relates the code's two searches to the first route of both lists.

**Only model-checked.**

* Liveness (`AllDelivered`, `CloseUnblocks`, `ReadReturns`, `ReadsEnd`, `WalkEnds`,
  `BothEnd`, `AllSettled`, `TornDownIsFreed`, `PeerGoneIsFreed`): the prover does not
  handle fairness.

Induction over data is used in `FileSinkProofs` only. The induction rule of the library
takes a predicate as its parameter, which the provers cannot instantiate, so
`Induction` states it for a set of numbers, proved from the well-foundedness of `<`;
the sets are the prefixes of a name, or the suffixes of a stream, for which the claim
holds.

## 6. Not modelled

* Compression, hashes, HMAC, TLS records and certificates: calls into libraries.
  Their failures are failing blocks, refusals and failing reads of the models.
* The text of HTTP requests and answers, and the split of long names in tar
  headers: a request is its method, path and token, a header its name and size.
* `HashFirst` probes: `hashUnit()` reads a unit through the storage reader as an
  upload does, without sending; the hash is part of what the filter decides on.
  A file that changes between the two reads is sent under a verdict on its
  former content (`worker.h:286`).
* `Server::stop()` and the destructor with connections open (`server.cxx:83`).
* A crash of the machine in the file sink: a file is closed without `fsync`
  (`file_sink.cxx:58`), so nothing can be promised for it.
* Limits: open descriptors (a chunked file keeps its own for the life of the
  sink, `file_sink.cxx:160`), paths of 256 bytes and more, which are cut off
  (`task.h:37`), a chunk size of 0, which never ends (`scheduler.h:304`).
* Names that differ only in their drive letter or leading slash are one file
  (`file_sink.cxx:91-99`).
* The units of a worker that fails are neither sent elsewhere nor reported
  (`scheduler.h:255`); no document promises either.
* A peer that half-closes after its request loses the answer
  (`connection.cxx:182`).
* Arguments, connection strings, configuration, logging, events, affinity, the
  listener, the Windows shadow copy, the bytes of SOCKS5: no state that the upload
  depends on.
* Vendored code: `cxx_modules/json.hpp` and `shared/xxhash.h` are 32 000 of the
  repository's 40 000 lines of C++. The share of source lines that the map names
  is small for that reason; of the repository's own code it is about two
  fifths, and most of the rest is declarations, strings and calls into
  libraries.
* Wrap-around of the 64-bit counters of the ring and of the 32-bit gates (a
  thread would have to sleep through 2^32 bumps).
* Weak memory: the ring's acquire and release pairs order exactly the accesses
  that the interleaving model orders; the plain accesses to the slots are shown
  not to meet (`NoSlotRace`).
