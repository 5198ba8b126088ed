------------------------------ MODULE FileSink ------------------------------
(***************************************************************************)
(* The files of one upload session: FileSink (server/file_sink.cxx) as the *)
(* consumer threads of the session's connections use it (UnitSink in       *)
(* server/connection.cxx).  A unit is a whole file, written from its start *)
(* through a descriptor of its own, or a chunk of a big file, written at   *)
(* its offset through a descriptor that all chunks of the file share.  The *)
(* registry of shared descriptors is guarded by a mutex.                   *)
(*                                                                         *)
(* A name is what the client sends, as the sequence of its parts after a   *)
(* drive letter; a path is what the name resolves to below the session's   *)
(* directory.  The content of a file is a sequence of cells, each Old      *)
(* (from an earlier upload), Hole (skipped by a write beyond the end) or   *)
(* New.  The scheduler gives out every unit once (module Scheduler).       *)
(***************************************************************************)
EXTENDS Integers, FiniteSets, SequencesExt

CONSTANTS Conn,     \* connections of the session
          NoConn,   \* the mutex is free
          Small,    \* names uploaded as one unit
          Big,      \* names uploaded as chunks
          MaxParts, \* bound: parts of the names PathsConfined looks at
          Size,     \* cells of a file
          Chunk     \* cells of a chunk

ASSUME FileSinkAssumption ==
  /\ NoConn \notin Conn /\ Small \cap Big = {}
  /\ Size \in Nat /\ Chunk \in Nat \ {0} /\ MaxParts \in Nat

VARIABLES disk,            \* path -> its content, or Absent
          chunk_files_,    \* paths in the registry
          opened,          \* path of a big file -> descriptors opened for it
          mutex,           \* registry_mutex_: its holder
          pc, unit, run,   \* connections: pc, unit being written, cells written
          taken, received  \* units begun, units reported as ok

conns == <<pc, unit, run>>
vars  == <<disk, chunk_files_, opened, mutex, conns, taken, received>>

Absent == <<"absent">>

-----------------------------------------------------------------------------
(* Names *)

\* std::filesystem::path::lexically_normal of a relative path, a part at a time.
\* It keeps the slash of a name that ends in no name, at which no file can be
\* opened; the client sends none (NamesAssumption).
Blank == {"", "."}
Follow(done, part) == IF part \in Blank THEN done
                      ELSE IF part = ".." /\ done # <<>> /\ Last(done) # ".." THEN Front(done)
                      ELSE Append(done, part)
Followed(parts) ==
  LET F[i \in 0 .. Len(parts)] == IF i = 0 THEN <<>> ELSE Follow(F[i - 1], parts[i])
  IN  F
lexically_normal(parts) == Followed(parts)[Len(parts)]

Rejected == <<"..">>
\* Faulty: only a name that begins with ".." is refused.
resolve_Leading(name) ==
  LET lexical == lexically_normal(name)
  IN  IF name = <<>> \/ Head(name) = ".." \/ lexical = <<>> THEN Rejected ELSE lexical
\* A drive letter (names are given without it) and leading slashes are dropped,
\* the rest is normalised; what still begins with "..", or names nothing, is
\* refused.  The comparison with the root that follows refuses nothing more: what
\* is left has no root and no drive of its own.
resolve_safe_path(name) ==
  LET lexical == lexically_normal(name)
  IN  IF ".." \in ToSet(lexical) \/ lexical = <<>> THEN Rejected ELSE lexical

BigPath == {resolve_safe_path(n) : n \in Big} \ {Rejected}
Path == BigPath \cup ({resolve_safe_path(n) : n \in Small} \ {Rejected})

\* The client sends the absolute paths its directory walk meets, in normal form
\* and each once: they end in a name, and two of them do not name the same file.
ASSUME NamesAssumption ==
  /\ Small \cup Big \subseteq Seq(STRING)
  /\ \A n \in Small \cup Big : n # <<>> /\ Last(n) \notin Blank \cup {".."}
  /\ \A m, n \in Small \cup Big :
       resolve_safe_path(m) = resolve_safe_path(n) /\ resolve_safe_path(m) # Rejected => m = n

\* The units the scheduler makes of the files.
Offsets == {o \in 0 .. Size - 1 : o % Chunk = 0}
Units == {[name |-> n, offset |-> 0, length |-> Size] : n \in Small}
         \cup {[name |-> n, offset |-> o, length |-> Min({Chunk, Size - o})] :
                 n \in Big, o \in Offsets}
File(u) == resolve_safe_path(u.name)

\* write() at an offset, from 0.
WriteAt(content, offset) ==
  [i \in 1 .. Max({Len(content), offset + 1}) |->
     IF i = offset + 1 THEN "New"
     ELSE IF i <= Len(content) THEN content[i] ELSE "Hole"]

\* The session is new, or all of it has been uploaded before.
Init == /\ \E content \in {Absent, [i \in 1 .. Size + 1 |-> "Old"]} :
             disk = [p \in Path |-> content]
        /\ chunk_files_ = {} /\ opened = [p \in BigPath |-> 0]
        /\ mutex = NoConn
        /\ pc = [c \in Conn |-> "idle"]
        /\ unit \in [Conn -> {CHOOSE u \in Units : TRUE}]
        /\ run = [c \in Conn |-> 0]
        /\ taken = {} /\ received = {}

-----------------------------------------------------------------------------
Goto(c, to) == pc' = [pc EXCEPT ![c] = to]
Ensured(content) == IF content = Absent THEN <<>> ELSE content

\* handle_upload takes a unit's header and asks the sink for a writer.
Begin(c, u) == /\ pc[c] = "idle" /\ u \notin taken
               /\ taken' = taken \cup {u}
               /\ unit' = [unit EXCEPT ![c] = u] /\ run' = [run EXCEPT ![c] = 0]
               /\ Goto(c, IF u.name \in Small THEN "open" ELSE "lock")
               /\ UNCHANGED <<disk, chunk_files_, opened, mutex, received>>

\* O_CREAT | O_TRUNC.
open_sequential(c) == /\ pc[c] = "open" /\ File(unit[c]) # Rejected
                      /\ disk' = [disk EXCEPT ![File(unit[c])] = <<>>]
                      /\ Goto(c, "write")
                      /\ UNCHANGED <<chunk_files_, opened, mutex, unit, run, taken, received>>

\* acquire_chunk_file: the registry is searched under the mutex, which is kept
\* while a new file is opened and entered.
\* Faulty: the mutex is given up between the search and the open.
LookupUnlocked(c) == /\ pc[c] = "lock" /\ mutex = NoConn /\ File(unit[c]) # Rejected
                     /\ Goto(c, IF File(unit[c]) \in chunk_files_ THEN "write" ELSE "create")
                     /\ UNCHANGED <<disk, chunk_files_, opened, mutex, unit, run, taken, received>>
Lookup(c) == /\ pc[c] = "lock" /\ mutex = NoConn /\ File(unit[c]) # Rejected
             /\ IF File(unit[c]) \in chunk_files_
                THEN Goto(c, "write") /\ mutex' = mutex
                ELSE Goto(c, "create") /\ mutex' = c
             /\ UNCHANGED <<disk, chunk_files_, opened, unit, run, taken, received>>

\* O_CREAT without O_TRUNC: what the file had stays.
Create(c) == /\ pc[c] = "create"
             /\ disk' = [disk EXCEPT ![File(unit[c])] = Ensured(@)]
             /\ opened' = [opened EXCEPT ![File(unit[c])] = @ + 1]
             /\ chunk_files_' = chunk_files_ \cup {File(unit[c])}
             /\ mutex' = NoConn
             /\ Goto(c, "write")
             /\ UNCHANGED <<unit, run, taken, received>>

\* resolve_safe_path, ensure_parent_directory or the open itself fails: the
\* connection ends, and with it a unit that has been taken.
OpenFails(c) == /\ pc[c] \in {"open", "lock", "create"}
                /\ Goto(c, "ended")
                /\ mutex' = IF mutex = c THEN NoConn ELSE mutex
                /\ UNCHANGED <<disk, chunk_files_, opened, unit, run, taken, received>>

\* Faulty: the place in the unit is taken for the place in the file.
PositionInUnit(c) == run[c]
Position(c) == IF unit[c].name \in Big THEN unit[c].offset + run[c] ELSE run[c]

\* UnitSink::write of the next cell, whoever else writes.
Write(c) == /\ pc[c] = "write" /\ run[c] < unit[c].length
            /\ disk' = [disk EXCEPT ![File(unit[c])] = WriteAt(@, Position(c))]
            /\ run' = [run EXCEPT ![c] = @ + 1]
            /\ UNCHANGED <<chunk_files_, opened, mutex, pc, unit, taken, received>>

\* The end of the unit: a sequential writer closes its descriptor.
Finish(c) == /\ pc[c] = "write" /\ run[c] = unit[c].length
             /\ received' = received \cup {unit[c]}
             /\ Goto(c, "idle")
             /\ UNCHANGED <<disk, chunk_files_, opened, mutex, unit, run, taken>>

\* The connection breaks off, or a write fails: what was written stays.
Lost(c) == /\ pc[c] = "write"
           /\ Goto(c, "ended")
           /\ UNCHANGED <<disk, chunk_files_, opened, mutex, unit, run, taken, received>>

\* close_all: the server goes, the last to hold the sink once the connections
\* are gone.
close_all == /\ \A c \in Conn : pc[c] \in {"idle", "ended"}
             /\ chunk_files_ # {}
             /\ chunk_files_' = {}
             /\ opened' = [p \in BigPath |-> IF p \in chunk_files_ THEN opened[p] - 1 ELSE opened[p]]
             /\ pc' = [c \in Conn |-> "ended"]
             /\ UNCHANGED <<disk, mutex, unit, run, taken, received>>

Next == \/ \E c \in Conn : \/ open_sequential(c) \/ Lookup(c) \/ Create(c) \/ OpenFails(c)
                           \/ Write(c) \/ Finish(c) \/ Lost(c)
                           \/ \E u \in Units : Begin(c, u)
        \/ close_all

Spec == Init /\ [][Next]_vars

-----------------------------------------------------------------------------
(* Properties *)

\* arch.md:163-165 "out-of-order chunks across connections are fine": in
\* whatever order the connections write, break off and open, the cells of every
\* unit reported as received are in their places.
ReceivedOnDisk == \A u \in received : \A i \in u.offset + 1 .. u.offset + u.length :
                    i <= Len(disk[File(u)]) /\ disk[File(u)][i] = "New"

\* arch.md:164 "shared refcounted fd": a big file has one descriptor, and it is
\* in the registry until it is closed; none is opened beside it and forgotten.
OneDescriptor == \A p \in BigPath : opened[p] = IF p \in chunk_files_ THEN 1 ELSE 0

\* How deep below the session's directory a name leads, and whether all its parts
\* lead further down.
Depth(parts) == Cardinality({i \in DOMAIN parts : parts[i] \notin Blank \cup {".."}})
                - Cardinality({i \in DOMAIN parts : parts[i] = ".."})
Below(path) == path # <<>> /\ ToSet(path) \cap (Blank \cup {".."}) = {}

NamesUpTo == UNION {[1 .. n -> {"a", "b", "", ".", ".."}] : n \in 0 .. MaxParts}
NamesConfined ==
  \A name \in NamesUpTo :
    LET path == resolve_safe_path(name)
    IN  path = Rejected \/ /\ Below(path)
                           /\ \A i \in 0 .. Len(name) : Depth(SubSeq(name, 1, i)) >= 0
\* file_sink.cxx:87-90 "The ".." rejection and the prefix check below are what keep
\* it from escaping": a name that, followed part by part, leaves the session's
\* directory is refused wherever it does so, any other leads to a file below the
\* directory or is refused too, and no consumer opens, writes or reports a unit
\* whose name was refused.  Which of the names that stay inside are accepted is
\* not said here (arch.md:165 and the code differ, see the README).
PathsConfined ==
  /\ NamesConfined
  /\ \A c \in Conn : pc[c] \in {"create", "write"} => Below(File(unit[c]))
  /\ \A u \in received : Below(File(u))
=============================================================================
