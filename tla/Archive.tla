------------------------------ MODULE Archive ------------------------------
(***************************************************************************)
(* The download of a session while uploads into it go on: ArchiveStreamer  *)
(* (server/archive.cxx) as Connection::pump_download drives it on the loop *)
(* thread, beside the consumer threads of module FileSink.  The directory  *)
(* is listed file by file, the sizes found then go into the tar headers,   *)
(* and the contents are read later, a buffer at a time, from files that    *)
(* may have been truncated, extended or overwritten meanwhile.             *)
(*                                                                         *)
(* A tar stream is a sequence of items: a header (one item for its block), *)
(* a cell of a file, a zero cell, or the two zero blocks at the end.       *)
(* Compression (zstd) is external and lossless: it gives output or keeps   *)
(* what it was given.                                                      *)
(***************************************************************************)
EXTENDS FileSink

CONSTANTS Order,       \* the paths in the order of their member names
          Block,       \* cells of a tar block (512 bytes)
          Buf,         \* cells of refill_raw's buffer (64 KB)
          RawTarget,   \* kRawTarget: items staged before they are compressed
          OctalLimit   \* what eleven octal digits can say (8^11)

ASSUME ArchiveAssumption ==
  /\ Order \in Seq(Path) /\ ToSet(Order) = Path /\ IsInjective(Order)
  /\ {Block, Buf, RawTarget, OctalLimit} \subseteq Nat \ {0}

VARIABLES dl,        \* the download: where it is
          unlisted,  \* files the directory iterator has not come to
          sizes,     \* sizes of the files listed: entries_ before the sort
          idx_,      \* members done
          cur,       \* the open file, or NoFile: place, data and padding to go
          raw,       \* raw_: items staged and not yet compressed
          tar,       \* history: the items compressed so far
          touched    \* history: paths written, or failing to be read, since they were listed

stream  == <<dl, unlisted, sizes, idx_, cur, raw, tar>>
allvars == <<vars, stream, touched>>

NoFile == [pos |-> 0, remaining |-> 0, pad |-> 0, open |-> FALSE]

\* The paths of a set, sorted.
Sorted(S) == LET F[k \in 0 .. Len(Order)] == IF k = 0 THEN <<>>
                                             ELSE IF Order[k] \in S THEN Append(F[k - 1], Order[k])
                                             ELSE F[k - 1]
             IN  F[Len(Order)]
entries_ == Sorted(DOMAIN sizes)

ArchiveInit == /\ Init
               /\ dl = "none" /\ unlisted = Path /\ sizes = <<>> /\ idx_ = 0
               /\ cur = NoFile /\ raw = <<>> /\ tar = <<>> /\ touched = {}

-----------------------------------------------------------------------------
(* ArchiveStreamer::begin *)

\* uploads_download has found the directory and begins the response.
begin == /\ dl = "none" /\ dl' = "listing"
         /\ UNCHANGED <<vars, unlisted, sizes, idx_, cur, raw, tar, touched>>

\* The iterator comes to the files in any order; one that is not there yet, or
\* whose size cannot be had, is left out.
List(p) == /\ dl = "listing" /\ p \in unlisted
           /\ unlisted' = unlisted \ {p}
           /\ IF disk[p] = Absent THEN sizes' = sizes
              ELSE sizes' \in {sizes, [q \in DOMAIN sizes \cup {p} |->
                                         IF q = p THEN Len(disk[p]) ELSE sizes[q]]}
           /\ UNCHANGED <<vars, dl, idx_, cur, raw, tar, touched>>

\* The entries are sorted and the head of the response is written.
Listed == /\ dl = "listing" /\ unlisted = {}
          /\ dl' = "sending"
          /\ UNCHANGED <<vars, unlisted, sizes, idx_, cur, raw, tar, touched>>

-----------------------------------------------------------------------------
(* ArchiveStreamer::refill_raw, one turn of its loop at a time *)

Zeros(n) == [i \in 1 .. n |-> <<"zero">>]
set_octal(size) == size % OctalLimit
emit_header(p) == <<"header", p, set_octal(sizes[p])>>

Padding(size) == (Block - (size % Block)) % Block

InputDone == tar \o raw # <<>> /\ Last(tar \o raw) = <<"end">>
Refilling == dl = "refill" /\ Len(raw) < RawTarget /\ ~InputDone
Entry == entries_[idx_ + 1]
Stage(items) == raw' = raw \o items

\* No entry is left: the trailer ends the input.
EndOfInput == /\ Refilling /\ ~cur.open /\ idx_ = Len(entries_)
              /\ Stage(<<<<"end">>>>)
              /\ UNCHANGED <<vars, dl, unlisted, sizes, idx_, cur, tar, touched>>

\* The file is opened; one that cannot be read now is skipped.
OpenEntry == /\ Refilling /\ ~cur.open /\ idx_ < Len(entries_)
             /\ \/ /\ Stage(<<emit_header(Entry)>>)
                   /\ cur' = [pos |-> 0, remaining |-> sizes[Entry],
                              pad |-> Padding(sizes[Entry]), open |-> TRUE]
                   /\ idx_' = idx_ /\ touched' = touched
                \/ /\ idx_' = idx_ + 1 /\ touched' = touched \cup {Entry}
                   /\ UNCHANGED <<cur, raw>>
             /\ UNCHANGED <<vars, dl, unlisted, sizes, tar>>

\* Faulty: every buffer is read from the start of the file.
DataAgain(p, from, n) == [i \in 1 .. n |-> <<"data", disk[p][i]>>]
Data(p, from, n) == [i \in 1 .. n |-> <<"data", disk[p][from + i]>>]
\* Faulty: what the file lacks is left out.
FillNothing(n) == <<>>
Fill(n) == Zeros(n)

\* Up to a buffer is read.  A short read, at the end of a file that has become
\* shorter or after an error, is made up with zeros.
ReadData == /\ Refilling /\ cur.open /\ cur.remaining > 0
            /\ LET want == Min({cur.remaining, Buf})
                   there == Max({0, Len(disk[Entry]) - cur.pos})
               IN  \E got \in 0 .. Min({want, there}) :
                     /\ Stage(Data(Entry, cur.pos, got)
                              \o IF got < want THEN Fill(cur.remaining - got) ELSE <<>>)
                     /\ cur' = [cur EXCEPT !.pos = @ + got,
                                  !.remaining = IF got < want THEN 0 ELSE @ - got]
                     /\ touched' = IF got < Min({want, there}) THEN touched \cup {Entry}
                                   ELSE touched
            /\ UNCHANGED <<vars, dl, unlisted, sizes, idx_, tar>>

Pad == /\ Refilling /\ cur.open /\ cur.remaining = 0 /\ cur.pad > 0
       /\ Stage(Zeros(cur.pad))
       /\ cur' = [cur EXCEPT !.pad = 0]
       /\ UNCHANGED <<vars, dl, unlisted, sizes, idx_, tar, touched>>

NextEntry == /\ Refilling /\ cur.open /\ cur.remaining = 0 /\ cur.pad = 0
             /\ cur' = NoFile /\ idx_' = idx_ + 1
             /\ UNCHANGED <<vars, dl, unlisted, sizes, raw, tar, touched>>

-----------------------------------------------------------------------------
(* ArchiveStreamer::next and Connection::pump_download *)

\* What is staged goes to the compressor; with no output the loop goes on, with
\* some it is written to the socket.
Compress == /\ dl = "refill" /\ raw # <<>> /\ (Len(raw) >= RawTarget \/ InputDone)
            /\ tar' = tar \o raw /\ raw' = <<>>
            /\ dl' \in {"refill", "sending"}
            /\ UNCHANGED <<vars, unlisted, sizes, idx_, cur, touched>>

\* Everything has been given to the compressor: it is flushed, and the last
\* chunk sent.
EndStream == /\ dl = "refill" /\ raw = <<>> /\ InputDone
             /\ dl' = "complete"
             /\ UNCHANGED <<vars, unlisted, sizes, idx_, cur, raw, tar, touched>>

\* The connection is torn down, the streamer with it.
Aborted == /\ dl' = "aborted"
           /\ sizes' = <<>> /\ idx_' = 0 /\ cur' = NoFile
           /\ raw' = <<>> /\ tar' = <<>> /\ touched' = {}

\* The compressor fails: the answer ends in the middle.
CompressFails == /\ dl = "refill" /\ (Len(raw) >= RawTarget \/ InputDone)
                 /\ Aborted
                 /\ UNCHANGED <<vars, unlisted>>

\* on_write_download: the chunk is out and the next one is made, or the peer is
\* gone.
on_write_download ==
  /\ dl = "sending"
  /\ \/ dl' = "refill" /\ UNCHANGED <<sizes, idx_, cur, raw, tar, touched>>
     \/ Aborted
  /\ UNCHANGED <<vars, unlisted>>

\* A step of the uploads; what it writes to is touched.
Upload == /\ Next
          /\ touched' = touched \cup {p \in DOMAIN sizes : disk'[p] # disk[p]}
          /\ UNCHANGED stream

ArchiveNext == \/ Upload \/ begin \/ \E p \in Path : List(p)
               \/ Listed \/ EndOfInput \/ OpenEntry \/ ReadData \/ Pad \/ NextEntry
               \/ Compress \/ CompressFails \/ EndStream \/ on_write_download

ArchiveSpec == ArchiveInit /\ [][ArchiveNext]_allvars

-----------------------------------------------------------------------------
(* Properties *)

\* What a tar program makes of the items from a place on: the members, each
\* <<path, cells>>, and one of a name no file has where it finds no header.
RoundUp(n) == CHOOSE m \in n .. n + Block - 1 : m % Block = 0
Broken == <<<<<<"broken">>, <<>>>>>>
Reading(items) ==
  LET Cells(i, n) == SubSeq(items, i + 1, i + n)
      From[i \in 1 .. Len(items) + 1] ==
        IF i > Len(items) THEN Broken
        ELSE IF items[i] = <<"end">> THEN IF i = Len(items) THEN <<>> ELSE Broken
        ELSE IF items[i][1] # "header" \/ i + RoundUp(items[i][3]) > Len(items) THEN Broken
        ELSE <<<<items[i][2], Cells(i, items[i][3])>>>> \o From[i + RoundUp(items[i][3]) + 1]
  IN  From
Members(items) == Reading(items)[1]

\* archive.cxx:173-174 "zero-fill the declared remainder so the member length
\* still matches the header": whatever uploads do to the files between the
\* listing and the reads, a complete archive reads back to its end, and its
\* members are files that were listed, each once and in the order of the names.
\* This is about files below the 8 GB (OctalLimit) that the eleven digits of a
\* size field can say: set_octal drops the digits above them.
ArchiveReadable ==
  dl = "complete" =>
    LET names == [i \in DOMAIN Members(tar) |-> Members(tar)[i][1]]
    IN  \E listed \in SUBSET DOMAIN sizes : names = Sorted(listed)

\* archive.h:14 "Streams a directory": a file that was listed, that could be
\* read and that no upload has written to since is in the archive as it is.
UntouchedExact ==
  dl = "complete" =>
    \A p \in DOMAIN sizes \ touched :
      <<p, [i \in DOMAIN disk[p] |-> <<"data", disk[p][i]>>]>> \in ToSet(Members(tar))
=============================================================================
