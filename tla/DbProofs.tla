------------------------------ MODULE DbProofs ------------------------------
(***************************************************************************)
(* What the server keeps in its database files (server/db.cxx).  The       *)
(* session log, for every set of sessions and every length of the log: no  *)
(* duplicates, no forgotten rows, no session listed without a directory.   *)
(* The token store and the HTTP side that reads it, for every set of       *)
(* tokens, every number of tools and runs, all routes of the application   *)
(* and all requests.                                                       *)
(***************************************************************************)
EXTENDS SessionLog, HttpApi, Integers, SequenceTheorems, WellFoundedInduction, TLAPS

-----------------------------------------------------------------------------
(* The session log: the inductive invariant, part by part. *)

Form  == {"full", "bare", "cut"}
Piece == [id : Session, form : Form]

\* Every variable of the log, of the server and of its disk has its type.
LogTypeOK ==
  /\ file \in Seq(Piece)
  /\ logged \in SUBSET Session /\ sinks_ \in SUBSET Session
  /\ dir \in SUBSET Session /\ removed \in SUBSET Session
  /\ pc \in {"down", "idle", "record", "sync"} /\ sid \in Session
  /\ recorded \in SUBSET Session /\ unread \in BOOLEAN

\* Between write() and fsync() the file ends with the row of the session at hand.
SyncAt == pc = "sync" => /\ Len(file) > 0
                         /\ file[Len(file)] = [id |-> sid, form |-> "full"]

\* A piece that begins a line.
Begins(i) == i > 1 => file[i - 1].form = "full"

\* A running server knows every session whose row stands in a line of its own,
\* newline included, whatever was torn around it.
InOwnLine(i) == file[i].form = "full" /\ (i > 1 => file[i - 1].form = "full")
OwnLinesKnown ==
  pc # "down" /\ ~unread =>
    \A i \in DOMAIN file :
      InOwnLine(i) => file[i].id \in logged \/ (pc = "sync" /\ i = Len(file))

\* A session recorded or known has a whole row, other than the one being synced.
RowOf(s, i) == file[i].id = s /\ file[i].form # "cut" /\ (pc = "sync" => i # Len(file))
HasRow == \A s \in recorded \cup logged : \E i \in 1 .. Len(file) : RowOf(s, i)

\* A whole row at the beginning of a line repeats no row before it that stands in
\* a line of its own, whether or not its newline has been, or will be, written:
\* this is more than NoDuplicates, since the rows that lost their newline count too.
Distinct == ~unread =>
  \A i, j \in 1 .. Len(file) :
    i < j /\ InOwnLine(i) /\ Begins(j) /\ file[j].form # "cut"
      => file[i].id # file[j].id

\* The sessions of all pieces, and the one being recorded, have had directories.
HadDirectory ==
  /\ \A i \in 1 .. Len(file) : file[i].id \in dir \cup removed
  /\ sinks_ \subseteq dir \cup removed
  /\ pc \in {"record", "sync"} => sid \in dir \cup removed

LogInv == LogTypeOK /\ SyncAt /\ OwnLinesKnown /\ HasRow /\ Distinct /\ HadDirectory

-----------------------------------------------------------------------------
(* The invariant is inductive. *)

LEMMA LogStart == LogInit => LogInv
<1> SUFFICES ASSUME LogInit PROVE LogInv
  OBVIOUS
<1>1. file \in Seq(Piece) /\ Len(file) = 0 /\ DOMAIN file = {}
  BY DEF LogInit
<1>2. unread \in BOOLEAN
  BY DEF LogInit
<1> QED BY <1>1, <1>2 DEF LogInit, LogInv, LogTypeOK, SyncAt, OwnLinesKnown, HasRow, Distinct,
   HadDirectory

\* A piece at the end of the file changes nothing about the pieces before it.
LEMMA Appended ==
  ASSUME LogInv, NEW form \in Form,
         file' = Append(file, [id |-> sid, form |-> form])
  PROVE  /\ file' \in Seq(Piece) /\ Len(file') = Len(file) + 1 /\ Len(file) \in Nat
         /\ file'[Len(file) + 1] = [id |-> sid, form |-> form]
         /\ \A i \in 1 .. Len(file) : file'[i] = file[i]
         /\ \A i \in 1 .. Len(file) : InOwnLine(i)' <=> InOwnLine(i)
         /\ \A i \in 1 .. Len(file) : Begins(i)' <=> Begins(i)
<1>1. [id |-> sid, form |-> form] \in Piece
  BY DEF LogInv, LogTypeOK, Piece
<1>2. /\ file' \in Seq(Piece) /\ Len(file') = Len(file) + 1 /\ Len(file) \in Nat
      /\ file'[Len(file) + 1] = [id |-> sid, form |-> form]
      /\ \A i \in 1 .. Len(file) : file'[i] = file[i]
  BY <1>1 DEF LogInv, LogTypeOK
<1> QED BY <1>2 DEF InOwnLine, Begins

\* append() of a session that is not known repeats no row: the known ones
\* include every row in a line of its own.
LEMMA AppendedDistinct ==
  ASSUME LogInv, NEW form \in Form, unread' = unread,
         file' = Append(file, [id |-> sid, form |-> form]),
         pc = "record", sid \notin logged
  PROVE  Distinct'
<1> SUFFICES ASSUME ~unread, NEW i \in 1 .. Len(file'), NEW j \in 1 .. Len(file'),
                    i < j, InOwnLine(i)', Begins(j)', file'[j].form # "cut"
             PROVE  file'[i].id # file'[j].id
  BY DEF Distinct
<1>1. i \in 1 .. Len(file) /\ file'[i] = file[i] /\ InOwnLine(i)
  BY Appended
<1>2. CASE j = Len(file) + 1
  <2>1. file[i].id \in logged
    BY <1>1 DEF LogInv, LogTypeOK, OwnLinesKnown
  <2>2. file'[j].id = sid
    BY <1>2, Appended
  <2> QED BY <1>1, <2>1, <2>2
<1>3. CASE j # Len(file) + 1
  <2>1. j \in 1 .. Len(file) /\ file'[j] = file[j] /\ Begins(j)
    BY <1>3, Appended
  <2> QED BY <1>1, <2>1 DEF LogInv, Distinct
<1> QED BY <1>2, <1>3

\* The rows of the known sessions stay where they are as long as nothing is being
\* synced that was not.
LEMMA RowsStay ==
  ASSUME LogInv, UNCHANGED <<file, logged, recorded>>, pc' = "sync" => pc = "sync"
  PROVE  HasRow'
BY DEF LogInv, HasRow, RowOf

LEMMA AppendedRows ==
  ASSUME LogInv, NEW form \in Form, UNCHANGED <<logged, recorded>>,
         file' = Append(file, [id |-> sid, form |-> form])
  PROVE  HasRow'
<1> SUFFICES ASSUME NEW s \in recorded \cup logged
             PROVE  \E i \in 1 .. Len(file') : RowOf(s, i)'
  BY DEF HasRow
<1>1. PICK i \in 1 .. Len(file) : RowOf(s, i)
  BY DEF LogInv, HasRow
<1>2. PICK n : n = Len(file)
  OBVIOUS
<1>3. n \in Nat /\ Len(file') = n + 1 /\ file'[i] = file[i]
  BY <1>1, <1>2, Appended
<1>4. i \in 1 .. Len(file') /\ i # Len(file')
  BY <1>1, <1>2, <1>3
<1> QED BY <1>1, <1>3, <1>4 DEF RowOf

LEMMA LogStep == LogInv /\ [LogNext]_logvars => LogInv'
<1> SUFFICES ASSUME LogInv, [LogNext]_logvars PROVE LogInv'
  OBVIOUS
<1> USE DEF store, roots, hist
<1>1. CASE Start
  <2>1. UNCHANGED <<file, dir, sinks_, removed, sid, recorded>> /\ pc = "down" /\ pc' = "idle"
    BY <1>1 DEF Start
  <2>2. \/ logged' = Listed(file) /\ unread' = unread
        \/ logged' = {} /\ unread' = TRUE
    BY <1>1 DEF Start, Preload
  <2>3. \A i \in DOMAIN file : InOwnLine(i) => file[i].id \in Listed(file)
    BY DEF InOwnLine, Listed, Rows, IsLine
  <2>4. Listed(file) \subseteq Session
    <3>1. \A i \in DOMAIN file : file[i] \in Piece
      BY DEF LogInv, LogTypeOK
    <3> QED BY <3>1 DEF Listed, Rows, Piece
  <2>5. LogTypeOK'
    BY <2>1, <2>2, <2>4 DEF LogInv, LogTypeOK
  <2>6. OwnLinesKnown'
    BY <2>1, <2>2, <2>3 DEF OwnLinesKnown, InOwnLine
  <2>7. Distinct'
    BY <2>1, <2>2 DEF LogInv, Distinct, InOwnLine, Begins
  <2>8. HasRow'
    <3>1. \A s \in Listed(file) : \E i \in 1 .. Len(file) : file[i].id = s /\ file[i].form # "cut"
      BY DEF LogInv, LogTypeOK, Listed, Rows, IsLine
    <3>2. \A s \in recorded : \E i \in 1 .. Len(file) : file[i].id = s /\ file[i].form # "cut"
      BY DEF LogInv, HasRow, RowOf
    <3> QED BY <2>1, <2>2, <3>1, <3>2 DEF HasRow, RowOf
  <2> QED BY <2>1, <2>5, <2>6, <2>7, <2>8 DEF LogInv, SyncAt, HadDirectory
<1>2. ASSUME NEW s \in Session, get_or_create_sink(s) PROVE LogInv'
  <2>1. UNCHANGED <<file, logged, removed, recorded, unread>> /\ pc = "idle" /\ sid' = s
    BY <1>2 DEF get_or_create_sink
  <2>2. \/ s \in sinks_ /\ pc' = "record" /\ dir' = dir
        \/ dir' = dir \cup {s} /\ pc' = "record"
        \/ dir' = dir /\ pc' = "idle"
    BY <1>2 DEF get_or_create_sink, Made
  <2>3. sinks_' = IF pc' = "record" THEN sinks_ \cup {s} ELSE sinks_
    BY <1>2 DEF get_or_create_sink
  <2>4. LogTypeOK'
    BY <2>1, <2>2, <2>3 DEF LogInv, LogTypeOK
  <2>5. HadDirectory'
    BY <2>1, <2>2, <2>3 DEF LogInv, HadDirectory
  <2>6. OwnLinesKnown' /\ Distinct' /\ SyncAt'
    BY <2>1, <2>2 DEF LogInv, OwnLinesKnown, Distinct, SyncAt, InOwnLine, Begins
  <2>7. HasRow'
    BY <2>1, <2>2, RowsStay
  <2> QED BY <2>4, <2>5, <2>6, <2>7 DEF LogInv
<1>3. CASE NotRecorded
  <2>1. HasRow'
    BY <1>3, RowsStay DEF NotRecorded
  <2> QED BY <1>3, <2>1 DEF NotRecorded, LogInv, LogTypeOK, SyncAt, OwnLinesKnown, Distinct,
     HadDirectory, InOwnLine, Begins
<1>4. CASE Append1
  <2>1. /\ pc = "record" /\ sid \notin logged /\ pc' = "sync"
        /\ file' = Append(file, [id |-> sid, form |-> "full"])
        /\ UNCHANGED <<logged, dir, sinks_, removed, sid, recorded, unread>>
    BY <1>4 DEF Append1
  <2>2. "full" \in Form
    BY DEF Form
  <2>3. Distinct'
    BY <2>1, <2>2, AppendedDistinct
  <2>4. LogTypeOK' /\ SyncAt'
    BY <2>1, <2>2, Appended DEF LogInv, LogTypeOK, SyncAt
  <2>5. OwnLinesKnown'
    BY <2>1, <2>2, <2>4, Appended DEF LogInv, LogTypeOK, OwnLinesKnown
  <2>6. HadDirectory'
    BY <2>1, <2>2, Appended DEF LogInv, HadDirectory
  <2>7. HasRow'
    BY <2>1, <2>2, AppendedRows
  <2> QED BY <2>3, <2>4, <2>5, <2>6, <2>7 DEF LogInv
<1>5. CASE AppendShort
  <2>1. PICK form \in {"bare", "cut"} : file' = Append(file, [id |-> sid, form |-> form])
    BY <1>5 DEF AppendShort
  <2>2. /\ pc = "record" /\ sid \notin logged /\ pc' = "idle"
        /\ UNCHANGED <<logged, dir, sinks_, removed, sid, recorded, unread>>
    BY <1>5 DEF AppendShort
  <2>3. form \in Form /\ form # "full"
    BY DEF Form
  <2>4. Distinct'
    BY <2>1, <2>2, <2>3, AppendedDistinct
  <2>5. LogTypeOK' /\ SyncAt'
    BY <2>1, <2>2, <2>3, Appended DEF LogInv, LogTypeOK, SyncAt
  <2>6. \A i : i = Len(file) + 1 => ~InOwnLine(i)'
    BY <2>1, <2>3, Appended DEF InOwnLine
  <2>7. OwnLinesKnown'
    <3> SUFFICES ASSUME ~unread, NEW i \in 1 .. Len(file'), InOwnLine(i)'
                 PROVE  file'[i].id \in logged
      BY <2>2, <2>5 DEF LogTypeOK, OwnLinesKnown
    <3>1. i # Len(file) + 1
      BY <2>6
    <3>2. Len(file') = Len(file) + 1 /\ Len(file) \in Nat
      BY <2>1, <2>3, Appended
    <3>3. i \in 1 .. Len(file)
      BY <3>1, <3>2
    <3>4. file'[i] = file[i] /\ InOwnLine(i)
      BY <2>1, <2>3, <3>3, Appended
    <3> QED BY <2>2, <3>3, <3>4 DEF LogInv, LogTypeOK, OwnLinesKnown
  <2>8. HadDirectory'
    BY <2>1, <2>2, <2>3, Appended DEF LogInv, HadDirectory
  <2>9. HasRow'
    BY <2>1, <2>2, <2>3, AppendedRows
  <2> QED BY <2>4, <2>5, <2>7, <2>8, <2>9 DEF LogInv
<1>6. CASE Synced
  <2>1. /\ pc = "sync" /\ pc' = "idle" /\ logged' = logged \cup {sid}
        /\ recorded' = recorded \cup {sid} /\ UNCHANGED <<file, dir, sinks_, removed, sid, unread>>
    BY <1>6 DEF Synced
  <2>2. file[Len(file)].id = sid
    BY <2>1 DEF LogInv, SyncAt
  <2>3. OwnLinesKnown'
    BY <2>1, <2>2 DEF LogInv, OwnLinesKnown, InOwnLine
  <2>4. HasRow'
    <3>1. \A s \in recorded \cup logged :
            \E i \in 1 .. Len(file) : file[i].id = s /\ file[i].form # "cut"
      BY DEF LogInv, HasRow, RowOf
    <3>2. \E i \in 1 .. Len(file) : file[i].id = sid /\ file[i].form # "cut"
      <4>1. Len(file) \in 1 .. Len(file) /\ file[Len(file)] = [id |-> sid, form |-> "full"]
        BY <2>1 DEF LogInv, LogTypeOK, SyncAt
      <4> QED BY <4>1
    <3> QED BY <2>1, <3>1, <3>2 DEF HasRow, RowOf
  <2> QED BY <2>1, <2>3, <2>4 DEF LogInv, LogTypeOK, SyncAt, Distinct, HadDirectory, InOwnLine,
     Begins
<1>7. CASE Stop
  <2>1. LogTypeOK'
    BY <1>7 DEF Stop, LogInv, LogTypeOK
  <2>2. HasRow'
    BY <1>7 DEF Stop, LogInv, HasRow, RowOf
  <2> QED BY <1>7, <2>1, <2>2 DEF Stop, LogInv, SyncAt, OwnLinesKnown, Distinct, HadDirectory,
     InOwnLine, Begins
<1>8. CASE LogCrash
  <2>1. /\ pc' = "down" /\ logged' = {} /\ sinks_' = {} /\ UNCHANGED <<sid, recorded, unread>>
        /\ dir' \in SUBSET dir /\ dir' \cup removed' = dir \cup removed
        /\ removed' \subseteq dir \cup removed
    BY <1>8 DEF LogCrash
  <2>2. /\ file' \in Seq(Piece) /\ Len(file') \in Nat /\ Len(file') <= Len(file)
        /\ \A i \in 1 .. Len(file') : /\ file'[i].id = file[i].id
                                      /\ file'[i].form # "cut" => file[i].form # "cut"
                                      /\ file'[i].form = "full" => file[i].form = "full"
    <3>1. CASE file' = file
      BY <3>1 DEF LogInv, LogTypeOK
    <3>2. ASSUME pc = "sync", NEW form \in {"bare", "cut"},
                 file' = [file EXCEPT ![Len(file)].form = form]
          PROVE  <2>2
      <4>1. Len(file) \in 1 .. Len(file) /\ file \in Seq(Piece)
        BY <3>2 DEF LogInv, LogTypeOK, SyncAt
      <4>2. [file[Len(file)] EXCEPT !.form = form] = [id |-> sid, form |-> form]
        BY <3>2 DEF LogInv, SyncAt
      <4>3. [id |-> sid, form |-> form] \in Piece
        BY DEF LogInv, LogTypeOK, Piece, Form
      <4>4. /\ file' \in Seq(Piece) /\ Len(file') = Len(file)
            /\ file'[Len(file)] = [id |-> sid, form |-> form]
            /\ \A i \in 1 .. Len(file) : i # Len(file) => file'[i] = file[i]
        BY <3>2, <4>1, <4>2, <4>3
      <4>5. file[Len(file)] = [id |-> sid, form |-> "full"]
        BY <3>2 DEF LogInv, SyncAt
      <4> QED BY <4>1, <4>4, <4>5
    <3>3. CASE pc = "sync" /\ file' = SubSeq(file, 1, Len(file) - 1)
      <4>1. Len(file) \in 1 .. Len(file) /\ file \in Seq(Piece)
        BY <3>3 DEF LogInv, LogTypeOK, SyncAt
      <4>2. /\ file' \in Seq(Piece) /\ Len(file') = Len(file) - 1
            /\ \A i \in 1 .. Len(file) - 1 : file'[i] = file[i]
        <5>1. Len(file) - 1 \in Int /\ \A i \in 1 .. Len(file) - 1 : file[i] \in Piece
          BY <4>1
        <5> DEFINE n == Len(file) - 1
        <5>2. n \in Nat
          BY <4>1
        <5>3. /\ file' \in Seq(Piece)
              /\ Len(file') = IF 1 <= n THEN n - 1 + 1 ELSE 0
              /\ \A i \in 1 .. n - 1 + 1 : file'[i] = file[1 + i - 1]
          BY <3>3, <5>1, SubSeqProperties
        <5> HIDE DEF n
        <5>4. Len(file') = n /\ \A i \in 1 .. n : file'[i] = file[i]
          BY <5>2, <5>3
        <5> QED BY <5>3, <5>4 DEF n
      <4> QED BY <4>1, <4>2
    <3> QED BY <1>8, <3>1, <3>2, <3>3 DEF LogCrash
  <2>3. Distinct'
    <3> SUFFICES ASSUME ~unread, NEW i \in 1 .. Len(file'), NEW j \in 1 .. Len(file'),
                        i < j, InOwnLine(i)', Begins(j)', file'[j].form # "cut"
                 PROVE  file'[i].id # file'[j].id
      BY <2>1 DEF Distinct
    <3>1. i \in 1 .. Len(file) /\ j \in 1 .. Len(file)
      BY <2>2 DEF LogInv, LogTypeOK
    <3>2. InOwnLine(i) /\ Begins(j)
      BY <2>2 DEF InOwnLine, Begins
    <3> QED BY <2>2, <3>1, <3>2 DEF LogInv, Distinct
  <2>4. HadDirectory'
    BY <2>1, <2>2 DEF LogInv, LogTypeOK, HadDirectory
  <2>5. LogTypeOK'
    BY <2>1, <2>2 DEF LogInv, LogTypeOK
  <2>6. \A i \in 1 .. Len(file) :
          (pc = "sync" => i # Len(file)) => i \in 1 .. Len(file') /\ file'[i] = file[i]
    <3>1. CASE file' = file
      BY <3>1
    <3>2. ASSUME pc = "sync", NEW form \in {"bare", "cut"},
                 file' = [file EXCEPT ![Len(file)].form = form]
          PROVE  <2>6
      BY <3>2 DEF LogInv, LogTypeOK
    <3>3. CASE pc = "sync" /\ file' = SubSeq(file, 1, Len(file) - 1)
      <4>1. PICK n : n = Len(file)
        OBVIOUS
      <4>2. n \in Nat /\ n > 0 /\ file \in Seq(Piece)
        BY <3>3, <4>1 DEF LogInv, LogTypeOK, SyncAt
      <4>3. \A i \in 1 .. n - 1 : file[i] \in Piece
        BY <4>1, <4>2
      <4>4. /\ Len(file') = IF 1 <= n - 1 THEN n - 1 - 1 + 1 ELSE 0
            /\ \A i \in 1 .. n - 1 - 1 + 1 : file'[i] = file[1 + i - 1]
        BY <3>3, <4>1, <4>2, <4>3, SubSeqProperties
      <4>5. Len(file') = n - 1 /\ \A i \in 1 .. n - 1 : file'[i] = file[i]
        BY <4>2, <4>4
      <4>6. \A i \in 1 .. n : i # n => i \in 1 .. n - 1
        BY <4>2
      <4> QED BY <3>3, <4>1, <4>5, <4>6
    <3> QED BY <1>8, <3>1, <3>2, <3>3 DEF LogCrash
  <2>7. HasRow'
    BY <2>1, <2>6 DEF LogInv, HasRow, RowOf
  <2> QED BY <2>1, <2>3, <2>4, <2>5, <2>7 DEF LogInv, SyncAt, OwnLinesKnown
<1>9. ASSUME NEW s \in Session, RemoveDirectory(s) PROVE LogInv'
  <2>1. /\ UNCHANGED <<file, logged, sinks_, pc, sid, recorded, unread>> /\ s \in dir
        /\ dir' = dir \ {s} /\ removed' = removed \cup {s}
    BY <1>9 DEF RemoveDirectory
  <2>2. LogTypeOK' /\ HadDirectory'
    BY <2>1 DEF LogInv, LogTypeOK, HadDirectory
  <2>3. HasRow'
    BY <2>1, RowsStay
  <2> QED BY <2>1, <2>2, <2>3 DEF LogInv, SyncAt, OwnLinesKnown, Distinct, InOwnLine, Begins
<1>10. CASE UNCHANGED logvars
  <2>1. HasRow'
    BY <1>10, RowsStay DEF logvars
  <2> QED BY <1>10, <2>1 DEF logvars, LogInv, LogTypeOK, SyncAt, OwnLinesKnown, Distinct,
     HadDirectory, InOwnLine, Begins
<1> QED
  BY <1>1, <1>2, <1>3, <1>4, <1>5, <1>6, <1>7, <1>8, <1>9, <1>10 DEF LogNext

-----------------------------------------------------------------------------
(* Results. *)

\* db.cxx:330-398, server.cxx:39-44 - whatever short writes, restarts and crashes
\* come between, no session has two rows that decode.
THEOREM LogNoDuplicates == LogSpec => []NoDuplicates
<1>1. LogInv => NoDuplicates
  <2> SUFFICES ASSUME LogInv, ~unread, NEW i \in Rows(file), NEW j \in Rows(file),
                      i < j
               PROVE  file[i].id # file[j].id
    <3>1. Rows(file) \subseteq Nat
      BY DEF LogInv, LogTypeOK, Rows
    <3> QED BY <3>1 DEF NoDuplicates
  <2>1. i \in 1 .. Len(file) /\ j \in 1 .. Len(file) /\ IsLine(file, i) /\ IsLine(file, j)
    BY DEF LogInv, LogTypeOK, Rows
  <2>2. InOwnLine(i) /\ Begins(j) /\ file[j].form # "cut"
    BY <2>1 DEF LogInv, LogTypeOK, IsLine, InOwnLine, Begins
  <2> QED BY <2>1, <2>2 DEF LogInv, Distinct
<1> QED BY <1>1, LogStart, LogStep, PTL DEF LogSpec

\* db.h:35-38, db.cxx:330-398 - a session whose append() succeeded stays listed,
\* unless its row touches a torn one: what a torn row costs is the row itself and
\* the one after it.
THEOREM LogRecordedListed == LogSpec => []RecordedListed
<1>1. LogInv => RecordedListed
  <2> SUFFICES ASSUME LogInv, NEW s \in recorded \cup logged, s \notin Listed(file)
               PROVE  \E i \in DOMAIN file :
                        file[i].id = s /\ file[i].form # "cut" /\ Spoilt(file, i)
    BY DEF RecordedListed
  <2>1. PICK i \in 1 .. Len(file) : RowOf(s, i)
    BY DEF LogInv, HasRow
  <2>2. i \in DOMAIN file /\ file[i].id = s /\ file[i].form # "cut"
    BY <2>1 DEF LogInv, LogTypeOK, RowOf
  <2>3. ~IsLine(file, i)
    BY <2>2 DEF Listed, Rows
  <2> QED BY <2>2, <2>3 DEF IsLine, Spoilt
<1> QED BY <1>1, LogStart, LogStep, PTL DEF LogSpec

\* controllers/uploads.cxx:33-34 - a listed session has had its directory.
THEOREM LogListedHadDirectory == LogSpec => []ListedHadDirectory
<1>1. LogInv => ListedHadDirectory
  BY DEF LogInv, LogTypeOK, HadDirectory, ListedHadDirectory, Listed, Rows
<1> QED BY <1>1, LogStart, LogStep, PTL DEF LogSpec

-----------------------------------------------------------------------------
(* The token store: the inductive invariant, part by part. *)

Content   == [tokens : SUBSET Token, synced : BOOLEAN]
ToolState == [pc : {"idle", "fsync", "rename", "dirsync"}, op : {"add", "del"},
              tok : Token \cup {NoToken}, tmp : Content]

\* Every variable of the store and of the tools has its type.
TypeOK == /\ live \in Content /\ durable \in SUBSET Content
          /\ tool \in [Tool -> ToolState]
          /\ runs \in Nat
          /\ acked \in [Token -> {"yes", "no", "maybe"}]
          /\ soft \in SUBSET Token /\ unsure \in BOOLEAN

\* What has been renamed to the token file had been synced.
Whole == live.synced /\ \A f \in durable : f.synced

ToolAt == \A t \in Tool : /\ tool[t].pc = "idle" => tool[t] = Idle
                          /\ tool[t].pc # "idle" => tool[t].tok \in Token
                          /\ tool[t].pc = "rename" => tool[t].tmp.synced

\* The tools are run one after the other.
OneTool == ~unsure => \A t, u \in Tool : tool[t] # Idle /\ tool[u] # Idle => t = u

\* A command under way promises nothing about its token; its temporary file is
\* the store with its change, and once renamed the store has the change.
UnderWay == ~unsure =>
  \A t \in Tool :
    /\ tool[t].pc # "idle" => acked[tool[t].tok] = "maybe"
    /\ tool[t].pc \in {"fsync", "rename"} =>
         tool[t].tmp.tokens = Changed(tool[t].op, tool[t].tok, live.tokens)
    /\ tool[t].pc = "dirsync" => (tool[t].tok \in live.tokens <=> tool[t].op = "add")

\* What was promised holds of the file, and of every file a crash may leave unless
\* the promise is a soft one.
Kept(f, k) == /\ acked[k] = "yes" => k \in f.tokens
              /\ acked[k] = "no" => k \notin f.tokens
AllKept == ~unsure => \A k \in Token : /\ Kept(live, k)
                                       /\ k \notin soft => \A f \in durable : Kept(f, k)

StoreInv == TypeOK /\ Whole /\ ToolAt /\ OneTool /\ UnderWay /\ AllKept

-----------------------------------------------------------------------------
(* The token store: the invariant is inductive. *)

LEMMA EmptyContent == Empty \in Content /\ Empty.synced /\ Empty.tokens = {}
  BY DEF Empty, Content

LEMMA IdleState == Idle \in ToolState /\ Idle.pc = "idle" /\ Idle.tmp = Empty
  BY EmptyContent DEF Idle, ToolState

LEMMA StoreInit == Init => StoreInv
<1> SUFFICES ASSUME Init PROVE StoreInv
  OBVIOUS
<1>1. unsure \in BOOLEAN
  BY DEF Init
<1>2. TypeOK
  BY <1>1, EmptyContent, IdleState DEF Init, TypeOK
<1> QED BY <1>2, EmptyContent, IdleState DEF Init, StoreInv, Whole, ToolAt, OneTool, UnderWay,
     AllKept, Kept

\* A file that holds the tokens of an earlier one, or with a command's change, is
\* a set of tokens and so not Torn.
LEMMA ChangedTokens ==
  ASSUME NEW o, NEW k \in Token, NEW T \in SUBSET Token
  PROVE  Changed(o, k, T) \in SUBSET Token
  BY DEF Changed

LEMMA NotTorn == \A T \in SUBSET Token : T # Torn
  BY NoTokenAssumption DEF Torn

LEMMA LoadStep ==
  ASSUME StoreInv, NEW t \in Tool, NEW o \in {"add", "del"}, NEW k \in Token, Load(t, o, k)
  PROVE  StoreInv'
<1>1. PICK opened \in BOOLEAN :
        LET loaded  == read_file(opened)
            changed == Changed(o, k, loaded)
        IN  /\ unsure' = (unsure \/ ~opened \/ \E other \in Tool : tool[other] # Idle)
            /\ IF loaded = Torn THEN UNCHANGED <<tool, acked, soft>>
               ELSE IF changed = loaded THEN Promise(o, k) /\ Unsynced(o, k) /\ tool' = tool
               ELSE /\ tool' = [tool EXCEPT ![t] =
                                  [pc |-> "fsync", op |-> o, tok |-> k,
                                   tmp |-> [tokens |-> changed, synced |-> FALSE]]]
                    /\ Pending(k) /\ soft' = soft
  BY DEF Load
<1> DEFINE loaded  == read_file(opened)
           changed == Changed(o, k, loaded)
           begun   == [pc |-> "fsync", op |-> o, tok |-> k,
                       tmp |-> [tokens |-> changed, synced |-> FALSE]]
<1>2. /\ tool[t].pc = "idle" /\ tool[t] = Idle /\ runs' = runs + 1 /\ runs' \in Nat
      /\ UNCHANGED <<live, durable>>
  BY DEF Load, StoreInv, TypeOK, ToolAt
<1>3. loaded \in SUBSET Token /\ loaded # Torn /\ changed \in SUBSET Token
  <2>1. loaded \in SUBSET Token
    BY DEF read_file, StoreInv, TypeOK, Content
  <2> QED BY <2>1, NotTorn, ChangedTokens
<1>4. unsure' \in BOOLEAN
  BY <1>1
<1>5. ~unsure' => /\ ~unsure /\ loaded = live.tokens
                  /\ \A other \in Tool : tool[other] = Idle
  BY <1>1, IdleState DEF read_file
<1>6. CASE changed = loaded
  <2>1. tool' = tool /\ Promise(o, k) /\ Unsynced(o, k)
    BY <1>1, <1>3, <1>6
  <2>2. /\ acked' \in [Token -> {"yes", "no", "maybe"}] /\ acked'[k] = Answer(o)
        /\ \A j \in Token : j # k => acked'[j] = acked[j]
        /\ soft' \in SUBSET Token /\ soft \subseteq soft'
    BY <2>1 DEF Promise, Unsynced, Answer, StoreInv, TypeOK
  <2>3. TypeOK' /\ Whole' /\ ToolAt'
    BY <1>2, <1>4, <2>1, <2>2 DEF StoreInv, TypeOK, Whole, ToolAt
  <2>4. OneTool' /\ UnderWay'
    BY <1>2, <1>5, <2>1, IdleState DEF OneTool, UnderWay
  <2>5. AllKept'
    <3> SUFFICES ASSUME ~unsure', NEW j \in Token
                 PROVE  /\ Kept(live, j)'
                        /\ j \notin soft' => \A f \in durable : Kept(f, j)'
      BY <1>2 DEF AllKept
    <3>1. Kept(live, j) /\ (j \notin soft => \A f \in durable : Kept(f, j))
      BY <1>5 DEF StoreInv, AllKept
    <3>2. CASE j # k
      BY <1>2, <2>2, <3>1, <3>2 DEF Kept
    <3>3. CASE j = k
      <4>1. Changed(o, k, live.tokens) = live.tokens
        BY <1>5, <1>6
      <4>2. Kept(live, k)'
        BY <1>2, <2>2, <4>1 DEF Kept, Changed, Answer
      <4>3. CASE durable = {live}
        BY <1>2, <3>3, <4>2, <4>3 DEF Kept
      <4>4. CASE acked[k] = Answer(o)
        BY <1>2, <2>2, <3>1, <3>3, <4>2, <4>4 DEF Kept
      <4>5. CASE durable # {live} /\ acked[k] # Answer(o)
        BY <2>1, <3>3, <4>2, <4>5 DEF Unsynced
      <4> QED BY <4>3, <4>4, <4>5
    <3> QED BY <3>2, <3>3
  <2> QED BY <2>3, <2>4, <2>5 DEF StoreInv
<1>7. CASE changed # loaded
  <2>1. tool' = [tool EXCEPT ![t] = begun] /\ Pending(k) /\ soft' = soft
    BY <1>1, <1>3, <1>7
  <2>2. begun \in ToolState
    BY <1>3 DEF ToolState, Content
  <2>3. TypeOK' /\ Whole'
    BY <1>2, <1>4, <2>1, <2>2 DEF Pending, StoreInv, TypeOK, Whole
  <2>4. /\ tool'[t] = begun
        /\ \A u \in Tool : u # t => tool'[u] = tool[u]
        /\ acked'[k] = "maybe" /\ \A j \in Token : j # k => acked'[j] = acked[j]
    BY <2>1 DEF Pending, StoreInv, TypeOK
  <2>5. ToolAt'
    BY <2>4 DEF StoreInv, ToolAt
  <2>6. OneTool'
    BY <1>5, <2>4 DEF OneTool
  <2>7. UnderWay'
    BY <1>2, <1>5, <2>4, IdleState DEF UnderWay
  <2>8. AllKept'
    <3> SUFFICES ASSUME ~unsure', NEW j \in Token
                 PROVE  /\ Kept(live, j)'
                        /\ j \notin soft => \A f \in durable : Kept(f, j)'
      BY <1>2, <2>1 DEF AllKept
    <3>1. Kept(live, j) /\ (j \notin soft => \A f \in durable : Kept(f, j))
      BY <1>5 DEF StoreInv, AllKept
    <3> QED BY <1>2, <2>4, <3>1 DEF Kept
  <2> QED BY <2>3, <2>5, <2>6, <2>7, <2>8 DEF StoreInv
<1> QED BY <1>6, <1>7

LEMMA FsyncStep ==
  ASSUME StoreInv, NEW t \in Tool, Fsync(t)
  PROVE  StoreInv'
<1>1. /\ tool[t].pc = "fsync" /\ UNCHANGED <<live, durable, runs, acked, soft, unsure>>
      /\ tool' = [tool EXCEPT ![t].pc = "rename", ![t].tmp.synced = TRUE]
  BY DEF Fsync, standing
<1>2. /\ tool'[t].pc = "rename" /\ tool'[t].op = tool[t].op /\ tool'[t].tok = tool[t].tok
      /\ tool'[t].tmp.tokens = tool[t].tmp.tokens /\ tool'[t].tmp.synced
      /\ \A u \in Tool : u # t => tool'[u] = tool[u]
      /\ tool' \in [Tool -> ToolState]
  <2>1. tool[t] \in ToolState /\ tool[t].tmp \in Content /\ tool[t].op \in {"add", "del"}
    BY DEF StoreInv, TypeOK, ToolState
  <2>2. tool'[t] = [pc |-> "rename", op |-> tool[t].op, tok |-> tool[t].tok,
                    tmp |-> [tokens |-> tool[t].tmp.tokens, synced |-> TRUE]]
    BY <1>1, <2>1 DEF StoreInv, TypeOK, ToolState, Content
  <2>3. tool'[t] \in ToolState
    BY <2>1, <2>2 DEF ToolState, Content
  <2>4. \A u \in Tool : u # t => tool'[u] = tool[u]
    BY <1>1 DEF StoreInv, TypeOK
  <2>5. tool' \in [Tool -> ToolState]
    BY <1>1, <2>3, <2>4 DEF StoreInv, TypeOK
  <2> QED BY <2>2, <2>4, <2>5
<1>3. tool[t] # Idle
  BY <1>1, IdleState
<1>4. TypeOK' /\ Whole'
  BY <1>1, <1>2 DEF StoreInv, TypeOK, Whole
<1>5. ToolAt' /\ OneTool'
  BY <1>1, <1>2, <1>3 DEF StoreInv, ToolAt, OneTool
<1>6. UnderWay'
  BY <1>1, <1>2 DEF StoreInv, UnderWay
<1>7. AllKept'
  BY <1>1 DEF StoreInv, AllKept, Kept
<1> QED BY <1>4, <1>5, <1>6, <1>7 DEF StoreInv

\* A tool that fails before the rename, or is killed anywhere, leaves the store,
\* and what a crash may leave of it, as they are.
LEMMA EndedStep ==
  ASSUME StoreInv, NEW t \in Tool, SaveFails(t) \/ Killed(t)
  PROVE  StoreInv'
<1>1. /\ UNCHANGED <<live, durable, runs, acked, soft, unsure>>
      /\ tool'[t] = Idle /\ \A u \in Tool : u # t => tool'[u] = tool[u]
      /\ tool' \in [Tool -> ToolState]
  BY IdleState DEF SaveFails, Killed, StoreInv, TypeOK, standing
<1>2. TypeOK' /\ Whole'
  BY <1>1 DEF StoreInv, TypeOK, Whole
<1>3. ToolAt' /\ OneTool' /\ UnderWay'
  BY <1>1, IdleState DEF StoreInv, ToolAt, OneTool, UnderWay
<1>4. AllKept'
  BY <1>1 DEF StoreInv, AllKept, Kept
<1> QED BY <1>2, <1>3, <1>4 DEF StoreInv

LEMMA RenameStep ==
  ASSUME StoreInv, NEW t \in Tool, Rename(t)
  PROVE  StoreInv'
<1>1. /\ tool[t].pc = "rename" /\ UNCHANGED <<runs, acked, soft, unsure>>
      /\ live' = tool[t].tmp /\ durable' = durable \cup {live'}
      /\ tool' = [tool EXCEPT ![t].pc = "dirsync", ![t].tmp = Empty]
  BY DEF Rename, standing
<1>2. /\ tool'[t].pc = "dirsync" /\ tool'[t].op = tool[t].op /\ tool'[t].tok = tool[t].tok
      /\ \A u \in Tool : u # t => tool'[u] = tool[u]
      /\ tool' \in [Tool -> ToolState]
  <2>1. PICK x : x = [tool[t] EXCEPT !.pc = "dirsync", !.tmp = Empty]
    OBVIOUS
  <2>2. tool[t] \in ToolState /\ tool \in [Tool -> ToolState]
    BY DEF StoreInv, TypeOK
  <2>3. x \in ToolState /\ x.pc = "dirsync" /\ x.op = tool[t].op /\ x.tok = tool[t].tok
    BY <2>1, <2>2, EmptyContent DEF ToolState
  <2>4. tool' = [tool EXCEPT ![t] = x]
    BY <1>1, <2>1, <2>2
  <2> QED BY <2>2, <2>3, <2>4
<1>3. tool[t] # Idle /\ tool[t].tok \in Token /\ tool[t].op \in {"add", "del"}
  BY <1>1, IdleState DEF StoreInv, TypeOK, ToolState, ToolAt
<1>4. live' \in Content /\ live'.synced
  BY <1>1 DEF StoreInv, TypeOK, ToolState, ToolAt
<1>5. TypeOK' /\ Whole'
  BY <1>1, <1>2, <1>4 DEF StoreInv, TypeOK, Whole
<1>6. ToolAt' /\ OneTool'
  BY <1>1, <1>2, <1>3 DEF StoreInv, ToolAt, OneTool
<1>7. ~unsure => /\ live'.tokens = Changed(tool[t].op, tool[t].tok, live.tokens)
                 /\ acked[tool[t].tok] = "maybe"
                 /\ \A u \in Tool : u # t => tool[u] = Idle
  BY <1>1, <1>3 DEF StoreInv, UnderWay, OneTool
<1>8. UnderWay'
  BY <1>1, <1>2, <1>3, <1>7, IdleState DEF UnderWay, StoreInv, Changed
<1>9. AllKept'
  <2> SUFFICES ASSUME ~unsure, NEW k \in Token
               PROVE  /\ Kept(live, k)'
                      /\ k \notin soft => \A f \in durable' : Kept(f, k)'
    BY <1>1 DEF AllKept
  <2>1. Kept(live, k) /\ (k \notin soft => \A f \in durable : Kept(f, k))
    BY DEF StoreInv, AllKept
  <2>2. Kept(live, k)'
    BY <1>1, <1>7, <2>1 DEF Kept, Changed
  <2> QED BY <1>1, <2>1, <2>2 DEF Kept
<1> QED BY <1>5, <1>6, <1>8, <1>9 DEF StoreInv

LEMMA DirSyncStep ==
  ASSUME StoreInv, NEW t \in Tool, DirSync(t)
  PROVE  StoreInv'
<1>1. /\ tool[t].pc = "dirsync" /\ UNCHANGED <<live, runs, unsure>>
      /\ \/ durable' = {live} /\ soft' = {}
         \/ durable' = durable /\ soft' = soft \cup {tool[t].tok}
      /\ tool' = [tool EXCEPT ![t] = Idle] /\ Promise(tool[t].op, tool[t].tok)
  BY DEF DirSync
<1>2. /\ tool'[t] = Idle /\ \A u \in Tool : u # t => tool'[u] = tool[u]
      /\ tool' \in [Tool -> ToolState]
  BY <1>1, IdleState DEF StoreInv, TypeOK
<1>3. tool[t] # Idle /\ tool[t].tok \in Token /\ tool[t].op \in {"add", "del"}
  BY <1>1, IdleState DEF StoreInv, TypeOK, ToolState, ToolAt
<1>4. /\ acked' \in [Token -> {"yes", "no", "maybe"}]
      /\ acked'[tool[t].tok] = IF tool[t].op = "add" THEN "yes" ELSE "no"
      /\ \A k \in Token : k # tool[t].tok => acked'[k] = acked[k]
  BY <1>1, <1>3 DEF Promise, Answer, StoreInv, TypeOK
<1>5. durable' \in SUBSET Content /\ soft' \in SUBSET Token
  BY <1>1, <1>3 DEF StoreInv, TypeOK
<1>6. TypeOK' /\ Whole'
  BY <1>1, <1>2, <1>4, <1>5 DEF StoreInv, TypeOK, Whole
<1>7. ToolAt'
  BY <1>2, IdleState DEF StoreInv, ToolAt
<1>8. ~unsure => /\ \A u \in Tool : tool'[u] = Idle
                 /\ tool[t].tok \in live.tokens <=> tool[t].op = "add"
  BY <1>1, <1>2, <1>3 DEF StoreInv, OneTool, UnderWay
<1>9. OneTool' /\ UnderWay'
  BY <1>1, <1>8, IdleState DEF OneTool, UnderWay
<1>10. AllKept'
  <2> SUFFICES ASSUME ~unsure, NEW k \in Token
               PROVE  /\ Kept(live, k)'
                      /\ k \notin soft' => \A f \in durable' : Kept(f, k)'
    BY <1>1 DEF AllKept
  <2>1. Kept(live, k) /\ (k \notin soft => \A f \in durable : Kept(f, k))
    BY DEF StoreInv, AllKept
  <2>2. Kept(live, k)'
    BY <1>1, <1>4, <1>8, <2>1 DEF Kept
  <2>3. CASE durable' = {live}
    BY <1>1, <2>2, <2>3 DEF Kept
  <2>4. CASE durable' = durable /\ soft' = soft \cup {tool[t].tok}
    BY <1>4, <2>1, <2>2, <2>4 DEF Kept
  <2> QED BY <1>1, <2>3, <2>4
<1> QED BY <1>6, <1>7, <1>9, <1>10 DEF StoreInv

\* Nothing that was renamed to the token file is torn by a crash.
LEMMA CrashStep ==
  ASSUME StoreInv, Crash
  PROVE  StoreInv'
<1>1. PICK f \in durable :
        live' \in {[f EXCEPT !.synced = TRUE]}
                  \cup (IF f.synced THEN {} ELSE [tokens : {Torn, {}}, synced : {TRUE}])
  BY DEF Crash
<1>2. f \in Content /\ f.synced = TRUE
  BY DEF StoreInv, TypeOK, Whole, Content
<1>3. live' = f
  BY <1>1, <1>2 DEF Content
<1>4. /\ durable' = {live'} /\ UNCHANGED <<runs, unsure>> /\ tool' = [u \in Tool |-> Idle]
      /\ soft' = {} /\ acked' = [k \in Token |-> IF k \in soft THEN "maybe" ELSE acked[k]]
  BY DEF Crash
<1>5. TypeOK' /\ Whole'
  BY <1>2, <1>3, <1>4, IdleState DEF StoreInv, TypeOK, Whole
<1>6. ToolAt' /\ OneTool' /\ UnderWay'
  BY <1>4, IdleState DEF ToolAt, OneTool, UnderWay
<1>7. AllKept'
  <2> SUFFICES ASSUME ~unsure, NEW k \in Token PROVE Kept(live, k)'
    BY <1>4 DEF AllKept, Kept
  <2>1. k \notin soft => Kept(f, k)
    BY DEF StoreInv, AllKept
  <2> QED BY <1>3, <1>4, <2>1 DEF Kept
<1> QED BY <1>5, <1>6, <1>7 DEF StoreInv

LEMMA StoreStep == StoreInv /\ [Next]_vars => StoreInv'
<1> SUFFICES ASSUME StoreInv, [Next]_vars PROVE StoreInv'
  OBVIOUS
<1>1. CASE ToolStep
  BY <1>1, LoadStep, FsyncStep, EndedStep, RenameStep, DirSyncStep DEF ToolStep
<1>2. CASE Crash
  BY <1>2, CrashStep
<1>3. CASE UNCHANGED vars
  BY <1>3 DEF vars, standing, StoreInv, TypeOK, Whole, ToolAt, OneTool, UnderWay, AllKept, Kept
<1> QED BY <1>1, <1>2, <1>3 DEF Next

-----------------------------------------------------------------------------
(* Routing. *)

\* The routes in the order of search, and the first of them that takes a request.
Table == UserRoutes \o builtins
Route == Range(UserRoutes) \cup Range(builtins) \cup {NoRoute}
TakenBy(route, q) == path_matches(route, q.path) /\ route.method = q.method
Takes(q) == \E i \in DOMAIN Table : TakenBy(Table[i], q)
FirstAt(i, q) == /\ TakenBy(Table[i], q)
                 /\ \A j \in DOMAIN Table : TakenBy(Table[j], q) => i <= j
KnownPath(q) == \E i \in DOMAIN Table : path_matches(Table[i], q.path)

\* A protected endpoint is behind require_auth, and every route has a handler.
Guarded(route) == /\ route.handler # "none"
                  /\ route.handler \in Protected => Len(route.middleware) = 1

LEMMA LeastIndex ==
  ASSUME NEW S \in SUBSET Nat, S # {}
  PROVE  \E i \in S : \A j \in S : i <= j
<1> DEFINE R == OpToRel(<, Nat)
<1>1. IsWellFoundedOn(R, Nat)
  BY NatLessThanWellFounded
<1>2. \A i, j \in Nat : <<i, j>> \in R <=> i < j
  BY DEF OpToRel
<1> HIDE DEF R
<1>3. PICK i \in S : \A j \in S : ~ (<<j, i>> \in R)
  BY <1>1, WFMin
<1>4. ASSUME NEW j \in S PROVE i <= j
  <2>1. ~ (j < i) /\ i \in Nat /\ j \in Nat
    BY <1>2, <1>3
  <2> QED BY <2>1
<1> QED BY <1>4

\* find() answers with the first route of the table that takes the request, and
\* with none only when there is none.
LEMMA FindRoute ==
  ASSUME NEW routes \in Seq(Route), NEW q
  PROVE  /\ \A route \in find(routes, q) :
              \E i \in DOMAIN routes :
                /\ route = routes[i] /\ TakenBy(routes[i], q)
                /\ \A j \in DOMAIN routes : TakenBy(routes[j], q) => i <= j
         /\ find(routes, q) # {} <=> \E i \in DOMAIN routes : TakenBy(routes[i], q)
<1> DEFINE takes == {i \in DOMAIN routes : TakenBy(routes[i], q)}
<1>1. find(routes, q) = {routes[i] : i \in {j \in takes : \A k \in takes : j <= k}}
  BY DEF find, TakenBy
<1>2. takes \in SUBSET Nat /\ takes \subseteq DOMAIN routes
  OBVIOUS
<1>3. \A i : i \in takes <=> i \in DOMAIN routes /\ TakenBy(routes[i], q)
  OBVIOUS
<1> HIDE DEF takes
<1>4. takes # {} => find(routes, q) # {}
  BY <1>1, <1>2, LeastIndex
<1>5. takes = {} => find(routes, q) = {}
  BY <1>1
<1>6. \A route \in find(routes, q) : \E i \in takes : route = routes[i] /\ \A k \in takes : i <= k
  BY <1>1
<1> QED BY <1>3, <1>4, <1>5, <1>6

LEMMA Tables == /\ UserRoutes \in Seq(Route) /\ builtins \in Seq(Route)
                /\ \A i \in DOMAIN UserRoutes : Guarded(UserRoutes[i])
                /\ \A i \in DOMAIN builtins : Guarded(builtins[i])
<1>1. UserRoutes \in Seq(Route) /\ \A i \in DOMAIN UserRoutes : Guarded(UserRoutes[i])
  <2>1. Range(UserRoutes) \subseteq Route
    BY DEF Route
  <2>2. \A i \in DOMAIN UserRoutes : UserRoutes[i] \in Range(UserRoutes)
    BY DEF Range
  <2> QED BY <2>1, <2>2, RoutesAssumption, SeqMonotonic DEF Guarded, Protected
<1> DEFINE b == add_builtin_routes
<1>2. Guarded(b[1]) /\ Guarded(b[2]) /\ Guarded(b[3])
  BY DEF add_builtin_routes, Guarded, Protected
<1>3. b = <<b[1], b[2], b[3]>>
  BY DEF add_builtin_routes
<1> HIDE DEF b
<1>4. DOMAIN b = 1 .. 3 /\ Len(b) = 3
  BY <1>3
<1>5. builtins = b \/ builtins = <<>>
  BY DEF builtins, b
<1>6. \A i \in DOMAIN builtins : Guarded(builtins[i])
  <2>1. \A i \in 1 .. 3 : i = 1 \/ i = 2 \/ i = 3
    OBVIOUS
  <2> QED BY <1>2, <1>4, <1>5, <2>1
<1>7. builtins \in Seq(Route)
  <2>1. \A i \in DOMAIN builtins : builtins[i] \in Route
    BY DEF Route, Range
  <2>2. CASE builtins = b
    <3>1. b[1] \in Route /\ b[2] \in Route /\ b[3] \in Route
      BY <1>4, <2>1, <2>2
    <3>2. <<b[1], b[2], b[3]>> \in Seq(Route)
      BY <3>1
    <3> QED BY <1>3, <2>2, <3>2
  <2>3. CASE builtins = <<>>
    BY <2>3
  <2> QED BY <1>5, <2>2, <2>3
<1> QED BY <1>1, <1>6, <1>7

\* Router::dispatch finds the first route of both tables that takes the request,
\* and path_matched says whether the path is known to either.
LEMMA Matched ==
  ASSUME NEW q
  PROVE  /\ matched(q) # {} <=> Takes(q)
         /\ \A route \in matched(q) :
              /\ route \in Route /\ Guarded(route)
              /\ \E i \in DOMAIN Table : FirstAt(i, q) /\ route = Table[i]
         /\ path_matched(UserRoutes, q) \/ path_matched(builtins, q) <=> KnownPath(q)
<1> DEFINE n == Len(UserRoutes)
           m == Len(builtins)
<1>1. /\ n \in Nat /\ m \in Nat /\ DOMAIN UserRoutes = 1 .. n /\ DOMAIN builtins = 1 .. m
      /\ DOMAIN Table = 1 .. n + m
      /\ \A i \in 1 .. n + m : Table[i] = IF i <= n THEN UserRoutes[i] ELSE builtins[i - n]
  BY Tables, ConcatProperties DEF Table
<1>2. \A i \in 1 .. n : i \in 1 .. n + m /\ Table[i] = UserRoutes[i]
  BY <1>1
<1>3. \A i \in 1 .. m : i + n \in 1 .. n + m /\ Table[i + n] = builtins[i]
  BY <1>1
<1>4. \A i \in 1 .. n + m : \/ i \in 1 .. n /\ Table[i] = UserRoutes[i]
                            \/ i - n \in 1 .. m /\ Table[i] = builtins[i - n]
  BY <1>1
<1> HIDE DEF n, m
<1>5. /\ find(UserRoutes, q) # {} <=> \E i \in 1 .. n : TakenBy(UserRoutes[i], q)
      /\ \A route \in find(UserRoutes, q) :
           \E i \in 1 .. n : /\ route = UserRoutes[i] /\ TakenBy(UserRoutes[i], q)
                            /\ \A j \in 1 .. n : TakenBy(UserRoutes[j], q) => i <= j
  <2>1. /\ find(UserRoutes, q) # {} <=> \E i \in DOMAIN UserRoutes : TakenBy(UserRoutes[i], q)
        /\ \A route \in find(UserRoutes, q) :
             \E i \in DOMAIN UserRoutes :
               /\ route = UserRoutes[i] /\ TakenBy(UserRoutes[i], q)
               /\ \A j \in DOMAIN UserRoutes : TakenBy(UserRoutes[j], q) => i <= j
    BY Tables, FindRoute, Zenon
  <2> QED BY <1>1, <2>1, Zenon
<1>6. /\ find(builtins, q) # {} <=> \E i \in 1 .. m : TakenBy(builtins[i], q)
      /\ \A route \in find(builtins, q) :
           \E i \in 1 .. m : /\ route = builtins[i] /\ TakenBy(builtins[i], q)
                            /\ \A j \in 1 .. m : TakenBy(builtins[j], q) => i <= j
  <2>1. /\ find(builtins, q) # {} <=> \E i \in DOMAIN builtins : TakenBy(builtins[i], q)
        /\ \A route \in find(builtins, q) :
             \E i \in DOMAIN builtins :
               /\ route = builtins[i] /\ TakenBy(builtins[i], q)
               /\ \A j \in DOMAIN builtins : TakenBy(builtins[j], q) => i <= j
    BY Tables, FindRoute, Zenon
  <2> QED BY <1>1, <2>1, Zenon
<1>7. find(UserRoutes, q) # {} \/ find(builtins, q) # {} <=> Takes(q)
  <2>1. ASSUME Takes(q) PROVE find(UserRoutes, q) # {} \/ find(builtins, q) # {}
    <3>1. PICK i \in 1 .. n + m : TakenBy(Table[i], q)
      BY <1>1, <2>1 DEF Takes
    <3> QED BY <1>4, <1>5, <1>6, <3>1, Zenon
  <2>2. ASSUME find(UserRoutes, q) # {} PROVE Takes(q)
    BY <1>1, <1>2, <1>5, <2>2, Zenon DEF Takes
  <2>3. ASSUME find(builtins, q) # {} PROVE Takes(q)
    BY <1>1, <1>3, <1>6, <2>3, Zenon DEF Takes
  <2> QED BY <2>1, <2>2, <2>3
<1>8. ASSUME NEW route \in find(UserRoutes, q)
      PROVE  \E i \in DOMAIN Table : FirstAt(i, q) /\ route = Table[i]
  <2>1. PICK i \in 1 .. n : /\ route = UserRoutes[i] /\ TakenBy(UserRoutes[i], q)
                           /\ \A j \in 1 .. n : TakenBy(UserRoutes[j], q) => i <= j
    BY <1>5
  <2>2. i \in 1 .. n + m /\ Table[i] = UserRoutes[i]
    BY <1>2
  <2>3. ASSUME NEW j \in 1 .. n + m, TakenBy(Table[j], q) PROVE i <= j
    <3>1. CASE j \in 1 .. n /\ Table[j] = UserRoutes[j]
      BY <2>1, <2>3, <3>1, Zenon
    <3>2. CASE j - n \in 1 .. m
      BY <1>1, <3>2
    <3> QED BY <1>4, <3>1, <3>2
  <2> QED BY <1>1, <2>1, <2>2, <2>3, Zenon DEF FirstAt
<1>9. ASSUME find(UserRoutes, q) = {}, NEW route \in find(builtins, q)
      PROVE  \E i \in DOMAIN Table : FirstAt(i, q) /\ route = Table[i]
  <2>1. PICK i \in 1 .. m : /\ route = builtins[i] /\ TakenBy(builtins[i], q)
                           /\ \A j \in 1 .. m : TakenBy(builtins[j], q) => i <= j
    BY <1>6
  <2>2. i + n \in 1 .. n + m /\ Table[i + n] = builtins[i]
    BY <1>3
  <2>3. ASSUME NEW j \in 1 .. n + m, TakenBy(Table[j], q) PROVE i + n <= j
    <3>1. ~(j \in 1 .. n /\ Table[j] = UserRoutes[j])
      BY <1>5, <1>9, <2>3, Zenon
    <3>2. j - n \in 1 .. m /\ Table[j] = builtins[j - n]
      BY <1>4, <3>1
    <3>3. i <= j - n
      BY <2>1, <2>3, <3>2, Zenon
    <3> QED BY <1>1, <3>3
  <2> QED BY <1>1, <2>1, <2>2, <2>3, Zenon DEF FirstAt
<1>10. \A route \in find(UserRoutes, q) \cup find(builtins, q) : route \in Route /\ Guarded(route)
  BY Tables, FindRoute
<1>11. path_matched(UserRoutes, q) \/ path_matched(builtins, q) <=> KnownPath(q)
  BY <1>1, <1>2, <1>3, <1>4 DEF path_matched, KnownPath
<1>12. ASSUME NEW route \in matched(q)
       PROVE  /\ route \in Route /\ Guarded(route)
              /\ \E i \in DOMAIN Table : FirstAt(i, q) /\ route = Table[i]
  BY <1>8, <1>9, <1>10, <1>12 DEF matched
<1> QED BY <1>7, <1>11, <1>12 DEF matched

\* How the chain of a route ends: its handler has run, or a middleware refused.
Outcome(x, status, route) ==
  \/ x.handler = route.handler
  \/ x.handler = "none" /\ status = 401 /\ route.middleware # <<>>

\* RoutesAnswer in terms of the whole table.
RoutesOK(x) ==
  x.pc = "idle" /\ x.done /\ x.req # NoRequest =>
    /\ ~Takes(x.req) =>
         x.handler = "none" /\ x.answer = IF KnownPath(x.req) THEN 405 ELSE 404
    /\ Takes(x.req) =>
         \E i \in DOMAIN Table : FirstAt(i, x.req) /\ Outcome(x, x.answer, Table[i])

LEMMA RoutesMeaning == /\ RoutesAnswer <=> RoutesOK(r)
                       /\ RoutesAnswer' <=> RoutesOK(r')
<1> DEFINE known(q) == {i \in DOMAIN Table : path_matches(Table[i], q.path)}
           takes(q) == {i \in known(q) : Table[i].method = q.method}
           Good(x) ==
             x.pc = "idle" /\ x.done /\ x.req # NoRequest =>
               IF takes(x.req) = {}
               THEN x.handler = "none" /\ x.answer = IF known(x.req) = {} THEN 404 ELSE 405
               ELSE \E i \in takes(x.req) :
                      /\ \A j \in takes(x.req) : i <= j
                      /\ \/ x.handler = Table[i].handler
                         \/ x.handler = "none" /\ x.answer = 401 /\ Table[i].middleware # <<>>
<1>1. (RoutesAnswer <=> Good(r)) /\ (RoutesAnswer' <=> Good(r'))
  BY DEF RoutesAnswer, Answered, Table
<1>2. ASSUME NEW x PROVE Good(x) <=> RoutesOK(x)
  <2>1. PICK q : q = x.req
    OBVIOUS
  <2>2. known(q) = {} <=> ~KnownPath(q)
    BY DEF KnownPath
  <2>3. \A i : i \in takes(q) <=> i \in DOMAIN Table /\ TakenBy(Table[i], q)
    BY DEF TakenBy
  <2> HIDE DEF known, takes
  <2>4. takes(q) = {} <=> ~Takes(q)
    BY <2>3 DEF Takes
  <2>5. \A i : i \in takes(q) /\ (\A j \in takes(q) : i <= j)
               <=> i \in DOMAIN Table /\ FirstAt(i, q)
    BY <2>3, Zenon DEF FirstAt
  <2> QED BY <2>1, <2>2, <2>4, <2>5 DEF RoutesOK, Outcome
<1> HIDE DEF Good
<1> QED BY <1>1, <1>2

-----------------------------------------------------------------------------
(* The connection: the inductive invariant, part by part. *)

Conn == [pc : {"idle", "next", "verify", "flush"}, buffered : Nat, done : BOOLEAN,
         req : Requests \cup {NoRequest}, route : Route, index : Nat,
         read : SUBSET Token, opened : BOOLEAN, handler : {x.handler : x \in Route},
         status : Nat, respond : BOOLEAN, promise : {"yes", "no", "maybe"},
         answer : Nat, sent : Nat]

\* Before the request there is none of its state.
Fresh == ~r.done => /\ r.pc = "idle" /\ r.req = NoRequest /\ r.index = 0
                    /\ r.handler = "none" /\ r.respond = TRUE

\* What has been sent and what is still owed: nothing is sent before the chain
\* returns, except by a takeover, which leaves the router nothing to send.
Owed == /\ r.pc = "idle" => r.sent = IF r.done THEN 1 ELSE 0
        /\ r.pc \in {"next", "verify"} => r.sent = 0 /\ r.respond = TRUE /\ r.handler = "none"
        /\ r.pc = "flush" => r.sent = IF r.respond THEN 0 ELSE 1

\* A request under way has the first route that takes it.
RouteAt == /\ r.pc # "idle" =>
                /\ Guarded(r.route)
                /\ \E i \in DOMAIN Table : FirstAt(i, r.req) /\ r.route = Table[i]
           /\ r.pc = "verify" => r.route.middleware # <<>>
           /\ r.pc = "flush" => /\ Outcome(r, r.status, r.route)
                                /\ r.handler = "none" => r.respond = TRUE

\* What has been promised about the request's token since it came is promised still.
Current == r.req.auth \in Token /\ r.promise # "maybe" => r.promise = acked[r.req.auth]

\* The tokens that verify_token has read agree with that promise, although the
\* file may be another one by now.
ReadAgrees ==
  r.pc = "verify" =>
    /\ r.req.auth \in Token
    /\ ~unsure => /\ r.promise = "yes" /\ r.opened => r.req.auth \in r.read
                  /\ r.promise = "no" => r.req.auth \notin r.read

\* Behind the first middleware there is a token, and not one whose removal was
\* reported; a protected controller runs only there.
Passed == /\ r.index > 0 => r.req.auth \in Token /\ (~unsure => r.promise # "no")
          /\ r.handler \in Protected => r.index > 0

\* A token that require_auth refused was not one whose addition was reported.
Refusing == r.pc = "flush" \/ (r.pc = "idle" /\ r.done /\ r.answer = 401)
Refused == Refusing /\ r.handler = "none" /\ r.opened /\ r.req.auth \in Token /\ ~unsure
             => r.promise # "yes"

ConnInv == /\ r \in Conn /\ Fresh /\ Owed /\ RouteAt /\ Current /\ ReadAgrees
           /\ Passed /\ Refused /\ RoutesAnswer
HttpInv == StoreInv /\ ConnInv

-----------------------------------------------------------------------------
(* The connection: the invariant is inductive. *)

LEMMA NewConn == /\ NewConnection \in Conn /\ NewConnection.pc = "idle"
                 /\ NewConnection.done = FALSE /\ NewConnection.respond = TRUE
                 /\ NewConnection.req = NoRequest /\ NewConnection.index = 0
                 /\ NewConnection.handler = "none" /\ NewConnection.promise = "maybe"
                 /\ NewConnection.sent = 0 /\ NewConnection.answer = 0
<1>1. NoRoute \in Route /\ NoRoute.handler = "none"
  BY DEF Route, NoRoute
<1>2. "none" \in {x.handler : x \in Route}
  BY <1>1
<1> QED BY <1>1, <1>2 DEF NewConnection, Conn

\* What the request of a connection has come to.
SameRequest(x, y) == /\ y.req = x.req /\ y.route = x.route /\ y.index = x.index
                     /\ y.read = x.read /\ y.opened = x.opened /\ y.handler = x.handler
                     /\ y.promise = x.promise

\* send_http_simple counts an answer, and changes nothing else.
SentAs(x, s, y) == /\ y \in Conn /\ y.answer = s /\ y.sent = x.sent + 1
                   /\ SameRequest(x, y) /\ y.pc = x.pc /\ y.done = x.done
                   /\ y.status = x.status /\ y.respond = x.respond
LEMMA SentConn ==
  ASSUME NEW x \in Conn, NEW s \in Nat
  PROVE  SentAs(x, s, send_http_simple(x, s))
<1> DEFINE y == send_http_simple(x, s)
<1>1. y = [x EXCEPT !.answer = s, !.sent = @ + 1]
  BY DEF send_http_simple
<1>2. x.sent + 1 \in Nat
  BY DEF Conn
<1>3. y \in Conn
  BY <1>1, <1>2 DEF Conn
<1>4. /\ y.answer = s /\ y.sent = x.sent + 1 /\ y.pc = x.pc /\ y.done = x.done
      /\ y.status = x.status /\ y.respond = x.respond
  BY <1>1 DEF Conn
<1>5. SameRequest(x, y)
  BY <1>1 DEF Conn, SameRequest
<1> HIDE DEF y
<1>6. SentAs(x, s, y)
  BY <1>3, <1>4, <1>5 DEF SentAs
<1> QED BY <1>6 DEF y

\* A fragment is counted, and changes nothing else.
LEMMA CountedConn ==
  ASSUME r \in Conn
  PROVE  /\ Received \in Conn /\ SameRequest(r, Received)
         /\ Received.pc = r.pc /\ Received.done = r.done /\ Received.respond = r.respond
         /\ Received.status = r.status /\ Received.answer = r.answer /\ Received.sent = r.sent
<1>1. r.buffered + 1 \in Nat
  BY DEF Conn
<1>2. Received \in Conn
  BY <1>1 DEF Conn, Received
<1>3. /\ Received.pc = r.pc /\ Received.done = r.done /\ Received.respond = r.respond
      /\ Received.status = r.status /\ Received.answer = r.answer /\ Received.sent = r.sent
  BY DEF Conn, Received
<1>4. SameRequest(r, Received)
  BY DEF Conn, Received, SameRequest
<1> QED BY <1>2, <1>3, <1>4

LEMMA HttpInitInv == HttpInit => HttpInv
<1> SUFFICES ASSUME HttpInit PROVE HttpInv
  OBVIOUS
<1>1. StoreInv
  BY StoreInit DEF HttpInit
<1>2. r = NewConnection
  BY DEF HttpInit
<1>3. ConnInv
  BY <1>2, NewConn, RoutesMeaning DEF ConnInv, Fresh, Owed, RouteAt, Current, ReadAgrees, Passed,
     Refusing, Refused, RoutesOK, Protected
<1> QED BY <1>1, <1>3 DEF HttpInv

\* A new connection satisfies the invariant, whatever the store is like.
LEMMA FreshConn == ASSUME r' = NewConnection PROVE ConnInv'
  BY NewConn, RoutesMeaning DEF ConnInv, Fresh, Owed, RouteAt, Current, ReadAgrees, Passed,
     Refusing, Refused, RoutesOK, Protected

\* An answer to a request that has not been dispatched.
LEMMA TooEarlyConn ==
  ASSUME HttpInv, UNCHANGED vars, ~r.done,
         r' = send_http_simple([Received EXCEPT !.done = TRUE], 400)
  PROVE  ConnInv'
<1>1. /\ r \in Conn /\ r.pc = "idle" /\ r.req = NoRequest /\ r.index = 0 /\ r.handler = "none"
      /\ r.sent = 0
  BY DEF HttpInv, ConnInv, Fresh, Owed
<1>2. PICK x : x = [Received EXCEPT !.done = TRUE]
  OBVIOUS
<1>3. PICK y : y = Received
  OBVIOUS
<1>4. y \in Conn /\ SameRequest(r, y) /\ y.pc = r.pc /\ y.sent = r.sent
  BY <1>1, <1>3, CountedConn
<1>5. x \in Conn /\ SameRequest(y, x) /\ x.pc = y.pc /\ x.sent = y.sent /\ x.done = TRUE
  BY <1>2, <1>3, <1>4 DEF Conn, SameRequest
<1>6. /\ r' \in Conn /\ SameRequest(x, r') /\ r'.pc = x.pc /\ r'.done = TRUE
      /\ r'.answer = 400 /\ r'.sent = x.sent + 1
  <2>1. PICK z : z = send_http_simple(x, 400)
    OBVIOUS
  <2>2. /\ z \in Conn /\ SameRequest(x, z) /\ z.pc = x.pc /\ z.done = x.done
        /\ z.answer = 400 /\ z.sent = x.sent + 1
    <3>1. SentAs(x, 400, z)
      BY <1>5, <2>1, SentConn
    <3> QED BY <3>1 DEF SentAs
  <2>3. r' = z
    BY <1>2, <2>1
  <2> QED BY <1>5, <2>2, <2>3
<1>7. /\ r' \in Conn /\ r'.pc = "idle" /\ r'.done = TRUE /\ r'.answer = 400 /\ r'.sent = 1
      /\ r'.req = NoRequest /\ r'.index = 0 /\ r'.handler = "none" /\ r'.promise = r.promise
  BY <1>1, <1>4, <1>5, <1>6 DEF SameRequest
<1>8. RoutesAnswer'
  BY <1>7, RoutesMeaning DEF RoutesOK
<1>9. Current'
  BY <1>1, <1>7 DEF HttpInv, ConnInv, Current, vars
<1> QED BY <1>7, <1>8, <1>9 DEF ConnInv, Fresh, Owed, RouteAt, ReadAgrees, Passed, Refusing,
     Refused, Protected

LEMMA DispatchConn ==
  ASSUME HttpInv, NEW q \in Requests, Dispatch(q)
  PROVE  ConnInv'
<1>1. /\ r \in Conn /\ r.pc = "idle" /\ r.index = 0 /\ r.handler = "none" /\ r.sent = 0
      /\ r.respond = TRUE /\ UNCHANGED vars
  BY DEF Dispatch, HttpInv, ConnInv, Fresh, Owed
<1>2. PICK p : p = IF q.auth \in Token THEN acked[q.auth] ELSE "maybe"
  OBVIOUS
<1>3. PICK x : x = [Received EXCEPT !.done = TRUE, !.req = q, !.promise = p]
  OBVIOUS
<1>4. PICK s : s = IF path_matched(UserRoutes, q) \/ path_matched(builtins, q) THEN 405 ELSE 404
  OBVIOUS
<1>5. \/ \E route \in matched(q) : r' = [x EXCEPT !.pc = "next", !.route = route]
      \/ matched(q) = {} /\ r' = send_http_simple(x, s)
  BY <1>2, <1>3, <1>4 DEF Dispatch
<1>6. p \in {"yes", "no", "maybe"} /\ (q.auth \in Token /\ p # "maybe" => p = acked[q.auth])
  BY <1>2 DEF HttpInv, StoreInv, TypeOK
<1>7. /\ x \in Conn /\ x.req = q /\ x.promise = p /\ x.index = 0 /\ x.handler = "none"
      /\ x.sent = 0 /\ x.pc = "idle" /\ x.done = TRUE /\ x.respond = TRUE
  <2>1. PICK y : y = Received
    OBVIOUS
  <2>2. /\ y \in Conn /\ SameRequest(r, y) /\ y.pc = r.pc /\ y.sent = r.sent
        /\ y.respond = r.respond
    BY <1>1, <2>1, CountedConn
  <2>3. x = [y EXCEPT !.done = TRUE, !.req = q, !.promise = p]
    BY <1>3, <2>1
  <2>4. x \in Conn
    BY <1>6, <2>2, <2>3 DEF Conn
  <2>5. /\ x.req = q /\ x.promise = p /\ x.index = y.index /\ x.handler = y.handler
        /\ x.sent = y.sent /\ x.pc = y.pc /\ x.done = TRUE /\ x.respond = y.respond
    BY <2>2, <2>3 DEF Conn
  <2> QED BY <1>1, <2>2, <2>4, <2>5 DEF SameRequest
<1>8. ASSUME NEW route \in matched(q), r' = [x EXCEPT !.pc = "next", !.route = route]
      PROVE  ConnInv'
  <2>1. route \in Route /\ Guarded(route) /\ \E i \in DOMAIN Table : FirstAt(i, q) /\ route = Table[i]
    BY Matched
  <2>2. /\ r' \in Conn /\ r'.pc = "next" /\ r'.route = route /\ r'.req = q /\ r'.promise = p
        /\ r'.index = 0 /\ r'.handler = "none" /\ r'.sent = 0 /\ r'.done = TRUE
        /\ r'.respond = TRUE
    BY <1>7, <1>8, <2>1 DEF Conn
  <2>3. Current'
    BY <1>1, <1>6, <2>2 DEF Current, vars
  <2>4. RouteAt'
    BY <2>1, <2>2 DEF RouteAt
  <2>5. RoutesAnswer'
    BY <2>2, RoutesMeaning DEF RoutesOK
  <2> QED BY <2>2, <2>3, <2>4, <2>5 DEF ConnInv, Fresh, Owed, ReadAgrees, Passed, Refusing, Refused,
       Protected
<1>9. ASSUME matched(q) = {}, r' = send_http_simple(x, s)
      PROVE  ConnInv'
  <2>1. ~Takes(q) /\ s = (IF KnownPath(q) THEN 405 ELSE 404)
    BY <1>4, <1>9, Matched
  <2>2. s \in Nat /\ s # 401
    BY <2>1
  <2>3. /\ r' \in Conn /\ SameRequest(x, r') /\ r'.pc = x.pc /\ r'.done = x.done
        /\ r'.answer = s /\ r'.sent = x.sent + 1
    <3>1. PICK z : z = send_http_simple(x, s)
      OBVIOUS
    <3>2. x \in Conn /\ s \in Nat
      BY <1>7, <2>2
    <3>3. /\ z \in Conn /\ SameRequest(x, z) /\ z.pc = x.pc /\ z.done = x.done
          /\ z.answer = s /\ z.sent = x.sent + 1
      <4>1. SentAs(x, s, z)
        BY <3>1, <3>2, SentConn
      <4> QED BY <4>1 DEF SentAs
    <3> QED BY <1>9, <3>1, <3>3
  <2>4. /\ r'.pc = "idle" /\ r'.req = q /\ r'.promise = p /\ r'.done = TRUE
        /\ r'.index = 0 /\ r'.handler = "none" /\ r'.sent = 1
    BY <1>7, <2>3 DEF SameRequest
  <2>5. Current'
    BY <1>1, <1>6, <2>4 DEF Current, vars
  <2>6. RoutesAnswer'
    BY <2>1, <2>3, <2>4, RoutesMeaning DEF RoutesOK
  <2> QED BY <2>2, <2>3, <2>4, <2>5, <2>6 DEF ConnInv, Fresh, Owed, RouteAt, ReadAgrees, Passed,
       Refusing, Refused, Protected
<1> QED BY <1>5, <1>8, <1>9

\* The chain returns to the router: it has run the handler, a protected one only
\* for a request that has passed require_auth, or require_auth has refused a token
\* that is not among those it read.
LEMMA ReturnedConn ==
  ASSUME HttpInv, UNCHANGED vars, r.pc \in {"next", "verify"},
         NEW x \in Conn, r' = x, x.pc = "flush", x.done = r.done, x.req = r.req,
         x.route = r.route, x.index = r.index, x.opened = r.opened, x.promise = r.promise,
         x.sent = IF x.respond THEN 0 ELSE 1,
         Outcome(x, x.status, x.route), x.handler = "none" => x.respond = TRUE,
         x.handler \in Protected => r.index > 0,
         x.handler = "none" /\ r.opened /\ r.req.auth \in Token /\ ~unsure => r.promise # "yes"
  PROVE  ConnInv'
<1>1. r.done = TRUE
  BY DEF HttpInv, ConnInv, Fresh, Conn
<1>2. RouteAt'
  BY DEF HttpInv, ConnInv, RouteAt
<1>3. Current' /\ Passed'
  BY DEF HttpInv, ConnInv, Current, Passed, vars, standing
<1>4. Refused'
  BY DEF Refused, Refusing, vars, standing
<1>5. RoutesAnswer'
  BY RoutesMeaning DEF RoutesOK
<1>6. Fresh' /\ Owed' /\ ReadAgrees'
  BY <1>1 DEF Fresh, Owed, ReadAgrees
<1> QED BY <1>2, <1>3, <1>4, <1>5, <1>6 DEF ConnInv

\* What coming back from a middleware or a handler changes.
ReturnedAs(x, s, y) == /\ y \in Conn /\ SameRequest(x, y) /\ y.pc = "flush" /\ y.status = s
                       /\ y.done = x.done /\ y.respond = x.respond /\ y.sent = x.sent
LEMMA ReturnFields ==
  ASSUME NEW x \in Conn, NEW s \in Nat
  PROVE  ReturnedAs(x, s, Return(x, s))
<1> DEFINE y == Return(x, s)
<1>1. y = [x EXCEPT !.pc = "flush", !.status = s]
  BY DEF Return
<1>2. y \in Conn
  BY <1>1 DEF Conn
<1>3. /\ y.pc = "flush" /\ y.status = s
      /\ y.done = x.done /\ y.respond = x.respond /\ y.sent = x.sent
  BY <1>1 DEF Conn
<1>4. SameRequest(x, y)
  BY <1>1 DEF Conn, SameRequest
<1> HIDE DEF y
<1>5. ReturnedAs(x, s, y)
  BY <1>2, <1>3, <1>4 DEF ReturnedAs
<1> QED BY <1>5 DEF y

\* require_auth refuses.
LEMMA RefusedConn ==
  ASSUME HttpInv, UNCHANGED vars, r.pc \in {"next", "verify"}, r' = Return(r, 401),
         r.route.middleware # <<>>,
         r.opened /\ r.req.auth \in Token /\ ~unsure => r.promise # "yes"
  PROVE  ConnInv'
<1>1. r \in Conn /\ r.sent = 0 /\ r.respond = TRUE /\ r.handler = "none"
  BY DEF HttpInv, ConnInv, Owed
<1>2. PICK x : x = Return(r, 401)
  OBVIOUS
<1>3. /\ x \in Conn /\ SameRequest(r, x) /\ x.pc = "flush" /\ x.status = 401
      /\ x.done = r.done /\ x.respond = r.respond /\ x.sent = r.sent
  <2>1. ReturnedAs(r, 401, x)
    BY <1>1, <1>2, ReturnFields
  <2> QED BY <2>1 DEF ReturnedAs
<1>4. /\ x.req = r.req /\ x.route = r.route /\ x.index = r.index /\ x.opened = r.opened
      /\ x.promise = r.promise /\ x.handler = "none" /\ x.respond = TRUE /\ x.sent = 0
  BY <1>1, <1>3 DEF SameRequest
<1>5. Outcome(x, x.status, x.route) /\ x.handler \notin Protected
  BY <1>3, <1>4 DEF Outcome, Protected
<1>6. /\ r' = x /\ x.done = r.done /\ x.sent = (IF x.respond THEN 0 ELSE 1)
      /\ x \in Conn /\ x.pc = "flush"
  BY <1>2, <1>3, <1>4
<1> QED BY <1>4, <1>5, <1>6, ReturnedConn

\* The controller's turn: a protected one has a middleware before it.
LEMMA ControllerConn ==
  ASSUME HttpInv, AtHandler
  PROVE  /\ Ran \in Conn /\ Ran.handler = r.route.handler /\ Ran.handler # "none"
         /\ Ran.req = r.req /\ Ran.route = r.route /\ Ran.index = r.index /\ Ran.done = r.done
         /\ Ran.opened = r.opened /\ Ran.promise = r.promise
         /\ Ran.sent = 0 /\ Ran.respond = TRUE
         /\ r.pc = "next" /\ (Ran.handler \in Protected => r.index > 0)
<1>1. /\ r \in Conn /\ r.pc = "next" /\ r.index = Len(r.route.middleware) /\ Guarded(r.route)
      /\ r.sent = 0 /\ r.respond = TRUE
  BY DEF AtHandler, HttpInv, ConnInv, RouteAt, Owed
<1>2. r.route.handler \in {y.handler : y \in Route}
  BY <1>1 DEF Conn
<1>3. /\ Ran \in Conn /\ Ran.handler = r.route.handler
      /\ Ran.req = r.req /\ Ran.route = r.route /\ Ran.index = r.index /\ Ran.done = r.done
      /\ Ran.opened = r.opened /\ Ran.promise = r.promise /\ Ran.sent = r.sent
      /\ Ran.respond = r.respond
  BY <1>1, <1>2 DEF Ran, Conn
<1>4. Ran.handler # "none" /\ (Ran.handler \in Protected => r.index = 1)
  BY <1>1, <1>3 DEF Guarded
<1>5. Ran.handler \in Protected => r.index > 0
  BY <1>4
<1> QED BY <1>1, <1>3, <1>4, <1>5

\* A handler that leaves its answer to the router.
LEMMA HandledConn ==
  ASSUME HttpInv, UNCHANGED vars, AtHandler, NEW s \in Nat, r' = Return(Ran, s)
  PROVE  ConnInv'
<1>1. PICK y : y = Ran
  OBVIOUS
<1>2. /\ y \in Conn /\ y.handler = r.route.handler /\ y.handler # "none"
      /\ y.req = r.req /\ y.route = r.route /\ y.index = r.index /\ y.done = r.done
      /\ y.opened = r.opened /\ y.promise = r.promise /\ y.sent = 0 /\ y.respond = TRUE
      /\ r.pc = "next" /\ (y.handler \in Protected => r.index > 0)
  BY <1>1, ControllerConn
<1>3. PICK x : x = Return(y, s)
  OBVIOUS
<1>4. /\ x \in Conn /\ SameRequest(y, x) /\ x.pc = "flush" /\ x.done = y.done
      /\ x.respond = y.respond /\ x.sent = y.sent
  <2>1. ReturnedAs(y, s, x)
    BY <1>2, <1>3, ReturnFields
  <2> QED BY <2>1 DEF ReturnedAs
<1>5. /\ x.req = r.req /\ x.route = r.route /\ x.index = r.index /\ x.opened = r.opened
      /\ x.promise = r.promise /\ x.handler = r.route.handler /\ x.handler # "none"
      /\ x.respond = TRUE /\ x.sent = 0 /\ x.done = r.done
      /\ (x.handler \in Protected => r.index > 0)
  BY <1>2, <1>4 DEF SameRequest
<1>6. Outcome(x, x.status, x.route)
  BY <1>5 DEF Outcome
<1> QED BY <1>1, <1>2, <1>3, <1>4, <1>5, <1>6, ReturnedConn

\* A handler that takes the answer over.
LEMMA DownloadConn ==
  ASSUME HttpInv, UNCHANGED vars, AtHandler, NEW s \in Nat, r' = begin_download(s)
  PROVE  ConnInv'
<1>1. PICK y : y = Ran
  OBVIOUS
<1>2. /\ y \in Conn /\ y.handler = r.route.handler /\ y.handler # "none"
      /\ y.req = r.req /\ y.route = r.route /\ y.index = r.index /\ y.done = r.done
      /\ y.opened = r.opened /\ y.promise = r.promise /\ y.sent = 0
      /\ r.pc = "next" /\ (y.handler \in Protected => r.index > 0)
  BY <1>1, ControllerConn
<1>3. PICK z : z = send_http_simple(y, s)
  OBVIOUS
<1>4. z \in Conn /\ SameRequest(y, z) /\ z.done = y.done /\ z.sent = y.sent + 1
  <2>1. SentAs(y, s, z)
    BY <1>2, <1>3, SentConn
  <2> QED BY <2>1 DEF SentAs
<1>5. PICK x : x = [z EXCEPT !.pc = "flush", !.respond = FALSE]
  OBVIOUS
<1>6. /\ x \in Conn /\ SameRequest(z, x) /\ x.pc = "flush" /\ x.respond = FALSE
      /\ x.done = z.done /\ x.sent = z.sent
  BY <1>4, <1>5 DEF Conn, SameRequest
<1>7. r' = x
  BY <1>1, <1>3, <1>5 DEF begin_download
<1>8. /\ x.req = r.req /\ x.route = r.route /\ x.index = r.index /\ x.opened = r.opened
      /\ x.promise = r.promise /\ x.handler = r.route.handler /\ x.handler # "none"
      /\ x.sent = 1 /\ x.done = r.done /\ (x.handler \in Protected => r.index > 0)
  BY <1>2, <1>4, <1>6 DEF SameRequest
<1>9. Outcome(x, x.status, x.route)
  BY <1>8 DEF Outcome
<1> QED BY <1>2, <1>6, <1>7, <1>8, <1>9, ReturnedConn

\* The router sends what is owed, and nothing after a takeover.
LEMMA FlushConn ==
  ASSUME HttpInv, Flush
  PROVE  ConnInv'
<1>1. /\ r \in Conn /\ r.pc = "flush" /\ r.done = TRUE /\ UNCHANGED vars
      /\ r.status \in Nat /\ r.respond \in BOOLEAN
      /\ r.sent = IF r.respond THEN 0 ELSE 1
  BY DEF Flush, HttpInv, ConnInv, Fresh, Owed, Conn
<1>2. PICK x : x = [r EXCEPT !.pc = "idle"]
  OBVIOUS
<1>3. /\ x \in Conn /\ SameRequest(r, x) /\ x.pc = "idle" /\ x.done = TRUE /\ x.sent = r.sent
  BY <1>1, <1>2 DEF Conn, SameRequest
<1>4. /\ r' \in Conn /\ SameRequest(x, r') /\ r'.pc = "idle" /\ r'.done = TRUE /\ r'.sent = 1
      /\ r.respond => r'.answer = r.status
  <2>1. PICK z : z = send_http_simple(x, r.status)
    OBVIOUS
  <2>2. /\ z \in Conn /\ SameRequest(x, z) /\ z.pc = x.pc /\ z.done = x.done
        /\ z.answer = r.status /\ z.sent = x.sent + 1
    <3>1. x \in Conn /\ r.status \in Nat
      BY <1>1, <1>3
    <3>2. SentAs(x, r.status, z)
      BY <2>1, <3>1, SentConn
    <3> QED BY <3>2 DEF SentAs
  <2>3. r' = IF r.respond THEN z ELSE x
    BY <1>2, <2>1 DEF Flush
  <2>4. CASE r.respond = TRUE
    BY <1>1, <1>3, <2>2, <2>3, <2>4
  <2>5. CASE r.respond = FALSE
    BY <1>1, <1>3, <2>3, <2>5 DEF SameRequest
  <2> QED BY <1>1, <2>4, <2>5
<1>5. /\ r'.req = r.req /\ r'.index = r.index /\ r'.opened = r.opened
      /\ r'.handler = r.handler /\ r'.promise = r.promise
  BY <1>3, <1>4 DEF SameRequest
<1>6. Current' /\ Passed'
  BY <1>1, <1>5 DEF HttpInv, ConnInv, Current, Passed, vars, standing
<1>7. Refused'
  BY <1>1, <1>5 DEF HttpInv, ConnInv, Refused, Refusing, vars, standing
<1>8. RoutesAnswer'
  <2>1. PICK i \in DOMAIN Table : FirstAt(i, r.req) /\ r.route = Table[i]
    BY <1>1 DEF HttpInv, ConnInv, RouteAt
  <2>2. Takes(r.req)
    BY <2>1 DEF FirstAt, Takes
  <2>3. Outcome(r, r.status, Table[i]) /\ (r.handler = "none" => r.respond = TRUE)
    BY <1>1, <2>1 DEF HttpInv, ConnInv, RouteAt
  <2>4. Outcome(r', r'.answer, Table[i])
    BY <1>4, <1>5, <2>3 DEF Outcome
  <2> QED BY <1>5, <2>1, <2>2, <2>4, RoutesMeaning DEF RoutesOK
<1>9. Fresh' /\ Owed' /\ RouteAt' /\ ReadAgrees'
  BY <1>4 DEF Fresh, Owed, RouteAt, ReadAgrees
<1> QED BY <1>4, <1>6, <1>7, <1>8, <1>9 DEF ConnInv

\* The store's part of every step is a step of TokenStore, or none.
LEMMA StoreOfHttp == [HttpNext]_hvars => [Next]_vars
  BY DEF HttpNext, hvars, Ignored, Partial, Unparsable, Dispatch, NoBearer, OpenStore,
     require_auth, Handler, NotFound, Download, Flush, Accept, Tools, Restart, Next

\* No step makes an unsure store sure.
LEMMA UnsureStays == [Next]_vars /\ TypeOK /\ unsure => unsure'
<1> SUFFICES ASSUME [Next]_vars, TypeOK, unsure PROVE unsure'
  OBVIOUS
<1>1. ASSUME NEW t \in Tool, NEW o, NEW k, Load(t, o, k) PROVE unsure'
  BY <1>1 DEF Load
<1> QED BY <1>1 DEF Next, ToolStep, Fsync, SaveFails, Rename, DirSync, Killed, Crash, vars, standing

\* The tools go on: the promise about the request's token is dropped unless it holds.
LEMMA ToolsConn ==
  ASSUME HttpInv, Tools
  PROVE  ConnInv'
<1>1. r \in Conn /\ TypeOK
  BY DEF HttpInv, StoreInv, ConnInv
<1>2. unsure => unsure'
  BY <1>1, UnsureStays DEF Tools, Next
<1>3. r' = r \/ r' = [r EXCEPT !.promise = "maybe"]
  BY DEF Tools
<1>4. /\ r' \in Conn /\ r'.pc = r.pc /\ r'.done = r.done /\ r'.req = r.req /\ r'.route = r.route
      /\ r'.index = r.index /\ r'.read = r.read /\ r'.opened = r.opened
      /\ r'.handler = r.handler /\ r'.status = r.status /\ r'.respond = r.respond
      /\ r'.answer = r.answer /\ r'.sent = r.sent
      /\ r'.promise \in {r.promise, "maybe"}
  BY <1>1, <1>3 DEF Conn
<1>5. r.req.auth \in Token /\ r'.promise # "maybe" => r'.promise = acked'[r.req.auth]
  BY <1>1 DEF Tools, Conn
<1>6. Fresh' /\ Owed' /\ Current'
  BY <1>4, <1>5 DEF HttpInv, ConnInv, Fresh, Owed, Current
<1>7. RouteAt'
  BY <1>4 DEF HttpInv, ConnInv, RouteAt, Outcome
<1>8. ReadAgrees' /\ Passed'
  BY <1>2, <1>4 DEF HttpInv, ConnInv, ReadAgrees, Passed
<1>9. Refused'
  BY <1>2, <1>4 DEF HttpInv, ConnInv, Refused, Refusing
<1>10. RoutesAnswer'
  BY <1>4, RoutesMeaning DEF HttpInv, ConnInv, RoutesOK, Outcome
<1> QED BY <1>4, <1>6, <1>7, <1>8, <1>9, <1>10 DEF ConnInv

\* verify_token reads a store in which every promise is kept.
LEMMA OpenConn ==
  ASSUME HttpInv, OpenStore
  PROVE  ConnInv'
<1>1. PICK opened \in BOOLEAN :
        r' = [r EXCEPT !.pc = "verify", !.read = read_file(opened), !.opened = opened]
  BY DEF OpenStore
<1>2. /\ r \in Conn /\ r.pc = "next" /\ r.req.auth \in Token /\ UNCHANGED vars
      /\ r.promise \in {"yes", "no", "maybe"} /\ r.done = TRUE
  BY DEF OpenStore, InChain, HttpInv, ConnInv, Conn, Fresh
<1>3. read_file(opened) \in SUBSET Token
  BY DEF read_file, HttpInv, StoreInv, TypeOK, Content
<1>4. /\ r'.pc = "verify" /\ r'.req = r.req /\ r'.route = r.route /\ r'.done = TRUE
      /\ r'.index = r.index /\ r'.read = read_file(opened) /\ r'.opened = opened
      /\ r'.handler = r.handler /\ r'.promise = r.promise /\ r'.sent = r.sent
      /\ r'.respond = r.respond
  BY <1>1, <1>2 DEF Conn
<1>5. r' \in Conn
  <2>1. PICK y : y = [r EXCEPT !.pc = "verify"]
    OBVIOUS
  <2>2. y \in Conn
    BY <1>2, <2>1 DEF Conn
  <2>3. r' = [y EXCEPT !.read = read_file(opened), !.opened = opened]
    BY <1>1, <1>2, <2>1 DEF Conn
  <2> QED BY <1>3, <2>2, <2>3 DEF Conn
<1>6. ReadAgrees'
  <2> SUFFICES ASSUME ~unsure
               PROVE  /\ r.promise = "yes" /\ opened => r.req.auth \in read_file(opened)
                      /\ r.promise = "no" => r.req.auth \notin read_file(opened)
    BY <1>2, <1>4 DEF ReadAgrees, vars, standing
  <2>1. r.promise # "maybe" => r.promise = acked[r.req.auth]
    BY <1>2 DEF HttpInv, ConnInv, Current
  <2>2. Kept(live, r.req.auth)
    BY <1>2 DEF HttpInv, StoreInv, AllKept
  <2> QED BY <1>2, <2>1, <2>2 DEF Kept, read_file
<1>7. RouteAt'
  <2>1. r.route.middleware # <<>>
    <3>1. r.index \in Nat /\ r.index < Len(r.route.middleware)
      BY <1>2 DEF OpenStore, InChain, Conn
    <3> QED BY <3>1
  <2> QED BY <1>2, <1>4, <2>1 DEF HttpInv, ConnInv, RouteAt
<1>8. Current' /\ Passed' /\ Fresh' /\ Owed'
  BY <1>2, <1>4 DEF HttpInv, ConnInv, Current, Passed, Fresh, Owed, vars, standing
<1>9. RoutesAnswer' /\ Refused'
  BY <1>4, RoutesMeaning DEF RoutesOK, Refused, Refusing
<1> QED BY <1>5, <1>6, <1>7, <1>8, <1>9 DEF ConnInv

LEMMA AuthConn ==
  ASSUME HttpInv, require_auth
  PROVE  ConnInv'
<1>1. /\ r \in Conn /\ r.pc = "verify" /\ r.req.auth \in Token /\ UNCHANGED vars
      /\ r.route.middleware # <<>> /\ r.done = TRUE
  BY DEF require_auth, HttpInv, ConnInv, ReadAgrees, RouteAt, Fresh, Conn
<1>2. r.read # Torn
  BY <1>1, NotTorn DEF Conn
<1>3. CASE verify(r.req.auth, r.read)
  <2>1. r' = [r EXCEPT !.pc = "next", !.index = @ + 1]
    BY <1>3 DEF require_auth
  <2>2. /\ r' \in Conn /\ r'.pc = "next" /\ r'.req = r.req /\ r'.route = r.route
        /\ r'.index = r.index + 1 /\ r'.handler = r.handler /\ r'.promise = r.promise
        /\ r'.sent = r.sent /\ r'.done = TRUE /\ r'.respond = r.respond
    <3>1. PICK y : y = [r EXCEPT !.pc = "next"]
      OBVIOUS
    <3>2. y \in Conn
      BY <1>1, <3>1 DEF Conn
    <3>3. r' = [y EXCEPT !.index = @ + 1]
      BY <1>1, <2>1, <3>1 DEF Conn
    <3>4. r' \in Conn
      BY <3>2, <3>3 DEF Conn
    <3>5. /\ r'.pc = "next" /\ r'.req = r.req /\ r'.route = r.route
          /\ r'.index = r.index + 1 /\ r'.handler = r.handler
          /\ r'.promise = r.promise /\ r'.sent = r.sent /\ r'.done = r.done
          /\ r'.respond = r.respond
      BY <1>1, <2>1 DEF Conn
    <3> QED BY <1>1, <3>4, <3>5
  <2>3. ~unsure => r.promise # "no"
    BY <1>1, <1>3 DEF verify, HttpInv, ConnInv, ReadAgrees
  <2>4. Fresh' /\ Owed' /\ Current'
    BY <1>1, <2>2 DEF HttpInv, ConnInv, Fresh, Owed, Current, vars
  <2>5. Passed'
    <3>1. r.handler = "none"
      BY <1>1 DEF HttpInv, ConnInv, Owed
    <3> QED BY <1>1, <2>2, <2>3, <3>1 DEF Passed, Protected, vars, standing
  <2>6. RouteAt'
    BY <1>1, <2>2 DEF HttpInv, ConnInv, RouteAt
  <2>7. RoutesAnswer' /\ Refused' /\ ReadAgrees'
    BY <2>2, RoutesMeaning DEF RoutesOK, Refused, Refusing, ReadAgrees
  <2> QED BY <2>2, <2>4, <2>5, <2>6, <2>7 DEF ConnInv
<1>4. CASE ~verify(r.req.auth, r.read)
  <2>1. r' = Return(r, 401)
    BY <1>4 DEF require_auth
  <2>2. r.opened /\ ~unsure => r.promise # "yes"
    BY <1>1, <1>2, <1>4 DEF verify, HttpInv, ConnInv, ReadAgrees
  <2> QED BY <1>1, <2>1, <2>2, RefusedConn
<1> QED BY <1>3, <1>4

\* A fragment that changes nothing but the count.
LEMMA FragmentConn ==
  ASSUME HttpInv, r' = Received, UNCHANGED vars
  PROVE  ConnInv'
<1>1. /\ r' \in Conn /\ SameRequest(r, r') /\ r'.pc = r.pc /\ r'.done = r.done
      /\ r'.respond = r.respond /\ r'.status = r.status /\ r'.answer = r.answer
      /\ r'.sent = r.sent
  <2>1. PICK y : y = Received
    OBVIOUS
  <2>2. /\ y \in Conn /\ SameRequest(r, y) /\ y.pc = r.pc /\ y.done = r.done
        /\ y.respond = r.respond /\ y.status = r.status /\ y.answer = r.answer
        /\ y.sent = r.sent
    BY <2>1, CountedConn DEF HttpInv, ConnInv
  <2> QED BY <2>1, <2>2
<1>2. /\ r'.req = r.req /\ r'.route = r.route /\ r'.index = r.index /\ r'.read = r.read
      /\ r'.opened = r.opened /\ r'.handler = r.handler /\ r'.promise = r.promise
  BY <1>1 DEF SameRequest
<1>3. RoutesAnswer'
  BY <1>1, <1>2, RoutesMeaning DEF HttpInv, ConnInv, RoutesOK, Outcome
<1>4. Fresh' /\ Owed' /\ RouteAt'
  BY <1>1, <1>2 DEF HttpInv, ConnInv, Fresh, Owed, RouteAt, Outcome
<1>5. Current' /\ ReadAgrees' /\ Passed' /\ Refused'
  BY <1>1, <1>2 DEF HttpInv, ConnInv, Current, ReadAgrees, Passed, Refusing, Refused, vars, standing
<1> QED BY <1>1, <1>3, <1>4, <1>5 DEF ConnInv

LEMMA HttpStep == HttpInv /\ [HttpNext]_hvars => HttpInv'
<1> SUFFICES ASSUME HttpInv, [HttpNext]_hvars PROVE HttpInv'
  OBVIOUS
<1>1. StoreInv'
  BY StoreOfHttp, StoreStep DEF HttpInv
<1> SUFFICES ConnInv'
  BY <1>1 DEF HttpInv
<1>2. CASE Ignored
  BY <1>2, FragmentConn DEF Ignored
<1>3. CASE Partial
  BY <1>3, FragmentConn, TooEarlyConn DEF Partial
<1>4. CASE Unparsable
  BY <1>4, TooEarlyConn DEF Unparsable
<1>5. ASSUME NEW q \in Requests, Dispatch(q) PROVE ConnInv'
  BY <1>5, DispatchConn
<1>6. CASE NoBearer
  <2>1. /\ r.pc = "next" /\ r.req.auth \notin Token /\ r' = Return(r, 401) /\ UNCHANGED vars
        /\ r.index \in Nat /\ r.index < Len(r.route.middleware)
    BY <1>6 DEF NoBearer, InChain, HttpInv, ConnInv, Conn
  <2>2. r.route.middleware # <<>>
    BY <2>1
  <2> QED BY <2>1, <2>2, RefusedConn
<1>7. CASE OpenStore
  BY <1>7, OpenConn
<1>8. CASE require_auth
  BY <1>8, AuthConn
<1>9. CASE Handler
  <2>1. PICK s \in Nat : r' = Return(Ran, s)
    BY <1>9, HttpAssumption DEF Handler
  <2> QED BY <1>9, <2>1, HandledConn DEF Handler
<1>10. CASE NotFound
  BY <1>10, HandledConn DEF NotFound
<1>11. CASE Download
  <2>1. PICK s \in Nat : r' = begin_download(s)
    BY <1>11 DEF Download
  <2> QED BY <1>11, <2>1, DownloadConn DEF Download
<1>12. CASE Flush
  BY <1>12, FlushConn
<1>13. CASE Accept \/ Restart
  BY <1>13, FreshConn DEF Accept, Restart
<1>14. CASE Tools
  BY <1>14, ToolsConn
<1>15. CASE UNCHANGED hvars
  <2>1. RoutesAnswer'
    BY <1>15, RoutesMeaning DEF hvars, HttpInv, ConnInv
  <2>2. RouteAt'
    BY <1>15 DEF hvars, HttpInv, ConnInv, RouteAt, Outcome
  <2> QED BY <1>15, <2>1, <2>2 DEF hvars, vars, standing, HttpInv, ConnInv, Fresh, Owed, Current,
       ReadAgrees, Passed, Refusing, Refused
<1> QED
  BY <1>2, <1>3, <1>4, <1>5, <1>6, <1>7, <1>8, <1>9, <1>10, <1>11, <1>12, <1>13, <1>14, <1>15
  DEF HttpNext

-----------------------------------------------------------------------------
(* Results. *)

\* db.cxx:190-235 - whoever reads the token file, also after a crash between any
\* two steps of a save, finds a whole one.
THEOREM StoreNeverTorn == HttpSpec => []NeverTorn
<1>1. HttpInv => NeverTorn
  BY NotTorn DEF HttpInv, StoreInv, TypeOK, Content, NeverTorn
<1> QED BY <1>1, HttpInitInv, HttpStep, PTL DEF HttpSpec

\* dbtool.cxx:101-155, db.cxx:190-235 - a change that the tool has reported is in
\* effect and survives a crash, wherever earlier runs were killed, except that a
\* report given without a sync while the directory was behind lasts to the next
\* crash; with any number of tokens and of runs one after the other.
THEOREM StoreAckedInEffect == HttpSpec => []AckedInEffect
<1>1. HttpInv => AckedInEffect
  BY NotTorn DEF HttpInv, StoreInv, TypeOK, Content, AllKept, Kept, AckedInEffect, verify_token
<1> QED BY <1>1, HttpInitInv, HttpStep, PTL DEF HttpSpec

\* server.cxx:49-56, auth.cxx:8-17 - what was reported about a request's token when
\* it came decides over it, for all routes that an application can add and
\* wherever a tool was killed.
THEOREM HttpTokensTakeEffect == HttpSpec => []TokensTakeEffect
<1>1. HttpInv => TokensTakeEffect
  <2> SUFFICES ASSUME HttpInv PROVE TokensTakeEffect
    OBVIOUS
  <2>1. r.promise \in {"yes", "no", "maybe"} /\ Passed /\ Refused
    BY DEF HttpInv, ConnInv, Conn
  <2> QED BY <2>1 DEF Passed, Refused, Refusing, TokensTakeEffect, Answered
<1> QED BY <1>1, HttpInitInv, HttpStep, PTL DEF HttpSpec

\* router.cxx:65-98, http_context.cxx:12-16, connection.cxx:319-396 - every request
\* is answered once, taken over or not.
THEOREM HttpOneAnswer == HttpSpec => []OneAnswer
<1>1. HttpInv => OneAnswer
  <2> SUFFICES ASSUME HttpInv PROVE OneAnswer
    OBVIOUS
  <2>1. /\ r.pc \in {"idle", "next", "verify", "flush"} /\ r.respond \in BOOLEAN
        /\ r.done \in BOOLEAN /\ Owed
    BY DEF HttpInv, ConnInv, Conn
  <2> QED BY <2>1 DEF Owed, OneAnswer
<1> QED BY <1>1, HttpInitInv, HttpStep, PTL DEF HttpSpec

\* router.cxx:22-98 - the first route of both tables that takes a request gets it,
\* and 404 and 405 mean what router.h says, whatever routes the application has
\* added and whatever status its handlers set.
THEOREM HttpRoutesAnswer == HttpSpec => []RoutesAnswer
<1>1. HttpInv => RoutesAnswer BY DEF HttpInv, ConnInv
<1> QED BY <1>1, HttpInitInv, HttpStep, PTL DEF HttpSpec
=============================================================================
