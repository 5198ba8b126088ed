----------------------------- MODULE SessionLog -----------------------------
(***************************************************************************)
(* The upload sessions a server knows: their directories and the           *)
(* append-only log of them, SessionLog::append and load_all                *)
(* (server/db.cxx), as Server (server/server.cxx) uses them.  The ids      *)
(* known to be logged are loaded when the server starts; for an upload's   *)
(* handshake the loop thread gets the session's sink, which needs its      *)
(* directory, and appends a row when it does not know the session.         *)
(*                                                                         *)
(* The file is the sequence of what append() wrote.  A piece is a whole    *)
(* row with its newline ("full"), a whole row without it ("bare") or a     *)
(* part of a row ("cut"); the last two are what a short write, or a crash  *)
(* before fsync(), leaves.  A line reaches to the next newline or to the   *)
(* end of the file.  Sealing is modelled by what it guarantees: only a     *)
(* line that is exactly one whole row can be opened again.                 *)
(***************************************************************************)
EXTENDS Naturals, Sequences, FiniteSets

CONSTANTS Session,      \* session ids
          MaxPieces     \* bound: appends that leave something in the file

ASSUME MaxPiecesAssumption == MaxPieces \in Nat

VARIABLES file,     \* sequence of pieces
          logged,   \* logged_sessions_
          dir,      \* sessions that have a directory below the root
          sinks_,   \* sessions with a FileSink
          pc, sid,  \* loop thread: "down", "idle", "record" or "sync"; session at hand
          recorded, \* history: sessions for which append() has succeeded
          unread,   \* history: a start could not open a log that was there
          removed   \* history: directories lost in a crash or removed by hand

store   == <<file, logged>>
roots   == <<dir, sinks_, removed>>
hist    == <<recorded, unread>>
logvars == <<store, roots, pc, sid, hist>>

\* Piece i is a line of its own that holds a whole row.
IsLine(f, i) == /\ f[i].form = "full" \/ (f[i].form = "bare" /\ i = Len(f))
                /\ i > 1 => f[i - 1].form = "full"

\* Faulty: reading ends at the first line that does not decode.
RowsUntilTorn(f) == {i \in DOMAIN f : \A j \in 1 .. i : IsLine(f, j)}
\* load_all: lines that do not decode are skipped.
Rows(f) == {i \in DOMAIN f : IsLine(f, i)}
Listed(f) == {f[i].id : i \in Rows(f)}

LogInit == /\ file = <<>> /\ logged = {} /\ recorded = {} /\ unread = FALSE /\ pc = "down"
           /\ dir = {} /\ sinks_ = {} /\ removed = {}
           /\ sid \in Session

-----------------------------------------------------------------------------
(* The server's start, and an upload's handshake on the loop thread *)

\* Faulty: the ids in the log are not loaded.
PreloadNothing == {}
Preload == Listed(file)

\* Server::Server.  A log that cannot be opened counts as no log yet.
Start == /\ pc = "down"
         /\ pc' = "idle"
         /\ \/ logged' = Preload /\ UNCHANGED unread
            \/ file # <<>> /\ logged' = {} /\ unread' = TRUE
         /\ UNCHANGED <<file, roots, sid, recorded>>

\* Faulty: the session is recorded although it has no directory.
Made_Anyway(s) == dir' \in {dir, dir \cup {s}} /\ pc' = "record"
\* create_directories(): the handshake is answered with ServerError when the
\* directory is not there after it.  (A file of that name would pass exists() as
\* well; nothing the server does makes one.)
Made(s) == \/ dir' = dir \cup {s} /\ pc' = "record"
           \/ s \notin dir /\ dir' = dir /\ pc' = "idle"

\* get_or_create_sink: the sink of an earlier handshake, or a new one.
get_or_create_sink(s) ==
  /\ pc = "idle"
  /\ sid' = s
  /\ IF s \in sinks_ THEN pc' = "record" /\ dir' = dir ELSE Made(s)
  /\ sinks_' = IF pc' = "record" THEN sinks_ \cup {s} ELSE sinks_
  /\ UNCHANGED <<store, removed, hist>>

-----------------------------------------------------------------------------
(* record_session and SessionLog::append *)

\* The session is known, or the log cannot be opened for appending.
NotRecorded == /\ pc = "record"
               /\ pc' = "idle"
               /\ UNCHANGED <<store, roots, sid, hist>>

\* The row is handed to the system in one write().
Append1 == /\ pc = "record" /\ sid \notin logged /\ Len(file) < MaxPieces
           /\ file' = Append(file, [id |-> sid, form |-> "full"])
           /\ pc' = "sync"
           /\ UNCHANGED <<logged, roots, sid, hist>>

\* The write is short: append() fails and the session stays unknown.
AppendShort == /\ pc = "record" /\ sid \notin logged /\ Len(file) < MaxPieces
               /\ \E form \in {"bare", "cut"} :
                    file' = Append(file, [id |-> sid, form |-> form])
               /\ pc' = "idle"
               /\ UNCHANGED <<logged, roots, sid, hist>>

\* append() succeeds: the session is known from now on.  It does not look at what
\* fsync() returns; here the row is on the disk after it.
Synced == /\ pc = "sync"
          /\ logged' = logged \cup {sid} /\ recorded' = recorded \cup {sid}
          /\ pc' = "idle"
          /\ UNCHANGED <<file, roots, sid, unread>>

-----------------------------------------------------------------------------
(* What happens to the server and its disk *)

\* The server process ends; what it wrote stays in the system's hands.
Stop == /\ pc # "down"
        /\ pc' = "down" /\ logged' = {} /\ sinks_' = {}
        /\ UNCHANGED <<file, dir, removed, sid, hist>>

\* The machine goes down.  Before the fsync() the row may be there, or the
\* beginning of it, or nothing; directories are never synced.
LogCrash ==
  /\ pc # "down"
  /\ \/ file' = file
     \/ pc = "sync" /\ \E form \in {"bare", "cut"} :
                          file' = [file EXCEPT ![Len(file)].form = form]
     \/ pc = "sync" /\ file' = SubSeq(file, 1, Len(file) - 1)
  /\ dir' \in SUBSET dir /\ removed' = removed \cup (dir \ dir')
  /\ pc' = "down" /\ logged' = {} /\ sinks_' = {}
  /\ UNCHANGED <<sid, hist>>

\* An operator removes a session's files, whether or not the server runs.
RemoveDirectory(s) ==
  /\ s \in dir
  /\ dir' = dir \ {s} /\ removed' = removed \cup {s}
  /\ UNCHANGED <<store, sinks_, pc, sid, hist>>

LogNext == \/ Start \/ NotRecorded \/ Append1 \/ AppendShort \/ Synced \/ Stop \/ LogCrash
           \/ \E s \in Session : get_or_create_sink(s) \/ RemoveDirectory(s)

LogSpec == LogInit /\ [][LogNext]_logvars

-----------------------------------------------------------------------------
(* Properties *)

\* server.cxx:39 "Preload the ids already in the session log so we never append
\* duplicates": however often the server is restarted or a write torn, no
\* session has two rows that decode, unless the log could once not be opened.
NoDuplicates == ~unread => \A i, j \in Rows(file) : file[i].id = file[j].id => i = j

\* db.h:35-38, db.cxx:330-398, server.cxx:39-67 - what a torn row costs.  A session
\* whose append() has succeeded, or which the server takes for recorded, is
\* listed from then on, whatever short writes, crashes and restarts come, unless
\* its row touches a torn piece: a piece without its newline spoils itself and
\* the one row written after it, though that append() succeeded (db.h speaks of
\* "a torn/corrupt final line" only), and no other row before or after.
Spoilt(f, i) == f[i].form # "full" \/ (i > 1 /\ f[i - 1].form # "full")
RecordedListed ==
  \A s \in recorded \cup logged :
    \/ s \in Listed(file)
    \/ \E i \in DOMAIN file : file[i].id = s /\ file[i].form # "cut" /\ Spoilt(file, i)

\* controllers/uploads.cxx:33-34 "A session whose directory has since disappeared
\* simply errors at download time": a session GET /uploads lists has had its
\* directory, so that it can be downloaded until the directory is lost; no
\* failed handshake, crash or restart lists one that was never there.
ListedHadDirectory == \A s \in Listed(file) : s \in dir \cup removed
=============================================================================
