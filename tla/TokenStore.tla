----------------------------- MODULE TokenStore -----------------------------
(***************************************************************************)
(* The bearer tokens of the HTTP endpoints: TokenStore and                 *)
(* write_file_atomic (server/db.cxx) as dicker-dbtool changes them         *)
(* (server/dbtool.cxx) and the server reads them for every request         *)
(* (Server::verify_token).                                                 *)
(*                                                                         *)
(* A file's content is the set of tokens it holds, or Torn when it cannot  *)
(* be decrypted.  A crash of the machine keeps what was synced: the        *)
(* content of a file that was not may be torn, and of the files renamed    *)
(* since the directory was last synced it may keep any.  A tool may also   *)
(* end alone, killed between two of its steps.                             *)
(***************************************************************************)
EXTENDS Naturals

CONSTANTS Tool,     \* runs of dicker-dbtool that may be under way together
          Token,
          NoToken,  \* stands for what is in a file that does not decrypt
          MaxRuns   \* bound: runs of the tool

ASSUME NoTokenAssumption == NoToken \notin Token
ASSUME MaxRunsAssumption == MaxRuns \in Nat

VARIABLES live,        \* the token file as processes see it
          durable,     \* the token files a crash may leave: the one the directory
                       \* was last synced with, and those renamed to it since
          tool,        \* the tools: pc, command, its token, temporary file
          runs,        \* runs of the tool so far
          acked,       \* token -> what the last command on it promised
          soft,        \* history: tokens whose promise came without a sync while
                       \* the directory was behind
          unsure       \* history: two tools have been under way together, or the
                       \* store could not be opened

standing == <<soft, unsure>>
vars == <<live, durable, tool, runs, acked, standing>>

Torn  == {NoToken}
Empty == [tokens |-> {}, synced |-> TRUE]
Idle  == [pc |-> "idle", op |-> "add", tok |-> NoToken, tmp |-> Empty]

Init == /\ live = Empty /\ durable = {Empty}
        /\ tool = [t \in Tool |-> Idle]
        /\ runs = 0
        /\ acked = [k \in Token |-> "no"] /\ soft = {} /\ unsure = FALSE

-----------------------------------------------------------------------------
(* dicker-dbtool add-token, del-token *)

\* What the command makes of the tokens it loaded.
Changed(o, k, tokens) == IF o = "add" THEN tokens \cup {k} ELSE tokens \ {k}

\* A command under way makes no promise; one that ends with 0 does.
Pending(k) == acked' = [acked EXCEPT ![k] = "maybe"]
Answer(o) == IF o = "add" THEN "yes" ELSE "no"
Promise(o, k) == acked' = [acked EXCEPT ![k] = Answer(o)]

\* A promise that comes without a sync, and says something new of the token, is
\* a soft one unless the disk has the store as it is.
Unsynced(o, k) ==
  soft' = IF durable = {live} \/ acked[k] = Answer(o) THEN soft ELSE soft \cup {k}

\* The store is loaded.  One that cannot be opened counts as empty, one that does
\* not decrypt is left alone, and so is one the command would not change: the
\* tool then reports success without syncing anything.
read_file(opened) == IF opened THEN live.tokens ELSE {}
Load(t, o, k) ==
  /\ tool[t].pc = "idle" /\ runs < MaxRuns
  /\ runs' = runs + 1
  /\ \E opened \in BOOLEAN :
       LET loaded  == read_file(opened)
           changed == Changed(o, k, loaded)
       IN  /\ unsure' = (unsure \/ ~opened \/ \E other \in Tool : tool[other] # Idle)
           /\ IF loaded = Torn THEN UNCHANGED <<tool, acked, soft>>
              ELSE IF changed = loaded THEN Promise(o, k) /\ Unsynced(o, k) /\ tool' = tool
              ELSE /\ tool' = [tool EXCEPT ![t] =
                                 [pc |-> "fsync", op |-> o, tok |-> k,
                                  tmp |-> [tokens |-> changed, synced |-> FALSE]]]
                   /\ Pending(k) /\ soft' = soft
  /\ UNCHANGED <<live, durable>>

\* Faulty: the temporary file is renamed without being synced.
FsyncSkipped(t) ==
  /\ tool[t].pc = "fsync"
  /\ tool' = [tool EXCEPT ![t].pc = "rename"]
  /\ UNCHANGED <<live, durable, runs, acked, standing>>
Fsync(t) ==
  /\ tool[t].pc = "fsync"
  /\ tool' = [tool EXCEPT ![t].pc = "rename", ![t].tmp.synced = TRUE]
  /\ UNCHANGED <<live, durable, runs, acked, standing>>

\* open, write, fsync or rename fails: the temporary file is removed.
SaveFails(t) ==
  /\ tool[t].pc \in {"fsync", "rename"}
  /\ tool' = [tool EXCEPT ![t] = Idle]
  /\ UNCHANGED <<live, durable, runs, acked, standing>>

Rename(t) ==
  /\ tool[t].pc = "rename"
  /\ live' = tool[t].tmp /\ durable' = durable \cup {live'}
  /\ tool' = [tool EXCEPT ![t].pc = "dirsync", ![t].tmp = Empty]
  /\ UNCHANGED <<runs, acked, standing>>

\* Faulty: the directory is not synced before the tool reports success.
DirSyncSkipped(t) ==
  /\ tool[t].pc = "dirsync"
  /\ tool' = [tool EXCEPT ![t] = Idle]
  /\ Promise(tool[t].op, tool[t].tok)
  /\ UNCHANGED <<live, durable, runs, standing>>
\* The sync of the directory is best effort: success is reported without it too.
DirSync(t) ==
  /\ tool[t].pc = "dirsync"
  /\ \/ durable' = {live} /\ soft' = {}
     \/ durable' = durable /\ soft' = soft \cup {tool[t].tok}
  /\ tool' = [tool EXCEPT ![t] = Idle]
  /\ Promise(tool[t].op, tool[t].tok)
  /\ UNCHANGED <<live, runs, unsure>>

-----------------------------------------------------------------------------
\* The tool is killed between two of its steps and reports nothing.
Killed(t) ==
  /\ tool[t].pc # "idle"
  /\ tool' = [tool EXCEPT ![t] = Idle]
  /\ UNCHANGED <<live, durable, runs, acked, standing>>

\* The machine goes down and comes up again.  Nothing is promised any more about
\* the tokens whose promise was soft.
Crash ==
  /\ \E f \in durable :
       live' \in {[f EXCEPT !.synced = TRUE]}
                 \cup (IF f.synced THEN {} ELSE [tokens : {Torn, {}}, synced : {TRUE}])
  /\ durable' = {live'}
  /\ tool' = [t \in Tool |-> Idle]
  /\ acked' = [k \in Token |-> IF k \in soft THEN "maybe" ELSE acked[k]]
  /\ soft' = {}
  /\ UNCHANGED <<runs, unsure>>

ToolStep == \E t \in Tool : \/ Fsync(t) \/ SaveFails(t) \/ Rename(t) \/ DirSync(t) \/ Killed(t)
                            \/ \E o \in {"add", "del"}, k \in Token : Load(t, o, k)

Next == ToolStep \/ Crash

Spec == Init /\ [][Next]_vars

-----------------------------------------------------------------------------
(* Properties *)

\* Server::verify_token: a store that does not decrypt has no valid token.
verify_token(k) == live.tokens # Torn /\ k \in live.tokens

\* db.h:14-15 "Rewritten atomically (temp file + fsync + rename)": whenever a
\* request or a tool reads it, also after a crash, the file is a whole one.
NeverTorn == live.tokens # Torn

\* dbtool.cxx:101-155, db.cxx:190-235 - once the tool has reported success its
\* change is in effect and no crash takes it back, wherever a tool is killed, as
\* long as the tools are run one after the other and can open the store.  A report
\* given without a sync of the directory ("token already present" after a tool
\* that was killed before it, or a sync that failed) holds until a crash only.
AckedInEffect ==
  ~unsure => \A k \in Token : /\ acked[k] = "yes" => verify_token(k)
                              /\ acked[k] = "no" => ~verify_token(k)
=============================================================================
