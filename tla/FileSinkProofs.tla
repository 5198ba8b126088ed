--------------------------- MODULE FileSinkProofs ---------------------------
(***************************************************************************)
(* Proofs about the file sink and the archive made of what it wrote.       *)
(* For any connections, names, file size and chunk size a big file has one *)
(* descriptor, the cells of every unit reported as received stay where     *)
(* they belong, and only files below the session's directory are written;  *)
(* this is stated for the sink alone and carried over to the sink with a   *)
(* download beside it.  For any block and buffer sizes the archive that    *)
(* the download sends is one a reader can read back, with every file that  *)
(* nobody touched in it, byte for byte.                                    *)
(***************************************************************************)
EXTENDS Archive, FiniteSetTheorems, SequenceTheorems, WellFoundedInduction, TLAPS

Cell == {"Old", "Hole", "New", "absent"}

\* The cells o + 1 .. o + n of p are there and New.
Covered(p, o, n) == \A i \in o + 1 .. o + n : i <= Len(disk[p]) /\ disk[p][i] = "New"

\* Every variable of the sink and of its connections has its type.
TypeOK ==
  /\ DOMAIN disk = Path /\ \A p \in Path : disk[p] \in Seq(Cell)
  /\ chunk_files_ \subseteq BigPath /\ opened \in [BigPath -> Int]
  /\ mutex \in Conn \cup {NoConn}
  /\ pc \in [Conn -> {"idle", "open", "lock", "create", "write", "ended"}]
  /\ DOMAIN unit = Conn /\ run \in [Conn -> Nat]
  /\ taken \subseteq Units /\ received \subseteq taken

Busy(c) == pc[c] \in {"open", "lock", "create", "write"}

\* A unit is in one pair of hands, and nobody's once it is received.
OneWriter == /\ \A c \in Conn : Busy(c) => unit[c] \in taken \ received
             /\ \A c, d \in Conn : Busy(c) /\ Busy(d) /\ unit[c] = unit[d] => c = d

\* What a connection knows of its file, and who opens one holds the mutex.
Opening ==
  \A c \in Conn :
    /\ pc[c] = "open"   => unit[c].name \in Small
    /\ pc[c] = "lock"   => unit[c].name \in Big
    /\ pc[c] = "create" => /\ unit[c].name \in Big /\ mutex = c
                           /\ File(unit[c]) \in BigPath \ chunk_files_
    /\ pc[c] = "write"  => File(unit[c]) \in Path

\* Nothing is written before the file is open; what is written is on the disk.
Fresh == \A c \in Conn : pc[c] \in {"open", "lock", "create"} => run[c] = 0
Written == \A c \in Conn : pc[c] = "write" => Covered(File(unit[c]), unit[c].offset, run[c])
Resolved == \A u \in received : File(u) \in Path /\ u.length \in Nat

SinkInv == /\ TypeOK /\ OneDescriptor /\ OneWriter /\ Opening
           /\ Fresh /\ Written /\ Resolved /\ ReceivedOnDisk

-----------------------------------------------------------------------------
(* Induction over the naturals, as a fact about sets. *)
LEMMA LeastNumber ==
  ASSUME NEW S \in SUBSET Nat, S # {}
  PROVE  \E i \in S : \A j \in S : i <= j
<1> DEFINE R == OpToRel(<, Nat)
<1>1. IsWellFoundedOn(R, Nat)
  BY NatLessThanWellFounded
<1>2. \A i, j \in Nat : <<i, j>> \in R <=> i < j
  BY DEF OpToRel
<1> HIDE DEF R
<1>3. PICK i \in S : \A j \in S : ~ (<<j, i>> \in R)
  BY <1>1, WFMin
<1>4. ASSUME NEW j \in S PROVE i <= j
  <2>1. ~ (j < i) /\ i \in Nat /\ j \in Nat
    BY <1>2, <1>3
  <2> QED BY <2>1
<1> QED BY <1>4

LEMMA Induction ==
  ASSUME NEW S, 0 \in S, \A n \in Nat : n \in S => n + 1 \in S
  PROVE  \A n \in Nat : n \in S
<1> DEFINE Rest == {n \in Nat : n \notin S}
<1> SUFFICES ASSUME Rest # {} PROVE FALSE
  OBVIOUS
<1>1. Rest \in SUBSET Nat
  OBVIOUS
<1> HIDE DEF Rest
<1>2. PICK n \in Rest : \A m \in Rest : n <= m
  BY <1>1, LeastNumber
<1>3. n \in Nat /\ n \notin S /\ n # 0
  BY <1>2 DEF Rest
<1>4. n - 1 \in Nat /\ ~(n <= n - 1) /\ (n - 1) + 1 = n
  BY <1>3
<1>5. n - 1 \in S
  BY <1>2, <1>4 DEF Rest
<1> QED BY <1>3, <1>4, <1>5

-----------------------------------------------------------------------------
(* Units, paths and contents *)

\* A whole file is one unit: two units of one small name are the same.
LEMMA UnitFacts ==
  /\ \A u \in Units : u.name \in Small \cup Big /\ u.offset \in Nat
  /\ \A u \in Units : u.name \in Small => u.name \notin Big /\ u.offset = 0
  /\ \A u, v \in Units : u.name \in Small /\ v.name = u.name => u = v
<1>1. \A u \in Units :
        \/ \E n \in Small : u = [name |-> n, offset |-> 0, length |-> Size]
        \/ \E n \in Big, o \in Offsets :
             u = [name |-> n, offset |-> o, length |-> Min({Chunk, Size - o})]
  BY DEF Units
<1>2. \A o \in Offsets : o \in Nat
  BY FileSinkAssumption DEF Offsets
<1>3. \A n \in Small : n \notin Big
  BY FileSinkAssumption
<1> HIDE DEF Units, Offsets
<1>4. ASSUME NEW u \in Units
      PROVE  /\ u.name \in Small \cup Big /\ u.offset \in Nat
             /\ u.name \in Small => u = [name |-> u.name, offset |-> 0, length |-> Size]
  <2>1. CASE \E n \in Small : u = [name |-> n, offset |-> 0, length |-> Size]
    BY <2>1
  <2>2. CASE \E n \in Big, o \in Offsets :
               u = [name |-> n, offset |-> o, length |-> Min({Chunk, Size - o})]
    <3>1. PICK n \in Big, o \in Offsets :
                 \E l : u = [name |-> n, offset |-> o, length |-> l]
      BY <2>2
    <3>2. u.name = n /\ u.offset = o
      BY <3>1
    <3> QED
      BY <3>2, <1>2, <1>3
  <2> QED
    BY <1>1, <2>1, <2>2
<1>5. \A u \in Units : u.name \in Small => u = [name |-> u.name, offset |-> 0, length |-> Size]
  BY <1>4
<1>6. \A u, v \in Units : u.name \in Small /\ v.name = u.name => u = v
  BY <1>5
<1>7. \A u \in Units : u.name \in Small => u.name \notin Big /\ u.offset = 0
  BY <1>5, <1>3
<1> QED
  BY <1>4, <1>6, <1>7

\* What a name that is not refused resolves to is a path; only the unit itself
\* has the path of a small file.
LEMMA FileFacts ==
  /\ \A u \in Units : File(u) # Rejected => File(u) \in Path
  /\ \A u \in Units : File(u) # Rejected /\ u.name \in Big => File(u) \in BigPath
  /\ \A u, v \in Units : u.name \in Small /\ File(u) # Rejected /\ File(v) = File(u) => u = v
  /\ BigPath \subseteq Path /\ Rejected \notin Path
<1>1. \A u \in Units : File(u) # Rejected /\ u.name \in Big => File(u) \in BigPath
  BY DEF File, BigPath
<1>2. \A u \in Units : File(u) # Rejected => File(u) \in Path
  BY UnitFacts DEF File, BigPath, Path
<1>3. \A u, v \in Units : u.name \in Small /\ File(u) # Rejected /\ File(v) = File(u) => u = v
  BY UnitFacts, NamesAssumption DEF File
<1>4. BigPath \subseteq Path /\ Rejected \notin Path
  BY DEF BigPath, Path
<1> QED
  BY <1>1, <1>2, <1>3, <1>4

LEMMA MaxOfTwo ==
  ASSUME NEW a \in Nat, NEW b \in Nat
  PROVE  Max({a, b}) \in Nat /\ Max({a, b}) >= a /\ Max({a, b}) >= b
<1>1. \E x \in {a, b} : \A y \in {a, b} : x >= y
  OBVIOUS
<1>2. Max({a, b}) \in {a, b} /\ \A y \in {a, b} : Max({a, b}) >= y
  BY <1>1 DEF Max
<1> QED
  BY <1>2

\* A write puts its cell in its place and takes no New cell away.
LEMMA WriteAtKeeps ==
  ASSUME NEW s \in Seq(Cell), NEW o \in Nat
  PROVE  /\ WriteAt(s, o) \in Seq(Cell)
         /\ o + 1 <= Len(WriteAt(s, o)) /\ WriteAt(s, o)[o + 1] = "New"
         /\ \A i \in 1 .. Len(s) : s[i] = "New" =>
              i <= Len(WriteAt(s, o)) /\ WriteAt(s, o)[i] = "New"
<1>1. PICK n \in Nat : n = Len(s)
  OBVIOUS
<1>2. PICK m \in Nat : m = Max({n, o + 1}) /\ m >= n /\ m >= o + 1
  BY MaxOfTwo
<1>3. \A i \in 1 .. n : s[i] \in Cell
  BY <1>1
<1>4. PICK t : t = WriteAt(s, o)
  OBVIOUS
<1>5. t = [i \in 1 .. m |-> IF i = o + 1 THEN "New" ELSE IF i <= n THEN s[i] ELSE "Hole"]
  BY <1>1, <1>2, <1>4 DEF WriteAt
<1>6. \A i \in 1 .. m : t[i] = IF i = o + 1 THEN "New" ELSE IF i <= n THEN s[i] ELSE "Hole"
  BY <1>5
<1>7. \A i \in 1 .. m : (IF i = o + 1 THEN "New" ELSE IF i <= n THEN s[i] ELSE "Hole") \in Cell
  BY <1>3 DEF Cell
<1>8. t \in Seq(Cell) /\ Len(t) = m
  BY <1>5, <1>7
<1>9. t[o + 1] = "New"
  <2>1. o + 1 \in 1 .. m
    BY <1>2
  <2> QED
    BY <2>1, <1>6
<1>10. ASSUME NEW i \in 1 .. n, s[i] = "New"  PROVE  i <= m /\ t[i] = "New"
  <2>1. i \in 1 .. m /\ i <= n
    BY <1>2
  <2> QED
    BY <2>1, <1>6, <1>10
<1> QED
  BY <1>1, <1>2, <1>4, <1>8, <1>9, <1>10

\* A step that keeps the New cells of a file keeps what is covered of it.
KeepsNew(p) == \A i \in 1 .. Len(disk[p]) : disk[p][i] = "New" =>
                 i <= Len(disk'[p]) /\ disk'[p][i] = "New"

LEMMA CoveredKept ==
  ASSUME TypeOK, NEW p \in Path, KeepsNew(p), NEW o \in Nat, NEW n \in Nat, Covered(p, o, n)
  PROVE  \A i \in o + 1 .. o + n : i <= Len(disk'[p]) /\ disk'[p][i] = "New"
<1> SUFFICES ASSUME NEW i \in o + 1 .. o + n
             PROVE  i <= Len(disk'[p]) /\ disk'[p][i] = "New"
  OBVIOUS
<1>1. i <= Len(disk[p]) /\ disk[p][i] = "New"
  BY DEF Covered
<1>2. Len(disk[p]) \in Nat
  BY DEF TypeOK
<1>3. i \in 1 .. Len(disk[p])
  BY <1>1, <1>2
<1> QED
  BY <1>1, <1>3 DEF KeepsNew

-----------------------------------------------------------------------------
(* The registry, the mutex and the hands a unit is in *)

ControlInv == TypeOK /\ OneDescriptor /\ OneWriter /\ Opening

LEMMA SinkInit == Init => SinkInv
<1> SUFFICES ASSUME Init PROVE SinkInv
  OBVIOUS
<1>1. \A p \in Path : disk[p] \in Seq(Cell)
  <2>1. PICK content \in {Absent, [i \in 1 .. Size + 1 |-> "Old"]} : disk = [p \in Path |-> content]
    BY DEF Init
  <2>2. Absent \in Seq(Cell)
    BY DEF Absent, Cell
  <2>3. [i \in 1 .. Size + 1 |-> "Old"] \in Seq(Cell)
    BY FileSinkAssumption DEF Cell
  <2> QED
    BY <2>1, <2>2, <2>3
<1>2. DOMAIN disk = Path
  BY DEF Init
<1>3. TypeOK
  BY <1>1, <1>2 DEF Init, TypeOK
<1>4. \A c \in Conn : pc[c] = "idle"
  BY DEF Init
<1>5. OneDescriptor /\ Resolved /\ ReceivedOnDisk
  BY DEF Init, OneDescriptor, Resolved, ReceivedOnDisk
<1>6. OneWriter /\ Opening /\ Written
  BY <1>4 DEF OneWriter, Opening, Written, Busy
<1>7. Fresh
  BY DEF Init, Fresh
<1> QED
  BY <1>3, <1>5, <1>6, <1>7 DEF SinkInv

\* The steps of a connection that give it no new unit and open no shared file.
LEMMA ControlQuiet ==
  ASSUME ControlInv, Resolved, NEW c \in Conn,
         \/ open_sequential(c) \/ Lookup(c) \/ OpenFails(c)
         \/ Write(c) \/ Finish(c) \/ Lost(c)
  PROVE  /\ OneDescriptor' /\ OneWriter' /\ Opening'
         /\ chunk_files_' \subseteq BigPath /\ opened' \in [BigPath -> Int]
         /\ mutex' \in Conn \cup {NoConn}
         /\ pc' \in [Conn -> {"idle", "open", "lock", "create", "write", "ended"}]
         /\ DOMAIN unit' = Conn /\ run' \in [Conn -> Nat]
         /\ taken' \subseteq Units /\ received' \subseteq taken'
<1> USE DEF ControlInv
<1>1. chunk_files_' = chunk_files_ /\ opened' = opened /\ unit' = unit /\ taken' = taken
  BY DEF open_sequential, Lookup, OpenFails, Write, Finish, Lost
<1>2. OneDescriptor'
  BY <1>1 DEF OneDescriptor
<1>3. PICK to \in {"idle", "write", "create", "ended"} :
        pc' = [pc EXCEPT ![c] = to] /\ (to = "create" => pc[c] = "lock")
  <2>1. CASE Write(c)
    <3>1. pc' = [pc EXCEPT ![c] = "write"]
      BY <2>1 DEF Write, TypeOK
    <3> QED
      BY <3>1
  <2> QED
    BY <2>1 DEF open_sequential, Lookup, OpenFails, Finish, Lost, Goto
<1>4. Busy(c)
  BY DEF open_sequential, Lookup, OpenFails, Write, Finish, Lost, Busy
<1>5. pc' \in [Conn -> {"idle", "open", "lock", "create", "write", "ended"}]
  BY <1>3 DEF TypeOK
<1>6. pc'[c] = to /\ \A d \in Conn : d # c => pc'[d] = pc[d]
  BY <1>3 DEF TypeOK
<1>7. run' \in [Conn -> Nat]
  <2>1. CASE Write(c)
    <3>1. run' = [run EXCEPT ![c] = run[c] + 1] /\ run[c] + 1 \in Nat
      BY <2>1 DEF Write, TypeOK
    <3> QED
      BY <3>1 DEF TypeOK
  <2> QED
    BY <2>1 DEF open_sequential, Lookup, OpenFails, Finish, Lost, TypeOK
<1>8. unit[c] \in taken \ received /\ unit[c] \in Units
  BY <1>4 DEF OneWriter, TypeOK
<1>9. received' \subseteq received \cup {unit[c]} /\ (received' # received => to = "idle")
  <2>1. CASE Finish(c)
    BY <2>1, <1>3, <1>6 DEF Finish, Goto, TypeOK
  <2> QED
    BY <2>1 DEF open_sequential, Lookup, OpenFails, Write, Lost
<1>10. taken' \subseteq Units /\ received' \subseteq taken'
  BY <1>1, <1>8, <1>9 DEF TypeOK
<1>11. mutex' \in Conn \cup {NoConn}
  BY DEF open_sequential, Lookup, OpenFails, Write, Finish, Lost, TypeOK
<1>12. OneWriter'
  <2>1. \A d \in Conn : Busy(d)' => Busy(d)
    BY <1>4, <1>6 DEF Busy
  <2>2. ASSUME NEW d \in Conn, Busy(d)' PROVE unit'[d] \in taken' \ received'
    <3>1. unit[d] \in taken \ received
      BY <2>1, <2>2 DEF OneWriter
    <3>2. CASE received' = received
      BY <3>1, <3>2, <1>1
    <3>3. CASE received' # received
      <4>1. pc'[c] = "idle"
        BY <3>3, <1>9, <1>6
      <4>2. d # c
        BY <4>1, <2>2 DEF Busy
      <4>3. unit[d] # unit[c]
        BY <4>2, <2>1, <2>2, <1>4 DEF OneWriter
      <4> QED
        BY <3>1, <4>3, <1>9, <1>1
    <3> QED
      BY <3>2, <3>3
  <2>3. \A d, e \in Conn : Busy(d)' /\ Busy(e)' /\ unit'[d] = unit'[e] => d = e
    BY <2>1, <1>1 DEF OneWriter
  <2> QED
    BY <2>2, <2>3 DEF OneWriter
<1>13. Opening'
  <2> SUFFICES ASSUME NEW d \in Conn
               PROVE  /\ pc'[d] = "open"   => unit[d].name \in Small
                      /\ pc'[d] = "lock"   => unit[d].name \in Big
                      /\ pc'[d] = "create" => /\ unit[d].name \in Big /\ mutex' = d
                                              /\ File(unit[d]) \in BigPath \ chunk_files_
                      /\ pc'[d] = "write"  => File(unit[d]) \in Path
    BY <1>1 DEF Opening, File
  <2>1. CASE d # c
    <3>1. pc'[d] = pc[d]
      BY <2>1, <1>6
    <3>2. pc[d] = "create" => mutex' = d
      <4>1. pc[d] = "create" => mutex = d /\ mutex # NoConn
        BY FileSinkAssumption DEF Opening
      <4> QED
        BY <4>1, <2>1 DEF open_sequential, Lookup, OpenFails, Write, Finish, Lost
    <3> QED
      BY <3>1, <3>2 DEF Opening
  <2>2. CASE d = c
    <3>1. pc'[c] \notin {"open", "lock"}
      BY <1>6
    <3>2. ASSUME pc'[c] = "create"
          PROVE  unit[c].name \in Big /\ mutex' = c /\ File(unit[c]) \in BigPath \ chunk_files_
      <4>1. pc[c] = "lock"
        BY <3>2, <1>3, <1>6
      <4>2. Lookup(c) /\ File(unit[c]) \notin chunk_files_ /\ mutex' = c /\ File(unit[c]) # Rejected
        <5>1. ~OpenFails(c)
          BY <3>2, <1>6 DEF OpenFails, Goto, TypeOK
        <5>2. Lookup(c)
          BY <4>1, <5>1 DEF open_sequential, Lookup, Write, Finish, Lost
        <5> QED
          BY <5>2, <3>2 DEF Lookup, Goto, TypeOK
      <4>3. unit[c].name \in Big
        BY <4>1 DEF Opening
      <4> QED
        BY <4>2, <4>3, <1>8, FileFacts
    <3>3. ASSUME pc'[c] = "write" PROVE File(unit[c]) \in Path
      <4>1. CASE Write(c)
        BY <4>1 DEF Write, Opening
      <4>2. CASE open_sequential(c) \/ Lookup(c)
        BY <4>2, <1>8, FileFacts DEF open_sequential, Lookup
      <4>3. ~OpenFails(c) /\ ~Finish(c) /\ ~Lost(c)
        BY <3>3 DEF OpenFails, Finish, Lost, Goto, TypeOK
      <4> QED
        BY <4>1, <4>2, <4>3
    <3> QED
      BY <2>2, <3>1, <3>2, <3>3
  <2> QED
    BY <2>1, <2>2
<1> QED
  BY <1>1, <1>2, <1>5, <1>7, <1>10, <1>11, <1>12, <1>13 DEF TypeOK

LEMMA ControlBegin ==
  ASSUME ControlInv, NEW c \in Conn, NEW u \in Units, Begin(c, u)
  PROVE  ControlInv'
<1> USE DEF ControlInv
<1> DEFINE to == IF u.name \in Small THEN "open" ELSE "lock"
<1>1. pc' \in [Conn -> {"idle", "open", "lock", "create", "write", "ended"}]
  BY DEF Begin, Goto, TypeOK
<1>2. pc'[c] = to /\ \A d \in Conn : d # c => pc'[d] = pc[d]
  BY DEF Begin, Goto, TypeOK
<1>3. unit'[c] = u /\ DOMAIN unit' = Conn /\ \A d \in Conn : d # c => unit'[d] = unit[d]
  BY DEF Begin, TypeOK
<1>4. taken' = taken \cup {u} /\ u \notin taken /\ received' = received
  BY DEF Begin
<1>5. TypeOK'
  <2>1. run' \in [Conn -> Nat]
    BY DEF Begin, TypeOK
  <2>2. disk' = disk /\ chunk_files_' = chunk_files_ /\ opened' = opened /\ mutex' = mutex
    BY DEF Begin
  <2>3. taken' \subseteq Units /\ received' \subseteq taken'
    BY <1>4 DEF TypeOK
  <2> QED
    BY <1>1, <1>3, <2>1, <2>2, <2>3 DEF TypeOK
<1>6. OneDescriptor'
  BY DEF Begin, OneDescriptor
<1>7. OneWriter'
  <2>1. \A d \in Conn : d # c => (Busy(d)' <=> Busy(d))
    BY <1>2 DEF Busy
  <2>2. \A d \in Conn : d # c /\ Busy(d) => unit'[d] \in taken \ received /\ unit'[d] # u
    BY <1>3, <1>4 DEF OneWriter
  <2>3. u \in taken' \ received'
    BY <1>4 DEF TypeOK
  <2> QED
    BY <1>3, <1>4, <2>1, <2>2, <2>3 DEF OneWriter
<1>8. Opening'
  <2> SUFFICES ASSUME NEW d \in Conn
               PROVE  /\ pc'[d] = "open"   => unit'[d].name \in Small
                      /\ pc'[d] = "lock"   => unit'[d].name \in Big
                      /\ pc'[d] = "create" => /\ unit'[d].name \in Big /\ mutex = d
                                              /\ File(unit'[d]) \in BigPath \ chunk_files_
                      /\ pc'[d] = "write"  => File(unit'[d]) \in Path
    BY DEF Opening, File, Begin
  <2>1. CASE d = c
    BY <2>1, <1>2, <1>3, UnitFacts
  <2>2. CASE d # c
    BY <2>2, <1>2, <1>3 DEF Opening
  <2> QED
    BY <2>1, <2>2
<1> QED
  BY <1>5, <1>6, <1>7, <1>8

\* The one who opens a shared file holds the mutex, so no other connection has
\* found the registry without it.
LEMMA ControlCreate ==
  ASSUME ControlInv, NEW c \in Conn, Create(c)
  PROVE  /\ OneDescriptor' /\ OneWriter' /\ Opening'
         /\ chunk_files_' \subseteq BigPath /\ opened' \in [BigPath -> Int]
         /\ mutex' \in Conn \cup {NoConn}
         /\ pc' \in [Conn -> {"idle", "open", "lock", "create", "write", "ended"}]
         /\ DOMAIN unit' = Conn /\ run' \in [Conn -> Nat]
         /\ taken' \subseteq Units /\ received' \subseteq taken'
<1> USE DEF ControlInv
<1>1. pc[c] = "create" /\ mutex = c /\ File(unit[c]) \in BigPath /\ File(unit[c]) \notin chunk_files_
  BY DEF Create, Opening
<1>2. pc' \in [Conn -> {"idle", "open", "lock", "create", "write", "ended"}]
  BY DEF Create, Goto, TypeOK
<1>3. pc'[c] = "write" /\ \A d \in Conn : d # c => pc'[d] = pc[d]
  BY DEF Create, Goto, TypeOK
<1>4. /\ unit' = unit /\ run' = run /\ taken' = taken /\ received' = received
      /\ mutex' = NoConn /\ chunk_files_' = chunk_files_ \cup {File(unit[c])}
  BY DEF Create
<1>5. PICK p \in BigPath : p = File(unit[c])
  BY <1>1
<1>6. opened' = [opened EXCEPT ![p] = opened[p] + 1]
  BY <1>5 DEF Create
<1>7. opened[p] = 0
  BY <1>1, <1>5 DEF OneDescriptor
<1>8. opened' \in [BigPath -> Int] /\ opened'[p] = 1 /\ \A q \in BigPath : q # p => opened'[q] = opened[q]
  BY <1>6, <1>7 DEF TypeOK
<1>9. OneDescriptor'
  BY <1>4, <1>5, <1>8 DEF OneDescriptor
<1>10. OneWriter'
  <2>1. \A d \in Conn : Busy(d)' <=> Busy(d)
    BY <1>1, <1>3 DEF Busy
  <2> QED
    BY <2>1, <1>4 DEF OneWriter
<1>11. Opening'
  <2> SUFFICES ASSUME NEW d \in Conn
               PROVE  /\ pc'[d] = "open"   => unit[d].name \in Small
                      /\ pc'[d] = "lock"   => unit[d].name \in Big
                      /\ pc'[d] # "create"
                      /\ pc'[d] = "write"  => File(unit[d]) \in Path
    BY <1>4 DEF Opening, File
  <2>1. CASE d = c
    BY <2>1, <1>1, <1>3, FileFacts
  <2>2. CASE d # c
    <3>1. pc[d] # "create"
      BY <2>2, <1>1 DEF Opening
    <3> QED
      BY <3>1, <2>2, <1>3 DEF Opening
  <2> QED
    BY <2>1, <2>2
<1>12. chunk_files_' \subseteq BigPath
  BY <1>4, <1>1 DEF TypeOK
<1> QED
  BY <1>2, <1>4, <1>8, <1>9, <1>10, <1>11, <1>12 DEF TypeOK

LEMMA ControlClose ==
  ASSUME ControlInv, close_all
  PROVE  ControlInv'
<1> USE DEF ControlInv
<1>1. pc' \in [Conn -> {"idle", "open", "lock", "create", "write", "ended"}]
  BY DEF close_all
<1>2. \A c \in Conn : pc'[c] = "ended"
  BY DEF close_all
<1>3. chunk_files_' = {} /\ opened' = [p \in BigPath |-> 0]
  <2>1. \A p \in BigPath : (IF p \in chunk_files_ THEN opened[p] - 1 ELSE opened[p]) = 0
    BY DEF OneDescriptor
  <2> QED
    BY <2>1 DEF close_all
<1>4. TypeOK'
  BY <1>1, <1>3 DEF close_all, TypeOK
<1>5. OneDescriptor'
  BY <1>3 DEF OneDescriptor
<1>6. OneWriter' /\ Opening'
  BY <1>2 DEF OneWriter, Opening, Busy
<1> QED
  BY <1>4, <1>5, <1>6

-----------------------------------------------------------------------------
(* What is on the disk *)

DiskOK == DOMAIN disk = Path /\ \A p \in Path : disk[p] \in Seq(Cell)

\* Opening a small file empties that file and no other.
LEMMA DiskOpen ==
  ASSUME SinkInv, NEW c \in Conn, open_sequential(c)
  PROVE  /\ DiskOK' /\ disk'[File(unit[c])] = <<>>
         /\ \A p \in Path : p # File(unit[c]) => KeepsNew(p)
<1> USE DEF SinkInv
<1>1. PICK f \in Path : f = File(unit[c])
  BY FileFacts DEF open_sequential, OneWriter, Busy, TypeOK
<1>2. disk' = [disk EXCEPT ![f] = <<>>]
  BY <1>1 DEF open_sequential
<1>3. disk'[f] = <<>> /\ DOMAIN disk' = Path /\ \A p \in Path : p # f => disk'[p] = disk[p]
  BY <1>2 DEF TypeOK
<1>4. <<>> \in Seq(Cell)
  OBVIOUS
<1>5. DiskOK'
  BY <1>3, <1>4 DEF DiskOK, TypeOK
<1>6. ASSUME NEW p \in Path, p # f PROVE KeepsNew(p)
  <2>1. disk[p] \in Seq(Cell) /\ Len(disk[p]) \in Nat /\ disk'[p] = disk[p]
    BY <1>3, <1>6 DEF TypeOK
  <2> QED
    BY <2>1 DEF KeepsNew
<1> QED
  BY <1>1, <1>3, <1>5, <1>6

\* Opening a big file takes no New cell away.
LEMMA DiskCreate ==
  ASSUME SinkInv, NEW c \in Conn, Create(c)
  PROVE  DiskOK' /\ \A p \in Path : KeepsNew(p)
<1> USE DEF SinkInv
<1>1. PICK f \in Path : f = File(unit[c])
  BY FileFacts DEF Create, Opening
<1>2. disk' = [disk EXCEPT ![f] = Ensured(disk[f])]
  BY <1>1 DEF Create
<1>3. disk'[f] = Ensured(disk[f]) /\ DOMAIN disk' = Path /\ \A p \in Path : p # f => disk'[p] = disk[p]
  BY <1>2 DEF TypeOK
<1>4. Ensured(disk[f]) \in Seq(Cell)
  BY DEF Ensured, TypeOK
<1>5. DiskOK'
  BY <1>3, <1>4 DEF DiskOK, TypeOK
<1>6. ASSUME NEW p \in Path PROVE KeepsNew(p)
  <2>1. disk[p] \in Seq(Cell) /\ Len(disk[p]) \in Nat
    BY DEF TypeOK
  <2>2. CASE disk'[p] = disk[p]
    BY <2>1, <2>2 DEF KeepsNew
  <2>3. CASE disk'[p] # disk[p]
    <3>1. disk[p] = Absent
      BY <2>3, <1>3 DEF Ensured
    <3>2. \A i \in 1 .. Len(disk[p]) : disk[p][i] # "New"
      BY <3>1 DEF Absent
    <3> QED
      BY <3>2 DEF KeepsNew
  <2> QED
    BY <2>2, <2>3
<1> QED
  BY <1>5, <1>6

\* A write goes to the place after the cells the unit has already.
LEMMA DiskWrite ==
  ASSUME SinkInv, NEW c \in Conn, Write(c)
  PROVE  /\ DiskOK' /\ \A p \in Path : KeepsNew(p)
         /\ unit[c].offset + run[c] + 1 <= Len(disk'[File(unit[c])])
         /\ disk'[File(unit[c])][unit[c].offset + run[c] + 1] = "New"
<1> USE DEF SinkInv
<1>1. PICK f \in Path : f = File(unit[c])
  BY DEF Write, Opening
<1>2. PICK r \in Nat : r = run[c]
  BY DEF TypeOK
<1>3. unit[c] \in Units
  BY DEF Write, OneWriter, Busy, TypeOK
<1>4. PICK o \in Nat : o = unit[c].offset
  BY <1>3, UnitFacts
<1>5. Position(c) = o + r
  <2>1. CASE unit[c].name \in Big
    BY <2>1, <1>2, <1>4 DEF Position
  <2>2. CASE unit[c].name \notin Big
    <3>1. o = 0
      BY <2>2, <1>3, <1>4, UnitFacts
    <3> QED
      BY <2>2, <3>1, <1>2 DEF Position
  <2> QED
    BY <2>1, <2>2
<1>6. PICK s \in Seq(Cell) : s = disk[f]
  BY DEF TypeOK
<1>7. PICK t : t = WriteAt(s, o + r)
  OBVIOUS
<1>8. disk' = [disk EXCEPT ![f] = t]
  BY <1>1, <1>5, <1>6, <1>7 DEF Write
<1>9. disk'[f] = t /\ DOMAIN disk' = Path /\ \A p \in Path : p # f => disk'[p] = disk[p]
  BY <1>8 DEF TypeOK
<1>10. o + r \in Nat
  OBVIOUS
<1>11. /\ t \in Seq(Cell) /\ (o + r) + 1 <= Len(t) /\ t[(o + r) + 1] = "New"
       /\ \A i \in 1 .. Len(s) : s[i] = "New" => i <= Len(t) /\ t[i] = "New"
  BY <1>7, <1>10, WriteAtKeeps
<1>12. DiskOK'
  BY <1>9, <1>11 DEF DiskOK, TypeOK
<1>13. ASSUME NEW p \in Path PROVE KeepsNew(p)
  <2>1. CASE p = f
    BY <2>1, <1>6, <1>9, <1>11 DEF KeepsNew
  <2>2. CASE p # f
    <3>1. disk[p] \in Seq(Cell) /\ Len(disk[p]) \in Nat /\ disk'[p] = disk[p]
      BY <1>9, <2>2 DEF TypeOK
    <3> QED
      BY <3>1 DEF KeepsNew
  <2> QED
    BY <2>1, <2>2
<1> QED
  BY <1>1, <1>2, <1>4, <1>9, <1>11, <1>12, <1>13

\* What is covered stays so in every file whose New cells a step keeps.
LEMMA ReceivedKept ==
  ASSUME SinkInv, NEW u \in received, KeepsNew(File(u))
  PROVE  \A i \in u.offset + 1 .. u.offset + u.length :
           i <= Len(disk'[File(u)]) /\ disk'[File(u)][i] = "New"
<1> USE DEF SinkInv
<1>1. PICK f \in Path : f = File(u)
  BY DEF Resolved
<1>2. PICK o \in Nat : o = u.offset
  BY UnitFacts DEF TypeOK
<1>3. PICK n \in Nat : n = u.length
  BY DEF Resolved
<1>4. Covered(f, o, n)
  BY <1>1, <1>2, <1>3 DEF ReceivedOnDisk, Covered
<1>5. KeepsNew(f)
  BY <1>1 DEF KeepsNew
<1>6. \A i \in o + 1 .. o + n : i <= Len(disk'[f]) /\ disk'[f][i] = "New"
  BY <1>4, <1>5, CoveredKept
<1> QED
  BY <1>1, <1>2, <1>3, <1>6

LEMMA WrittenKept ==
  ASSUME SinkInv, NEW c \in Conn, pc[c] = "write", KeepsNew(File(unit[c]))
  PROVE  \A i \in unit[c].offset + 1 .. unit[c].offset + run[c] :
           i <= Len(disk'[File(unit[c])]) /\ disk'[File(unit[c])][i] = "New"
<1> USE DEF SinkInv
<1>1. PICK f \in Path : f = File(unit[c])
  BY DEF Opening
<1>2. PICK o \in Nat : o = unit[c].offset
  BY UnitFacts DEF TypeOK, OneWriter, Busy
<1>3. PICK n \in Nat : n = run[c]
  BY DEF TypeOK
<1>4. Covered(f, o, n)
  BY <1>1, <1>2, <1>3 DEF Written
<1>5. KeepsNew(f)
  BY <1>1 DEF KeepsNew
<1>6. \A i \in o + 1 .. o + n : i <= Len(disk'[f]) /\ disk'[f][i] = "New"
  BY <1>4, <1>5, CoveredKept
<1> QED
  BY <1>1, <1>2, <1>3, <1>6

\* A step that leaves the received units as they are and takes no New cell away
\* loses nothing of them.
LEMMA ReceivedStep ==
  ASSUME SinkInv, received' = received, \A u \in received : KeepsNew(File(u))
  PROVE  Resolved' /\ ReceivedOnDisk'
<1> USE DEF SinkInv
<1>1. Resolved'
  BY DEF Resolved, File
<1>2. ReceivedOnDisk'
  <2> SUFFICES ASSUME NEW u \in received
               PROVE  \A i \in u.offset + 1 .. u.offset + u.length :
                        i <= Len(disk'[File(u)]) /\ disk'[File(u)][i] = "New"
    BY DEF ReceivedOnDisk, File
  <2> QED
    BY ReceivedKept
<1> QED
  BY <1>1, <1>2

LEMMA DataOpen ==
  ASSUME SinkInv, NEW c \in Conn, open_sequential(c)
  PROVE  DiskOK' /\ Fresh' /\ Written' /\ Resolved' /\ ReceivedOnDisk'
<1> USE DEF SinkInv
<1>1. DiskOK' /\ \A p \in Path : p # File(unit[c]) => KeepsNew(p)
  BY DiskOpen
<1>2. /\ pc[c] = "open" /\ File(unit[c]) # Rejected /\ Busy(c)
      /\ unit' = unit /\ run' = run /\ received' = received
  BY DEF open_sequential, Busy
<1>3. pc'[c] = "write" /\ \A d \in Conn : d # c => pc'[d] = pc[d]
  BY DEF open_sequential, Goto, TypeOK
<1>4. unit[c] \in Units /\ unit[c] \in taken \ received /\ unit[c].name \in Small /\ run[c] = 0
  BY <1>2 DEF OneWriter, TypeOK, Opening, Fresh
<1>5. \A u \in received : KeepsNew(File(u))
  <2> TAKE u \in received
  <2>1. u \in Units /\ File(u) \in Path /\ u # unit[c]
    BY <1>4 DEF TypeOK, Resolved
  <2>2. File(u) # File(unit[c])
    BY <2>1, <1>2, <1>4, FileFacts
  <2> QED
    BY <2>1, <2>2, <1>1
<1>6. Resolved' /\ ReceivedOnDisk'
  BY <1>2, <1>5, ReceivedStep
<1>7. Fresh'
  BY <1>2, <1>3 DEF Fresh
<1>8. Written'
  <2> SUFFICES ASSUME NEW d \in Conn, pc'[d] = "write"
               PROVE  \A i \in unit[d].offset + 1 .. unit[d].offset + run[d] :
                        i <= Len(disk'[File(unit[d])]) /\ disk'[File(unit[d])][i] = "New"
    BY <1>2 DEF Written, Covered, File
  <2>1. CASE d = c
    <3>1. unit[c].offset \in Nat
      BY <1>4, UnitFacts
    <3> QED
      BY <2>1, <3>1, <1>4
  <2>2. CASE d # c
    <3>1. pc[d] = "write" /\ Busy(d)
      BY <2>2, <1>3 DEF Busy
    <3>2. unit[d] \in Units /\ unit[d] # unit[c] /\ File(unit[d]) \in Path
      BY <3>1, <2>2, <1>2 DEF OneWriter, TypeOK, Opening
    <3>3. File(unit[d]) # File(unit[c])
      BY <3>2, <1>2, <1>4, FileFacts
    <3>4. KeepsNew(File(unit[d]))
      BY <3>2, <3>3, <1>1
    <3> QED
      BY <3>1, <3>4, WrittenKept
  <2> QED
    BY <2>1, <2>2
<1> QED
  BY <1>1, <1>6, <1>7, <1>8

LEMMA DataCreate ==
  ASSUME SinkInv, NEW c \in Conn, Create(c)
  PROVE  DiskOK' /\ Fresh' /\ Written' /\ Resolved' /\ ReceivedOnDisk'
<1> USE DEF SinkInv
<1>1. DiskOK' /\ \A p \in Path : KeepsNew(p)
  BY DiskCreate
<1>2. pc[c] = "create" /\ Busy(c) /\ unit' = unit /\ run' = run /\ received' = received
  BY DEF Create, Busy
<1>3. pc'[c] = "write" /\ \A d \in Conn : d # c => pc'[d] = pc[d]
  BY DEF Create, Goto, TypeOK
<1>4. unit[c] \in Units /\ run[c] = 0
  BY <1>2 DEF OneWriter, TypeOK, Fresh
<1>5. Resolved' /\ ReceivedOnDisk'
  <2>1. \A u \in received : KeepsNew(File(u))
    BY <1>1 DEF Resolved
  <2> QED
    BY <2>1, <1>2, ReceivedStep
<1>6. Fresh'
  BY <1>2, <1>3 DEF Fresh
<1>7. Written'
  <2> SUFFICES ASSUME NEW d \in Conn, pc'[d] = "write"
               PROVE  \A i \in unit[d].offset + 1 .. unit[d].offset + run[d] :
                        i <= Len(disk'[File(unit[d])]) /\ disk'[File(unit[d])][i] = "New"
    BY <1>2 DEF Written, Covered, File
  <2>1. CASE d = c
    <3>1. unit[c].offset \in Nat
      BY <1>4, UnitFacts
    <3> QED
      BY <2>1, <3>1, <1>4
  <2>2. CASE d # c
    <3>1. pc[d] = "write"
      BY <2>2, <1>3
    <3>2. KeepsNew(File(unit[d]))
      BY <3>1, <1>1 DEF Opening
    <3> QED
      BY <3>1, <3>2, WrittenKept
  <2> QED
    BY <2>1, <2>2
<1> QED
  BY <1>1, <1>5, <1>6, <1>7

LEMMA DataWrite ==
  ASSUME SinkInv, NEW c \in Conn, Write(c)
  PROVE  DiskOK' /\ Fresh' /\ Written' /\ Resolved' /\ ReceivedOnDisk'
<1> USE DEF SinkInv
<1>1. /\ DiskOK' /\ \A p \in Path : KeepsNew(p)
      /\ unit[c].offset + run[c] + 1 <= Len(disk'[File(unit[c])])
      /\ disk'[File(unit[c])][unit[c].offset + run[c] + 1] = "New"
  BY DiskWrite
<1>2. pc[c] = "write" /\ Busy(c) /\ unit' = unit /\ pc' = pc /\ received' = received
  BY DEF Write, Busy
<1>3. run'[c] = run[c] + 1 /\ \A d \in Conn : d # c => run'[d] = run[d]
  BY DEF Write, TypeOK
<1>4. unit[c] \in Units
  BY <1>2 DEF OneWriter, TypeOK
<1>5. Resolved' /\ ReceivedOnDisk'
  <2>1. \A u \in received : KeepsNew(File(u))
    BY <1>1 DEF Resolved
  <2> QED
    BY <2>1, <1>2, ReceivedStep
<1>6. Fresh'
  BY <1>2, <1>3 DEF Fresh
<1>7. Written'
  <2> SUFFICES ASSUME NEW d \in Conn, pc[d] = "write"
               PROVE  \A i \in unit[d].offset + 1 .. unit[d].offset + run'[d] :
                        i <= Len(disk'[File(unit[d])]) /\ disk'[File(unit[d])][i] = "New"
    BY <1>2 DEF Written, Covered, File
  <2>1. KeepsNew(File(unit[d]))
    BY <1>1 DEF Opening
  <2>2. \A i \in unit[d].offset + 1 .. unit[d].offset + run[d] :
          i <= Len(disk'[File(unit[d])]) /\ disk'[File(unit[d])][i] = "New"
    BY <2>1, WrittenKept
  <2>3. CASE d = c
    <3>1. PICK o \in Nat, r \in Nat : o = unit[c].offset /\ r = run[c]
      BY <1>4, UnitFacts DEF TypeOK
    <3>2. \A i \in o + 1 .. o + (r + 1) : i \in o + 1 .. o + r \/ i = o + r + 1
      OBVIOUS
    <3> QED
      BY <2>2, <2>3, <3>1, <3>2, <1>1, <1>3
  <2>4. CASE d # c
    BY <2>2, <2>4, <1>3
  <2> QED
    BY <2>3, <2>4
<1> QED
  BY <1>1, <1>5, <1>6, <1>7

\* A unit is reported when its last cell is written.
LEMMA DataFinish ==
  ASSUME SinkInv, NEW c \in Conn, Finish(c)
  PROVE  DiskOK' /\ Fresh' /\ Written' /\ Resolved' /\ ReceivedOnDisk'
<1> USE DEF SinkInv
<1>1. /\ pc[c] = "write" /\ unit' = unit /\ run' = run /\ disk' = disk
      /\ received' = received \cup {unit[c]} /\ run[c] = unit[c].length
  BY DEF Finish
<1>2. pc'[c] = "idle" /\ \A d \in Conn : d # c => pc'[d] = pc[d]
  BY DEF Finish, Goto, TypeOK
<1>3. DiskOK'
  BY <1>1 DEF DiskOK, TypeOK
<1>4. Fresh' /\ Written'
  BY <1>1, <1>2 DEF Fresh, Written, Covered, File
<1>5. Resolved'
  BY <1>1 DEF Resolved, File, Opening, TypeOK
<1>6. ReceivedOnDisk'
  <2> SUFFICES ASSUME NEW u \in received \cup {unit[c]}
               PROVE  \A i \in u.offset + 1 .. u.offset + u.length :
                        i <= Len(disk[File(u)]) /\ disk[File(u)][i] = "New"
    BY <1>1 DEF ReceivedOnDisk, File
  <2>1. CASE u \in received
    BY <2>1 DEF ReceivedOnDisk
  <2>2. CASE u = unit[c]
    BY <2>2, <1>1 DEF Written, Covered
  <2> QED
    BY <2>1, <2>2
<1> QED
  BY <1>3, <1>4, <1>5, <1>6

\* The other steps leave the disk alone and bring nobody to write, unless the
\* shared file is open already.
LEMMA DataQuiet ==
  ASSUME SinkInv,
         \/ close_all
         \/ \E c \in Conn : \/ Lookup(c) \/ OpenFails(c) \/ Lost(c)
                            \/ \E u \in Units : Begin(c, u)
  PROVE  DiskOK' /\ Fresh' /\ Written' /\ Resolved' /\ ReceivedOnDisk'
<1> USE DEF SinkInv
<1>1. disk' = disk /\ received' = received
  BY DEF close_all, Lookup, OpenFails, Lost, Begin
<1>2. DiskOK' /\ Resolved' /\ ReceivedOnDisk'
  BY <1>1 DEF DiskOK, TypeOK, Resolved, ReceivedOnDisk, File
<1>3. ASSUME NEW d \in Conn
      PROVE  \/ pc'[d] \in {"idle", "ended"}
             \/ pc'[d] \in {"open", "lock"} /\ run'[d] = 0
             \/ pc'[d] \in {"create", "write"} /\ run'[d] = 0 /\ pc[d] = "lock" /\ unit'[d] = unit[d]
             \/ pc'[d] = pc[d] /\ run'[d] = run[d] /\ unit'[d] = unit[d]
  <2>1. CASE close_all
    BY <2>1 DEF close_all
  <2>2. ASSUME NEW c \in Conn, Lookup(c)
        PROVE  \/ pc'[d] \in {"create", "write"} /\ run'[d] = 0 /\ pc[d] = "lock" /\ unit'[d] = unit[d]
               \/ pc'[d] = pc[d] /\ run'[d] = run[d] /\ unit'[d] = unit[d]
    <3>1. /\ pc'[c] \in {"create", "write"} /\ pc[c] = "lock" /\ run' = run /\ unit' = unit
          /\ \A e \in Conn : e # c => pc'[e] = pc[e]
      BY <2>2 DEF Lookup, Goto, TypeOK
    <3> QED
      BY <3>1 DEF Fresh
  <2>3. ASSUME NEW c \in Conn, OpenFails(c) \/ Lost(c)
        PROVE  \/ pc'[d] = "ended"
               \/ pc'[d] = pc[d] /\ run'[d] = run[d] /\ unit'[d] = unit[d]
    BY <2>3 DEF OpenFails, Lost, Goto, TypeOK
  <2>4. ASSUME NEW c \in Conn, NEW u \in Units, Begin(c, u)
        PROVE  \/ pc'[d] \in {"open", "lock"} /\ run'[d] = 0
               \/ pc'[d] = pc[d] /\ run'[d] = run[d] /\ unit'[d] = unit[d]
    BY <2>4 DEF Begin, Goto, TypeOK
  <2> QED
    BY <2>1, <2>2, <2>3, <2>4
<1>4. Fresh'
  BY <1>3 DEF Fresh
<1>5. Written'
  <2> SUFFICES ASSUME NEW d \in Conn, pc'[d] = "write"
               PROVE  \A i \in unit'[d].offset + 1 .. unit'[d].offset + run'[d] :
                        i <= Len(disk[File(unit'[d])]) /\ disk[File(unit'[d])][i] = "New"
    BY <1>1 DEF Written, Covered, File
  <2>1. CASE run'[d] = 0 /\ pc[d] = "lock" /\ unit'[d] = unit[d]
    <3>1. unit[d].offset \in Nat
      BY <2>1, UnitFacts DEF OneWriter, Busy, TypeOK
    <3> QED
      BY <2>1, <3>1
  <2>2. CASE pc'[d] = pc[d] /\ run'[d] = run[d] /\ unit'[d] = unit[d]
    BY <2>2 DEF Written, Covered
  <2> QED
    BY <1>3, <2>1, <2>2
<1> QED
  BY <1>2, <1>4, <1>5

-----------------------------------------------------------------------------
LEMMA SinkStep == SinkInv /\ [Next]_vars => SinkInv'
<1> SUFFICES ASSUME SinkInv, [Next]_vars PROVE SinkInv'
  OBVIOUS
<1>c. ControlInv /\ Resolved
  BY DEF SinkInv, ControlInv
<1>1. ASSUME NEW c \in Conn, open_sequential(c) PROVE SinkInv'
  BY <1>c, <1>1, ControlQuiet, DataOpen DEF SinkInv, TypeOK, DiskOK
<1>2. ASSUME NEW c \in Conn, Lookup(c) \/ OpenFails(c) \/ Lost(c) PROVE SinkInv'
  BY <1>c, <1>2, ControlQuiet, DataQuiet DEF SinkInv, TypeOK, DiskOK
<1>3. ASSUME NEW c \in Conn, Create(c) PROVE SinkInv'
  BY <1>c, <1>3, ControlCreate, DataCreate DEF SinkInv, TypeOK, DiskOK
<1>4. ASSUME NEW c \in Conn, Write(c) PROVE SinkInv'
  BY <1>c, <1>4, ControlQuiet, DataWrite DEF SinkInv, TypeOK, DiskOK
<1>5. ASSUME NEW c \in Conn, Finish(c) PROVE SinkInv'
  BY <1>c, <1>5, ControlQuiet, DataFinish DEF SinkInv, TypeOK, DiskOK
<1>6. ASSUME NEW c \in Conn, NEW u \in Units, Begin(c, u) PROVE SinkInv'
  BY <1>c, <1>6, ControlBegin, DataQuiet DEF SinkInv, ControlInv
<1>7. CASE close_all
  BY <1>c, <1>7, ControlClose, DataQuiet DEF SinkInv, ControlInv
<1>8. CASE UNCHANGED vars
  BY <1>8 DEF SinkInv, TypeOK, OneDescriptor, OneWriter, Opening, Fresh, Written, Resolved,
              ReceivedOnDisk, Covered, Busy, File, vars, conns
<1> QED
  BY <1>1, <1>2, <1>3, <1>4, <1>5, <1>6, <1>7, <1>8 DEF Next

LEMMA SinkAlways == Spec => []SinkInv
  BY SinkInit, SinkStep, PTL DEF Spec

\* acquire_chunk_file searches, opens and enters under one lock: at any time a
\* big file has one open descriptor when it is in the registry and none else.
THEOREM SinkOneDescriptor == Spec => []OneDescriptor
<1>1. SinkInv => OneDescriptor
  BY DEF SinkInv
<1> QED
  BY <1>1, SinkAlways, PTL

\* UnitSink::write and open_sequential: whatever the other connections write,
\* open and truncate, the cells of every unit reported as received are in place.
THEOREM SinkReceivedOnDisk == Spec => []ReceivedOnDisk
<1>1. SinkInv => ReceivedOnDisk
  BY DEF SinkInv
<1> QED
  BY <1>1, SinkAlways, PTL

-----------------------------------------------------------------------------
(* Names *)

\* Followed is the function its definition describes.
LEMMA FollowedUnfolds ==
  ASSUME NEW parts, Len(parts) \in Nat
  PROVE  /\ Followed(parts)[0] = <<>>
         /\ \A i \in 1 .. Len(parts) :
              Followed(parts)[i] = Follow(Followed(parts)[i - 1], parts[i])
<1> DEFINE Is(f, n) == f = [i \in 0 .. n |-> IF i = 0 THEN <<>> ELSE Follow(f[i - 1], parts[i])]
           Known == {n \in Nat : \E f : Is(f, n)}
<1>1. 0 \in Known
  <2> DEFINE f == [i \in 0 .. 0 |-> <<>>]
  <2>1. Is(f, 0)
    OBVIOUS
  <2> QED BY <2>1
<1>2. ASSUME NEW n \in Nat, n \in Known PROVE n + 1 \in Known
  <2>1. PICK f : Is(f, n)
    BY <1>2
  <2> DEFINE g == [i \in 0 .. n + 1 |-> IF i <= n THEN f[i] ELSE Follow(f[n], parts[n + 1])]
             h == [i \in 0 .. n + 1 |-> IF i = 0 THEN <<>> ELSE Follow(g[i - 1], parts[i])]
  <2>2. ASSUME NEW i \in 0 .. n + 1 PROVE g[i] = h[i]
    <3>1. CASE i = 0
      BY <2>1, <3>1
    <3>2. CASE i \in 1 .. n
      BY <2>1, <3>2
    <3>3. CASE i = n + 1
      BY <2>1, <3>3
    <3> QED BY <3>1, <3>2, <3>3
  <2>3. Is(g, n + 1)
    BY <2>2
  <2> HIDE DEF g
  <2>4. n + 1 \in Nat /\ \E f1 : Is(f1, n + 1)
    BY <2>3
  <2> QED BY <2>4
<1> HIDE DEF Known
<1>3. \A n \in Nat : n \in Known
  BY <1>1, <1>2, Induction
<1>4. \E f : Is(f, Len(parts))
  BY <1>3 DEF Known
<1>5. Is(Followed(parts), Len(parts))
  BY <1>4 DEF Followed
<1> HIDE DEF Is
<1>6. Followed(parts) = [i \in 0 .. Len(parts) |->
         IF i = 0 THEN <<>> ELSE Follow(Followed(parts)[i - 1], parts[i])]
  BY <1>5 DEF Is
<1> QED BY <1>6

LEMMA UpIsNotBlank == ".." \notin Blank
  BY Zenon DEF Blank

\* What following one part more does to the path so far: nothing, or the part is
\* added, or it takes the last one away.
OnePartMore(done, part, next) ==
  /\ \/ part \in Blank /\ next = done
     \/ part \notin Blank \cup {".."} /\ Len(next) = Len(done) + 1 /\ next[Len(next)] = part
     \/ part = ".." /\ Len(done) > 0 /\ done[Len(done)] # ".." /\ Len(next) = Len(done) - 1
     \/ /\ part = ".." /\ (Len(done) = 0 \/ done[Len(done)] = "..")
        /\ Len(next) = Len(done) + 1 /\ next[Len(next)] = ".."
  /\ \A i \in 1 .. Len(next) : i <= Len(done) => next[i] = done[i]

LEMMA FollowOne ==
  ASSUME NEW Part, NEW done \in Seq(Part), NEW part \in Part
  PROVE  Follow(done, part) \in Seq(Part) /\ OnePartMore(done, part, Follow(done, part))
<1> SUFFICES ASSUME NEW next, next = Follow(done, part)
             PROVE  next \in Seq(Part) /\ OnePartMore(done, part, next)
  OBVIOUS
<1> USE DEF OnePartMore
<1>1. PICK n \in Nat : n = Len(done)
  OBVIOUS
<1>2. done # <<>> <=> n > 0
  BY <1>1, EmptySeq
<1>3. \A i \in 1 .. n : done[i] \in Part
  BY <1>1, ElementOfSeq
<1>4. CASE part \in Blank
  BY <1>4 DEF Follow
<1>5. CASE part = ".." /\ n > 0 /\ done[n] # ".."
  <2>1. next = SubSeq(done, 1, n - 1)
    BY <1>1, <1>2, <1>5, UpIsNotBlank DEF Follow, Last, Front
  <2>2. \A i \in 1 .. n - 1 : done[i] \in Part
    BY <1>3
  <2>3. /\ next \in Seq(Part) /\ Len(next) = (IF 1 <= n - 1 THEN n - 1 - 1 + 1 ELSE 0)
        /\ \A i \in 1 .. n - 1 - 1 + 1 : next[i] = done[1 + i - 1]
    BY <2>1, <2>2, SubSeqProperties
  <2>4. Len(next) = n - 1 /\ \A i \in 1 .. n - 1 : next[i] = done[i]
    BY <1>5, <2>3
  <2>5. \A i \in 1 .. Len(next) : i <= n => next[i] = done[i]
    BY <2>4
  <2> QED BY <1>1, <1>5, <2>3, <2>4, <2>5
<1>6. CASE part \notin Blank /\ ~(part = ".." /\ n > 0 /\ done[n] # "..")
  <2>1. next = Append(done, part)
    BY <1>1, <1>2, <1>6 DEF Follow, Last
  <2>2. next \in Seq(Part) /\ Len(next) = n + 1
    BY <1>1, <2>1, AppendProperties
  <2>3. next[n + 1] = part
    BY <1>1, <2>1, AppendProperties
  <2>4. \A i \in 1 .. n : next[i] = done[i]
    BY <1>1, <2>1, AppendProperties
  <2>5. next[Len(next)] = part /\ \A i \in 1 .. Len(next) : i <= n => next[i] = done[i]
    BY <2>2, <2>3, <2>4
  <2> QED BY <1>1, <1>6, <2>2, <2>5
<1> QED BY <1>1, <1>4, <1>5, <1>6

\* The depth after the first i parts.
DepthAt(name, i) == Cardinality({j \in 1 .. i : name[j] \notin Blank \cup {".."}})
                    - Cardinality({j \in 1 .. i : name[j] = ".."})

LEMMA DepthPrefix ==
  ASSUME NEW Part, NEW name \in Seq(Part), NEW i \in 0 .. Len(name)
  PROVE  Depth(SubSeq(name, 1, i)) = DepthAt(name, i)
<1> DEFINE s == SubSeq(name, 1, i)
<1>1. DOMAIN s = 1 .. i /\ \A j \in 1 .. i : s[j] = name[j]
  OBVIOUS
<1> HIDE DEF s
<1>2. {j \in DOMAIN s : s[j] \notin Blank \cup {".."}} = {j \in 1 .. i : name[j] \notin Blank \cup {".."}}
  BY <1>1
<1>3. {j \in DOMAIN s : s[j] = ".."} = {j \in 1 .. i : name[j] = ".."}
  BY <1>1
<1>4. Depth(s) = DepthAt(name, i)
  BY <1>2, <1>3 DEF Depth, DepthAt
<1> QED BY <1>4 DEF s

LEMMA DepthSteps ==
  ASSUME NEW name
  PROVE  /\ DepthAt(name, 0) = 0
         /\ \A i \in Nat :
              /\ DepthAt(name, i) \in Int
              /\ name[i + 1] \in Blank => DepthAt(name, i + 1) = DepthAt(name, i)
              /\ name[i + 1] = ".." => DepthAt(name, i + 1) = DepthAt(name, i) - 1
              /\ name[i + 1] \notin Blank \cup {".."} => DepthAt(name, i + 1) = DepthAt(name, i) + 1
<1> DEFINE Down(i) == {j \in 1 .. i : name[j] \notin Blank \cup {".."}}
           Up(i) == {j \in 1 .. i : name[j] = ".."}
<1>1. \A i \in Nat : DepthAt(name, i) = Cardinality(Down(i)) - Cardinality(Up(i))
  BY DEF DepthAt
<1>2. Down(0) = {} /\ Up(0) = {}
  OBVIOUS
<1>3. ASSUME NEW i \in Nat
      PROVE  /\ IsFiniteSet(Down(i)) /\ IsFiniteSet(Up(i))
             /\ Cardinality(Down(i)) \in Nat /\ Cardinality(Up(i)) \in Nat
             /\ i + 1 \notin Down(i) /\ i + 1 \notin Up(i)
  <2>1. IsFiniteSet(1 .. i)
    BY FS_Interval
  <2>2. Down(i) \in SUBSET (1 .. i) /\ Up(i) \in SUBSET (1 .. i)
    OBVIOUS
  <2>3. IsFiniteSet(Down(i)) /\ IsFiniteSet(Up(i))
    BY <2>1, <2>2, FS_Subset
  <2>4. Cardinality(Down(i)) \in Nat /\ Cardinality(Up(i)) \in Nat
    BY <2>3, FS_CardinalityType
  <2>5. i + 1 \notin 1 .. i
    OBVIOUS
  <2> HIDE DEF Down, Up
  <2> QED BY <2>2, <2>3, <2>4, <2>5
<1>4. ASSUME NEW i \in Nat
      PROVE  /\ Down(i + 1) = IF name[i + 1] \notin Blank \cup {".."} THEN Down(i) \cup {i + 1} ELSE Down(i)
             /\ Up(i + 1) = IF name[i + 1] = ".." THEN Up(i) \cup {i + 1} ELSE Up(i)
  <2>1. \A j \in 1 .. i + 1 : j \in 1 .. i \/ j = i + 1
    OBVIOUS
  <2>2. \A j \in 1 .. i : j \in 1 .. i + 1
    OBVIOUS
  <2>3. i + 1 \in 1 .. i + 1
    OBVIOUS
  <2> QED BY <2>1, <2>2, <2>3, Zenon
<1> HIDE DEF Down, Up
<1>5. DepthAt(name, 0) = 0
  BY <1>1, <1>2, FS_EmptySet
<1>6. ASSUME NEW i \in Nat
      PROVE  /\ DepthAt(name, i) \in Int
             /\ name[i + 1] \in Blank => DepthAt(name, i + 1) = DepthAt(name, i)
             /\ name[i + 1] = ".." => DepthAt(name, i + 1) = DepthAt(name, i) - 1
             /\ name[i + 1] \notin Blank \cup {".."} => DepthAt(name, i + 1) = DepthAt(name, i) + 1
  <2>1. /\ Cardinality(Down(i) \cup {i + 1}) = Cardinality(Down(i)) + 1
        /\ Cardinality(Up(i) \cup {i + 1}) = Cardinality(Up(i)) + 1
    BY <1>3, FS_AddElement
  <2>2. /\ DepthAt(name, i) = Cardinality(Down(i)) - Cardinality(Up(i))
        /\ DepthAt(name, i + 1) = Cardinality(Down(i + 1)) - Cardinality(Up(i + 1))
    BY <1>1
  <2>3. PICK d \in Nat, u \in Nat : d = Cardinality(Down(i)) /\ u = Cardinality(Up(i))
    BY <1>3
  <2>4. DepthAt(name, i) = d - u
    BY <2>2, <2>3
  <2>5. DepthAt(name, i) \in Int
    BY <2>4
  <2>6. ASSUME name[i + 1] \in Blank PROVE DepthAt(name, i + 1) = DepthAt(name, i)
    <3>1. Down(i + 1) = Down(i) /\ Up(i + 1) = Up(i)
      BY <1>4, <2>6, UpIsNotBlank
    <3> QED BY <2>2, <3>1
  <2>7. ASSUME name[i + 1] = ".." PROVE DepthAt(name, i + 1) = DepthAt(name, i) - 1
    <3>1. DepthAt(name, i + 1) = d - (u + 1)
      BY <1>4, <2>1, <2>2, <2>3, <2>7
    <3> QED BY <2>4, <3>1
  <2>8. ASSUME name[i + 1] \notin Blank \cup {".."} PROVE DepthAt(name, i + 1) = DepthAt(name, i) + 1
    <3>1. DepthAt(name, i + 1) = (d + 1) - u
      BY <1>4, <2>1, <2>2, <2>3, <2>8
    <3> QED BY <2>4, <3>1
  <2> QED BY <2>5, <2>6, <2>7, <2>8
<1> QED BY <1>5, <1>6

\* The first i parts of a name never leave the directory.
Inside(name, i) == \A j \in 0 .. i : DepthAt(name, j) >= 0

\* The path after the first i parts: as long as the name has not left the directory
\* it is as long as the name is deep and has no "..", afterwards it begins with "..".
PathAfter(Part, name, i, path) ==
  /\ path \in Seq(Part)
  /\ \A k \in 1 .. Len(path) : path[k] \notin Blank
  /\ Inside(name, i) => /\ Len(path) = DepthAt(name, i)
                        /\ \A k \in 1 .. Len(path) : path[k] # ".."
  /\ ~Inside(name, i) => Len(path) > 0 /\ path[1] = ".."

LEMMA InsideNext ==
  ASSUME NEW name, NEW i \in Nat
  PROVE  /\ Inside(name, 0)
         /\ Inside(name, i + 1) <=> Inside(name, i) /\ DepthAt(name, i + 1) >= 0
         /\ Inside(name, i) => DepthAt(name, i) >= 0
<1>1. DepthAt(name, 0) = 0
  BY DepthSteps
<1>2. \A j \in 0 .. 0 : j = 0
  OBVIOUS
<1>3. \A j \in 0 .. i + 1 : j \in 0 .. i \/ j = i + 1
  OBVIOUS
<1>4. i \in 0 .. i /\ i + 1 \in 0 .. i + 1 /\ \A j \in 0 .. i : j \in 0 .. i + 1
  OBVIOUS
<1>5. Inside(name, 0)
  BY <1>1, <1>2 DEF Inside
<1>6. Inside(name, i + 1) <=> Inside(name, i) /\ DepthAt(name, i + 1) >= 0
  BY <1>3, <1>4 DEF Inside
<1> QED BY <1>4, <1>5, <1>6 DEF Inside

LEMMA PathAfterNext ==
  ASSUME NEW Part, NEW name \in Seq(Part), NEW i \in Nat, i + 1 <= Len(name),
         NEW path, PathAfter(Part, name, i, path)
  PROVE  PathAfter(Part, name, i + 1, Follow(path, name[i + 1]))
<1> DEFINE part == name[i + 1]
           next == Follow(path, part)
<1>1. part \in Part
  <2>1. i + 1 \in 1 .. Len(name)
    OBVIOUS
  <2> QED BY <2>1, ElementOfSeq
<1>2. path \in Seq(Part)
  BY DEF PathAfter
<1> HIDE DEF part, next
<1>3. PICK m \in Nat : m = Len(path)
  BY <1>2
<1>4. PICK d \in Int, e \in Int : d = DepthAt(name, i) /\ e = DepthAt(name, i + 1)
  <2>1. i + 1 \in Nat
    OBVIOUS
  <2> QED BY <2>1, DepthSteps
<1>5. /\ part \in Blank => e = d
      /\ part = ".." => e = d - 1
      /\ part \notin Blank \cup {".."} => e = d + 1
  BY <1>4, DepthSteps DEF part
<1>6. /\ Inside(name, i) => m = d /\ \A k \in 1 .. m : path[k] # ".."
      /\ ~Inside(name, i) => m > 0 /\ path[1] = ".."
  BY <1>3, <1>4 DEF PathAfter
<1>7. Inside(name, i + 1) <=> Inside(name, i) /\ e >= 0
  BY <1>4, InsideNext
<1>8. next \in Seq(Part)
  BY <1>1, <1>2, FollowOne DEF next
<1>9. PICK n \in Nat : n = Len(next)
  BY <1>8
<1>10. OnePartMore(path, part, next)
  BY <1>1, <1>2, FollowOne DEF next
<1>11. /\ \/ part \in Blank /\ next = path
          \/ part \notin Blank \cup {".."} /\ n = m + 1 /\ next[n] = part
          \/ part = ".." /\ m > 0 /\ path[m] # ".." /\ n = m - 1
          \/ part = ".." /\ (m = 0 \/ path[m] = "..") /\ n = m + 1 /\ next[n] = ".."
       /\ \A k \in 1 .. n : k <= m => next[k] = path[k]
  BY <1>3, <1>9, <1>10 DEF OnePartMore
<1>12. \A k \in 1 .. m : path[k] \notin Blank
  BY <1>3 DEF PathAfter
<1> SUFFICES /\ \A k \in 1 .. n : next[k] \notin Blank
             /\ Inside(name, i + 1) => n = e /\ \A k \in 1 .. n : next[k] # ".."
             /\ ~Inside(name, i + 1) => n > 0 /\ next[1] = ".."
  BY <1>4, <1>8, <1>9 DEF PathAfter, next, part
<1>13. CASE part \in Blank /\ next = path
  BY <1>3, <1>5, <1>6, <1>7, <1>9, <1>12, <1>13
<1>14. CASE part \notin Blank \cup {".."} /\ n = m + 1 /\ next[n] = part
  <2>1. \A k \in 1 .. n : k \in 1 .. m \/ k = n
    BY <1>14
  <2>2. e = d + 1
    BY <1>5, <1>14
  <2> QED BY <1>6, <1>7, <1>11, <1>12, <1>14, <2>1, <2>2
<1>15. CASE part = ".." /\ m > 0 /\ path[m] # ".." /\ n = m - 1
  <2>1. \A k \in 1 .. n : k \in 1 .. m
    BY <1>15
  <2>2. e = d - 1
    BY <1>5, <1>15
  <2> QED BY <1>6, <1>7, <1>11, <1>12, <1>15, <2>1, <2>2
<1>16. CASE part = ".." /\ (m = 0 \/ path[m] = "..") /\ n = m + 1 /\ next[n] = ".."
  <2>1. \A k \in 1 .. n : k \in 1 .. m \/ k = n
    BY <1>16
  <2>2. e = d - 1
    BY <1>5, <1>16
  <2> QED BY <1>6, <1>7, <1>11, <1>12, <1>16, <2>1, <2>2, UpIsNotBlank
<1> QED BY <1>11, <1>13, <1>14, <1>15, <1>16

LEMMA PathAfterAll ==
  ASSUME NEW Part, NEW name \in Seq(Part)
  PROVE  PathAfter(Part, name, Len(name), lexically_normal(name))
<1> DEFINE Known == {i \in Nat : i <= Len(name) => PathAfter(Part, name, i, Followed(name)[i])}
<1>1. /\ Len(name) \in Nat /\ Followed(name)[0] = <<>>
      /\ \A i \in 1 .. Len(name) : Followed(name)[i] = Follow(Followed(name)[i - 1], name[i])
  BY FollowedUnfolds
<1>2. 0 \in Known
  <2>1. <<>> \in Seq(Part) /\ Len(<<>>) = 0
    BY EmptySeq
  <2>2. DepthAt(name, 0) = 0 /\ Inside(name, 0)
    BY DepthSteps, InsideNext
  <2>3. PathAfter(Part, name, 0, <<>>)
    BY <2>1, <2>2 DEF PathAfter
  <2> QED BY <1>1, <2>3
<1>3. ASSUME NEW i \in Nat, i \in Known PROVE i + 1 \in Known
  <2> SUFFICES ASSUME i + 1 <= Len(name) PROVE PathAfter(Part, name, i + 1, Followed(name)[i + 1])
    OBVIOUS
  <2>1. i <= Len(name) /\ i + 1 \in 1 .. Len(name) /\ (i + 1) - 1 = i
    BY <1>1
  <2>2. Followed(name)[i + 1] = Follow(Followed(name)[i], name[i + 1])
    BY <1>1, <2>1
  <2>3. PathAfter(Part, name, i, Followed(name)[i])
    BY <1>3, <2>1
  <2> QED BY <2>2, <2>3, PathAfterNext
<1> HIDE DEF Known
<1>4. \A i \in Nat : i \in Known
  BY <1>2, <1>3, Induction
<1>5. Len(name) \in Known
  BY <1>1, <1>4
<1> QED BY <1>1, <1>5 DEF Known, lexically_normal

\* resolve_safe_path for names of any length, over any parts.
LEMMA ResolveFacts ==
  ASSUME NEW Part, NEW name \in Seq(Part)
  PROVE  /\ resolve_safe_path(name) # Rejected <=>
              Inside(name, Len(name)) /\ DepthAt(name, Len(name)) > 0
         /\ resolve_safe_path(name) # Rejected =>
              /\ resolve_safe_path(name) \in Seq(Part)
              /\ Len(resolve_safe_path(name)) = DepthAt(name, Len(name))
              /\ \A k \in 1 .. Len(resolve_safe_path(name)) :
                   resolve_safe_path(name)[k] \notin Blank \cup {".."}
<1> DEFINE path == lexically_normal(name)
<1>1. PathAfter(Part, name, Len(name), path)
  BY PathAfterAll
<1> HIDE DEF path
<1>2. path \in Seq(Part)
  BY <1>1 DEF PathAfter
<1>3. PICK n \in Nat : n = Len(path)
  BY <1>2
<1>4. path = <<>> <=> n = 0
  BY <1>2, <1>3, EmptySeq
<1>5. PICK d \in Int : d = DepthAt(name, Len(name))
  <2>1. Len(name) \in Nat
    OBVIOUS
  <2> QED BY <2>1, DepthSteps
<1>6. /\ \A k \in 1 .. n : path[k] \notin Blank
      /\ Inside(name, Len(name)) => n = d /\ \A k \in 1 .. n : path[k] # ".."
      /\ ~Inside(name, Len(name)) => n > 0 /\ path[1] = ".."
  BY <1>1, <1>3, <1>5 DEF PathAfter
<1>7. ".." \in ToSet(path) <=> \E k \in 1 .. n : path[k] = ".."
  <2>1. DOMAIN path = 1 .. n
    BY <1>2, <1>3, LenProperties
  <2> QED BY <2>1 DEF ToSet
<1>8. /\ ".." \in ToSet(path) \/ path = <<>> => resolve_safe_path(name) = Rejected
      /\ ~(".." \in ToSet(path) \/ path = <<>>) => resolve_safe_path(name) = path
  BY DEF resolve_safe_path, path
<1>9. CASE ~Inside(name, Len(name))
  <2>1. 1 \in 1 .. n
    BY <1>6, <1>9
  <2> QED BY <1>6, <1>7, <1>8, <1>9, <2>1
<1>10. CASE Inside(name, Len(name)) /\ n = 0
  BY <1>4, <1>5, <1>6, <1>8, <1>10
<1>11. CASE Inside(name, Len(name)) /\ n > 0
  <2>1. ~(".." \in ToSet(path)) /\ path # <<>>
    BY <1>4, <1>6, <1>7, <1>11
  <2>2. resolve_safe_path(name) = path
    BY <1>8, <2>1
  <2>3. path # Rejected
    <3>1. Rejected[1] = ".."
      BY DEF Rejected
    <3>2. 1 \in 1 .. n
      BY <1>11
    <3> QED BY <1>6, <1>11, <3>1, <3>2
  <2>4. n = d /\ \A k \in 1 .. n : path[k] \notin Blank \cup {".."}
    BY <1>6, <1>11
  <2> QED BY <1>2, <1>3, <1>5, <1>11, <2>2, <2>3, <2>4
<1> QED BY <1>9, <1>10, <1>11

LEMMA DepthWhole ==
  ASSUME NEW Part, NEW name \in Seq(Part)
  PROVE  /\ Depth(name) = DepthAt(name, Len(name))
         /\ (\A i \in 0 .. Len(name) : Depth(SubSeq(name, 1, i)) >= 0) <=> Inside(name, Len(name))
<1>1. SubSeq(name, 1, Len(name)) = name
  BY SubSeqFull
<1>2. Len(name) \in 0 .. Len(name)
  OBVIOUS
<1>3. Depth(name) = DepthAt(name, Len(name))
  BY <1>1, <1>2, DepthPrefix
<1> QED BY <1>3, DepthPrefix DEF Inside

\* file_sink.cxx:79-123 - for a name of any length over any alphabet: it is
\* accepted just when, followed part by part, it never leaves the session's
\* directory and does not end at it; the path then is as long as the name is deep
\* and has no part that stays or goes up.
THEOREM ResolveConfined ==
  ASSUME NEW Part, NEW name \in Seq(Part)
  PROVE  /\ resolve_safe_path(name) # Rejected <=>
              /\ \A i \in 0 .. Len(name) : Depth(SubSeq(name, 1, i)) >= 0
              /\ Depth(name) > 0
         /\ resolve_safe_path(name) # Rejected =>
              /\ Len(resolve_safe_path(name)) = Depth(name)
              /\ ToSet(resolve_safe_path(name)) \subseteq Part \ (Blank \cup {".."})
<1> DEFINE path == resolve_safe_path(name)
<1>1. /\ path # Rejected <=> Inside(name, Len(name)) /\ DepthAt(name, Len(name)) > 0
      /\ path # Rejected => /\ path \in Seq(Part) /\ Len(path) = DepthAt(name, Len(name))
                            /\ \A k \in 1 .. Len(path) : path[k] \notin Blank \cup {".."}
  BY ResolveFacts
<1> HIDE DEF path
<1>2. path # Rejected => ToSet(path) \subseteq Part \ (Blank \cup {".."})
  <2> SUFFICES ASSUME path # Rejected, NEW x \in ToSet(path)
               PROVE  x \in Part /\ x \notin Blank \cup {".."}
    OBVIOUS
  <2>1. path \in Seq(Part) /\ DOMAIN path = 1 .. Len(path)
    BY <1>1, LenProperties
  <2>2. PICK k \in 1 .. Len(path) : x = path[k]
    BY <2>1 DEF ToSet
  <2>3. path[k] \in Part
    BY <2>1, ElementOfSeq
  <2> QED BY <1>1, <2>2, <2>3
<1> QED BY <1>1, <1>2, DepthWhole DEF path

LEMMA ResolvedBelow ==
  ASSUME NEW Part, NEW name \in Seq(Part), resolve_safe_path(name) # Rejected
  PROVE  Below(resolve_safe_path(name))
<1>1. PICK path : path = resolve_safe_path(name)
  OBVIOUS
<1>2. path \in Seq(Part) /\ Len(path) > 0
  BY <1>1, ResolveFacts
<1>3. path # <<>>
  BY <1>2, EmptySeq
<1>4. ToSet(path) \subseteq Part \ (Blank \cup {".."})
  BY <1>1, ResolveConfined
<1> QED BY <1>1, <1>3, <1>4 DEF Below

LEMMA AllNamesConfined == NamesConfined
<1> DEFINE A == {"a", "b", "", ".", ".."}
<1> HIDE DEF A
<1>2. \A name \in NamesUpTo : name \in Seq(A)
  <2> SUFFICES ASSUME NEW n \in 0 .. MaxParts, NEW name \in [1 .. n -> A] PROVE name \in Seq(A)
    BY DEF NamesUpTo, A
  <2>1. n \in Nat
    BY FileSinkAssumption
  <2> QED BY <2>1
<1>3. ASSUME NEW name \in NamesUpTo, resolve_safe_path(name) # Rejected
      PROVE  /\ Below(resolve_safe_path(name))
             /\ \A i \in 0 .. Len(name) : Depth(SubSeq(name, 1, i)) >= 0
  <2>1. name \in Seq(A)
    BY <1>2
  <2>2. \A i \in 0 .. Len(name) : Depth(SubSeq(name, 1, i)) >= 0
    BY <2>1, <1>3, ResolveConfined
  <2> QED BY <2>1, <2>2, <1>3, ResolvedBelow
<1> QED BY <1>3 DEF NamesConfined

\* Every path that has a file leads down from the session's directory.
LEMMA PathsLeadDown == \A p \in Path : Below(p)
<1> SUFFICES ASSUME NEW p \in Path PROVE Below(p)
  OBVIOUS
<1>1. PICK name \in Small \cup Big : p = resolve_safe_path(name) /\ p # Rejected
  BY DEF Path, BigPath
<1>2. name \in Seq(STRING)
  BY NamesAssumption
<1> QED BY <1>1, <1>2, ResolvedBelow

\* file_sink.cxx:87-90 - the names that leave the session's directory are refused,
\* and at any time the consumer threads open, write and report only files below it.
THEOREM SinkPathsConfined == Spec => []PathsConfined
<1>1. SinkInv => PathsConfined
  <2> SUFFICES ASSUME SinkInv PROVE PathsConfined
    OBVIOUS
  <2>1. \A c \in Conn : pc[c] \in {"create", "write"} => File(unit[c]) \in Path
    BY DEF SinkInv, Opening, Path
  <2>2. \A u \in received : File(u) \in Path
    BY DEF SinkInv, Resolved
  <2> QED BY <2>1, <2>2, AllNamesConfined, PathsLeadDown DEF PathsConfined
<1> QED
  BY <1>1, SinkAlways, PTL

-----------------------------------------------------------------------------
(* The sink with a download beside it *)

\* A download beside the uploads only reads: with the streamer's state hidden,
\* the sink goes on as it would without it.
THEOREM ArchiveKeepsSink == ArchiveSpec => Spec
<1>1. ArchiveInit => Init
  BY DEF ArchiveInit
<1>2. [ArchiveNext]_allvars => [Next]_vars
  BY DEF ArchiveNext, allvars, Upload, begin, List, Listed, EndOfInput, OpenEntry, ReadData, Pad,
         NextEntry, Compress, CompressFails, EndStream, on_write_download
<1> QED
  BY <1>1, <1>2, PTL DEF ArchiveSpec, Spec

\* All three hold while a session is downloaded as it is uploaded.
THEOREM ArchiveSinkSafe == ArchiveSpec => [](OneDescriptor /\ ReceivedOnDisk /\ PathsConfined)
  BY ArchiveKeepsSink, SinkOneDescriptor, SinkReceivedOnDisk, SinkPathsConfined, PTL

-----------------------------------------------------------------------------
(* The order of the members *)

\* p comes before q in the order of the names.
Before(p, q) == \E a, b \in 1 .. Len(Order) : a < b /\ Order[a] = p /\ Order[b] = q

\* The paths of s are in order.
InOrder(s) == \A i, j \in 1 .. Len(s) : i < j => Before(s[i], s[j])

LEMMA OrderFacts ==
  /\ Order \in Seq(Path) /\ Len(Order) \in Nat
  /\ \A a \in 1 .. Len(Order) : Order[a] \in Path
  /\ \A p \in Path : \E a \in 1 .. Len(Order) : Order[a] = p
  /\ \A a, b \in 1 .. Len(Order) : Order[a] = Order[b] => a = b
<1>1. Order \in Seq(Path) /\ ToSet(Order) = Path /\ IsInjective(Order)
  BY ArchiveAssumption
<1>2. DOMAIN Order = 1 .. Len(Order)
  BY <1>1, LenProperties
<1>3. \A p \in Path : \E a \in 1 .. Len(Order) : Order[a] = p
  BY <1>1, <1>2 DEF ToSet
<1>4. \A a, b \in 1 .. Len(Order) : Order[a] = Order[b] => a = b
  BY <1>1, <1>2 DEF IsInjective
<1>5. \A a \in 1 .. Len(Order) : Order[a] \in Path
  BY <1>1, ElementOfSeq
<1>6. Len(Order) \in Nat
  BY <1>1, LenProperties
<1> QED BY <1>1, <1>3, <1>4, <1>5, <1>6

LEMMA BeforeStrict ==
  /\ \A p, q : Before(p, q) => p # q /\ ~Before(q, p)
  /\ \A p, q \in Path : p # q => Before(p, q) \/ Before(q, p)
<1>1. PICK n \in Nat : n = Len(Order)
  BY OrderFacts
<1>2. /\ \A a, b \in 1 .. n : Order[a] = Order[b] => a = b
      /\ \A p \in Path : \E a \in 1 .. n : Order[a] = p
  BY <1>1, OrderFacts
<1>3. \A p, q : Before(p, q) <=> \E a, b \in 1 .. n : a < b /\ Order[a] = p /\ Order[b] = q
  BY <1>1 DEF Before
<1>4. ASSUME NEW p, NEW q, Before(p, q) PROVE p # q /\ ~Before(q, p)
  <2>1. PICK a \in 1 .. n, b \in 1 .. n : a < b /\ Order[a] = p /\ Order[b] = q
    BY <1>3, <1>4
  <2>2. p # q
    BY <1>2, <2>1
  <2>3. ASSUME Before(q, p) PROVE FALSE
    <3>1. PICK d \in 1 .. n, e \in 1 .. n : d < e /\ Order[d] = q /\ Order[e] = p
      BY <1>3, <2>3
    <3>2. d = b /\ e = a
      BY <1>2, <2>1, <3>1
    <3> QED BY <2>1, <3>1, <3>2
  <2> QED BY <2>2, <2>3
<1>5. ASSUME NEW p \in Path, NEW q \in Path, p # q PROVE Before(p, q) \/ Before(q, p)
  <2>1. PICK a \in 1 .. n : Order[a] = p
    BY <1>2
  <2>2. PICK b \in 1 .. n : Order[b] = q
    BY <1>2
  <2>3. a # b
    BY <1>5, <2>1, <2>2
  <2>4. a < b \/ b < a
    BY <2>3
  <2> QED BY <1>3, <2>1, <2>2, <2>4
<1> QED BY <1>4, <1>5

\* Before is transitive.
LEMMA BeforeTrans == \A p, q, r : Before(p, q) /\ Before(q, r) => Before(p, r)
<1>1. PICK n \in Nat : n = Len(Order)
  BY OrderFacts
<1>2. \A a, b \in 1 .. n : Order[a] = Order[b] => a = b
  BY <1>1, OrderFacts
<1>3. \A p, q : Before(p, q) <=> \E a, b \in 1 .. n : a < b /\ Order[a] = p /\ Order[b] = q
  BY <1>1 DEF Before
<1> SUFFICES ASSUME NEW p, NEW q, NEW r, Before(p, q), Before(q, r) PROVE Before(p, r)
  OBVIOUS
<1>4. PICK a \in 1 .. n, b \in 1 .. n : a < b /\ Order[a] = p /\ Order[b] = q
  BY <1>3
<1>5. PICK d \in 1 .. n, e \in 1 .. n : d < e /\ Order[d] = q /\ Order[e] = r
  BY <1>3
<1>6. d = b
  BY <1>2, <1>4, <1>5
<1>7. a < e
  BY <1>4, <1>5, <1>6
<1> QED BY <1>3, <1>4, <1>5, <1>7

\* The paths of S among the first k of the order, sorted.
SortedUpTo(S, k, s) ==
  /\ s \in Seq(S) /\ InOrder(s)
  /\ \A i \in 1 .. Len(s) : \E a \in 1 .. k : Order[a] = s[i]
  /\ \A a \in 1 .. k : Order[a] \in S => \E i \in 1 .. Len(s) : s[i] = Order[a]

LEMMA SortedNext ==
  ASSUME NEW S, NEW k \in Nat, k + 1 <= Len(Order), NEW s, SortedUpTo(S, k, s)
  PROVE  SortedUpTo(S, k + 1, IF Order[k + 1] \in S THEN Append(s, Order[k + 1]) ELSE s)
<1>1. PICK n \in Nat : n = Len(Order)
  BY OrderFacts
<1>2. \A a \in 1 .. k + 1 : a \in 1 .. n
  BY <1>1
<1>3. s \in Seq(S)
  BY DEF SortedUpTo
<1>4. PICK m \in Nat : m = Len(s)
  BY <1>3
<1>5. /\ InOrder(s) /\ \A i \in 1 .. m : \E a \in 1 .. k : Order[a] = s[i]
      /\ \A a \in 1 .. k : Order[a] \in S => \E i \in 1 .. m : s[i] = Order[a]
  BY <1>4 DEF SortedUpTo
<1>6. /\ \A a \in 1 .. k + 1 : a \in 1 .. k \/ a = k + 1
      /\ \A a \in 1 .. k : a \in 1 .. k + 1
      /\ k + 1 \in 1 .. k + 1
  OBVIOUS
<1>7. CASE Order[k + 1] \notin S
  <2>1. \A i \in 1 .. m : \E a \in 1 .. k + 1 : Order[a] = s[i]
    BY <1>5, <1>6
  <2>2. \A a \in 1 .. k + 1 : Order[a] \in S => \E i \in 1 .. m : s[i] = Order[a]
    BY <1>5, <1>6, <1>7
  <2> QED BY <1>3, <1>4, <1>5, <1>7, <2>1, <2>2 DEF SortedUpTo
<1>8. CASE Order[k + 1] \in S
  <2> DEFINE t == Append(s, Order[k + 1])
  <2>1. t \in Seq(S) /\ Len(t) = m + 1
    BY <1>3, <1>4, <1>8, AppendProperties
  <2>2. t[m + 1] = Order[k + 1]
    BY <1>3, <1>4, <1>8, AppendProperties
  <2>3. \A i \in 1 .. m : t[i] = s[i]
    BY <1>3, <1>4, <1>8, AppendProperties
  <2> HIDE DEF t
  <2>4. \A i \in 1 .. m + 1 : i \in 1 .. m \/ i = m + 1
    OBVIOUS
  <2>5. \A i \in 1 .. m + 1 : \E a \in 1 .. k + 1 : Order[a] = t[i]
    BY <1>5, <1>6, <2>2, <2>3, <2>4
  <2>6. \A a \in 1 .. k + 1 : Order[a] \in S => \E i \in 1 .. m + 1 : t[i] = Order[a]
    <3>1. (\A i \in 1 .. m : i \in 1 .. m + 1) /\ m + 1 \in 1 .. m + 1
      OBVIOUS
    <3> QED BY <1>5, <1>6, <2>2, <2>3, <3>1
  <2>7. ASSUME NEW i \in 1 .. m + 1, NEW j \in 1 .. m + 1, i < j PROVE Before(t[i], t[j])
    <3>1. i \in 1 .. m
      BY <2>7
    <3>2. CASE j \in 1 .. m
      BY <1>4, <1>5, <2>3, <2>7, <3>1, <3>2 DEF InOrder
    <3>3. CASE j = m + 1
      <4>1. PICK a \in 1 .. k : Order[a] = s[i]
        BY <1>5, <3>1
      <4>2. a < k + 1 /\ a \in 1 .. n /\ k + 1 \in 1 .. n
        BY <1>2, <1>6
      <4> QED BY <1>1, <2>2, <2>3, <3>1, <3>3, <4>1, <4>2 DEF Before
    <3> QED BY <2>4, <3>2, <3>3
  <2>8. InOrder(t)
    BY <2>1, <2>7 DEF InOrder
  <2>9. SortedUpTo(S, k + 1, t)
    BY <2>1, <2>5, <2>6, <2>8 DEF SortedUpTo
  <2> QED BY <1>8, <2>9 DEF t
<1> QED BY <1>7, <1>8

\* Sorted gives the paths of a set in order, each once.
LEMMA SortedFacts ==
  ASSUME NEW S \in SUBSET Path
  PROVE  /\ Sorted(S) \in Seq(S) /\ InOrder(Sorted(S))
         /\ \A p \in S : \E i \in 1 .. Len(Sorted(S)) : Sorted(S)[i] = p
<1> DEFINE Is(f, n) == f = [k \in 0 .. n |-> IF k = 0 THEN <<>>
                                             ELSE IF Order[k] \in S THEN Append(f[k - 1], Order[k])
                                             ELSE f[k - 1]]
           Known == {n \in Nat : \E f : Is(f, n)}
<1>1. 0 \in Known
  <2> DEFINE f == [k \in 0 .. 0 |-> <<>>]
  <2>1. Is(f, 0)
    OBVIOUS
  <2> QED BY <2>1
<1>2. ASSUME NEW n \in Nat, n \in Known PROVE n + 1 \in Known
  <2>1. PICK f : Is(f, n)
    BY <1>2
  <2> DEFINE g == [k \in 0 .. n + 1 |-> IF k <= n THEN f[k]
                                        ELSE IF Order[n + 1] \in S THEN Append(f[n], Order[n + 1])
                                        ELSE f[n]]
             h == [k \in 0 .. n + 1 |-> IF k = 0 THEN <<>>
                                        ELSE IF Order[k] \in S THEN Append(g[k - 1], Order[k])
                                        ELSE g[k - 1]]
  <2>2. ASSUME NEW i \in 0 .. n + 1 PROVE g[i] = h[i]
    <3>1. CASE i = 0
      BY <2>1, <3>1
    <3>2. CASE i \in 1 .. n
      <4>1. i \in 0 .. n /\ i # 0 /\ i - 1 \in 0 .. n + 1 /\ i - 1 <= n /\ i <= n
        BY <3>2
      <4>2. f[i] = IF Order[i] \in S THEN Append(f[i - 1], Order[i]) ELSE f[i - 1]
        BY <2>1, <4>1
      <4>3. g[i] = f[i] /\ g[i - 1] = f[i - 1]
        BY <4>1
      <4>4. h[i] = IF Order[i] \in S THEN Append(g[i - 1], Order[i]) ELSE g[i - 1]
        BY <4>1
      <4> QED BY <4>2, <4>3, <4>4
    <3>3. CASE i = n + 1
      BY <2>1, <3>3
    <3> QED BY <3>1, <3>2, <3>3
  <2>3. Is(g, n + 1)
    BY <2>2
  <2> HIDE DEF g, Is
  <2>4. n + 1 \in Nat /\ \E f1 : Is(f1, n + 1)
    BY <2>3
  <2> QED BY <2>4
<1> HIDE DEF Known
<1>3. \A n \in Nat : n \in Known
  BY <1>1, <1>2, Induction
<1>4. PICK n \in Nat : n = Len(Order)
  BY OrderFacts
<1>5. \E f : Is(f, Len(Order))
  BY <1>3, <1>4 DEF Known
<1> DEFINE F == CHOOSE f : Is(f, Len(Order))
<1>6. Is(F, Len(Order))
  BY <1>5
<1>7. Sorted(S) = F[Len(Order)]
  BY DEF Sorted
<1> HIDE DEF F
<1>8. /\ F[0] = <<>>
      /\ \A k \in 1 .. n : F[k] = IF Order[k] \in S THEN Append(F[k - 1], Order[k]) ELSE F[k - 1]
  <2>1. F = [k \in 0 .. n |-> IF k = 0 THEN <<>>
                              ELSE IF Order[k] \in S THEN Append(F[k - 1], Order[k])
                              ELSE F[k - 1]]
    BY <1>4, <1>6
  <2>2. 0 \in 0 .. n /\ \A k \in 1 .. n : k \in 0 .. n /\ k # 0
    OBVIOUS
  <2> QED BY <2>1, <2>2
<1> HIDE DEF Is
<1> DEFINE Good == {k \in Nat : k <= n => SortedUpTo(S, k, F[k])}
<1>9. 0 \in Good
  <2>1. <<>> \in Seq(S) /\ Len(<<>>) = 0
    BY EmptySeq
  <2>2. SortedUpTo(S, 0, <<>>)
    BY <2>1 DEF SortedUpTo, InOrder
  <2> QED BY <1>8, <2>2
<1>10. ASSUME NEW k \in Nat, k \in Good PROVE k + 1 \in Good
  <2> SUFFICES ASSUME k + 1 <= n PROVE SortedUpTo(S, k + 1, F[k + 1])
    OBVIOUS
  <2>1. k <= n /\ k + 1 \in 1 .. n /\ (k + 1) - 1 = k
    OBVIOUS
  <2>2. F[k + 1] = IF Order[k + 1] \in S THEN Append(F[k], Order[k + 1]) ELSE F[k]
    BY <1>8, <2>1
  <2>3. SortedUpTo(S, k, F[k])
    BY <1>10, <2>1
  <2>4. k + 1 <= Len(Order)
    BY <1>4
  <2> QED BY <2>2, <2>3, <2>4, SortedNext
<1> HIDE DEF Good
<1>11. \A k \in Nat : k \in Good
  BY <1>9, <1>10, Induction
<1>12. SortedUpTo(S, n, Sorted(S))
  BY <1>4, <1>7, <1>11 DEF Good
<1>13. \A p \in S : \E a \in 1 .. n : Order[a] = p
  BY <1>4, OrderFacts
<1> QED BY <1>12, <1>13 DEF SortedUpTo

\* Two sequences in order with the same paths agree as far as both go.
Among(s, t) == \A i \in 1 .. Len(s) : \E j \in 1 .. Len(t) : s[i] = t[j]
LEMMA InOrderAgree ==
  ASSUME NEW s, NEW t, Len(s) \in Nat, Len(t) \in Nat,
         InOrder(s), InOrder(t), Among(s, t), Among(t, s)
  PROVE  /\ Len(s) <= Len(t)
         /\ \A i \in 1 .. Len(s) : i \in 1 .. Len(t) => s[i] = t[i]
<1>m. PICK m \in Nat, n \in Nat : m = Len(s) /\ n = Len(t)
  OBVIOUS
<1>h. /\ \A i, j \in 1 .. m : i < j => Before(s[i], s[j])
      /\ \A i, j \in 1 .. n : i < j => Before(t[i], t[j])
      /\ \A i \in 1 .. m : \E j \in 1 .. n : s[i] = t[j]
      /\ \A j \in 1 .. n : \E i \in 1 .. m : t[j] = s[i]
  BY <1>m DEF InOrder, Among
<1> DEFINE Apart == {i \in Nat : i \in 1 .. m /\ i \in 1 .. n /\ s[i] # t[i]}
<1>1. Apart = {}
  <2> SUFFICES ASSUME Apart # {} PROVE FALSE
    OBVIOUS
  <2>1. Apart \in SUBSET Nat
    OBVIOUS
  <2>2. PICK i \in Apart : \A j \in Apart : i <= j
    BY <2>1, LeastNumber
  <2>3. i \in 1 .. m /\ i \in 1 .. n /\ s[i] # t[i]
    OBVIOUS
  <2>4. ASSUME NEW j \in 1 .. m, j < i PROVE s[j] = t[j]
    <3>1. j \in Nat /\ j \in 1 .. n /\ ~(i <= j)
      BY <2>3, <2>4
    <3> QED BY <2>2, <3>1
  <2> HIDE DEF Apart
  <2>5. PICK j \in 1 .. n : s[i] = t[j]
    BY <1>h, <2>3
  <2>6. PICK k \in 1 .. m : t[i] = s[k]
    BY <1>h, <2>3
  <2>7. ~(j < i)
    <3> SUFFICES ASSUME j < i PROVE FALSE
      OBVIOUS
    <3>1. j \in 1 .. m
      BY <2>3
    <3>2. s[j] = t[j] /\ Before(s[j], s[i])
      BY <1>h, <2>3, <2>4, <3>1
    <3> QED BY <2>5, <3>2, BeforeStrict
  <2>8. ~(k < i)
    <3> SUFFICES ASSUME k < i PROVE FALSE
      OBVIOUS
    <3>1. k \in 1 .. n
      BY <2>3
    <3>2. s[k] = t[k] /\ Before(t[k], t[i])
      BY <1>h, <2>3, <2>4, <3>1
    <3> QED BY <2>6, <3>2, BeforeStrict
  <2>e. i # j /\ i # k
    BY <2>3, <2>5, <2>6
  <2>9. i < j /\ i < k
    BY <2>3, <2>7, <2>8, <2>e
  <2>10. Before(t[i], t[j]) /\ Before(s[i], s[k])
    BY <1>h, <2>3, <2>9
  <2> QED BY <2>5, <2>6, <2>10, BeforeStrict
<1>2. ASSUME NEW i \in 1 .. m, i \in 1 .. n PROVE s[i] = t[i]
  BY <1>1, <1>2
<1> HIDE DEF Apart
<1>3. m <= n
  <2> SUFFICES ASSUME n < m PROVE FALSE
    OBVIOUS
  <2>1. n + 1 \in 1 .. m
    OBVIOUS
  <2>2. PICK j \in 1 .. n : s[n + 1] = t[j]
    BY <1>h, <2>1
  <2>3. j \in 1 .. m /\ j < n + 1
    OBVIOUS
  <2>4. s[j] = t[j] /\ Before(s[j], s[n + 1])
    BY <1>h, <1>2, <2>1, <2>3
  <2> QED BY <2>2, <2>4, BeforeStrict
<1> QED BY <1>m, <1>2, <1>3

\* A sequence of paths in order is the sorted set of its paths.
LEMMA SortedUnique ==
  ASSUME NEW s \in Seq(Path), InOrder(s),
         NEW S \in SUBSET Path, S = {s[i] : i \in 1 .. Len(s)}
  PROVE  s = Sorted(S)
<1> DEFINE t == Sorted(S)
<1>1. t \in Seq(S) /\ InOrder(t) /\ \A p \in S : \E i \in 1 .. Len(t) : t[i] = p
  BY SortedFacts
<1> HIDE DEF t
<1>2. PICK m \in Nat : m = Len(s)
  BY LenProperties
<1>3. PICK n \in Nat : n = Len(t)
  BY <1>1, LenProperties
<1>4. \A i \in 1 .. n : t[i] \in S
  BY <1>1, <1>3, ElementOfSeq
<1>5. \A i \in 1 .. m : \E j \in 1 .. n : s[i] = t[j]
  <2> SUFFICES ASSUME NEW i \in 1 .. m PROVE \E j \in 1 .. n : s[i] = t[j]
    OBVIOUS
  <2>1. s[i] \in S
    BY <1>2
  <2> QED BY <1>1, <1>3, <2>1
<1>6. \A j \in 1 .. n : \E i \in 1 .. m : t[j] = s[i]
  BY <1>2, <1>4
<1>7. Among(s, t) /\ Among(t, s)
  BY <1>2, <1>3, <1>5, <1>6 DEF Among
<1>8. Len(s) \in Nat /\ Len(t) \in Nat
  BY <1>2, <1>3
<1>9. m <= n /\ \A i \in 1 .. m : i \in 1 .. n => s[i] = t[i]
  BY <1>1, <1>2, <1>3, <1>7, <1>8, InOrderAgree
<1>10. n <= m
  BY <1>1, <1>2, <1>3, <1>7, <1>8, InOrderAgree
<1>11. m = n
  BY <1>9, <1>10
<1>12. \A i \in 1 .. m : s[i] = t[i]
  BY <1>9, <1>11
<1>13. t \in Seq(Path)
  BY <1>1
<1>14. s = t
  BY <1>2, <1>3, <1>11, <1>12, <1>13, SeqEqual
<1> QED BY <1>14 DEF t

-----------------------------------------------------------------------------
(* Blocks *)

LEMMA DivFacts ==
  ASSUME NEW a \in Nat, NEW b \in Nat \ {0}
  PROVE  /\ a % b \in 0 .. b - 1
         /\ a < b => a % b = a
         /\ \E q \in Nat : a = b * q + (a % b)
<1>1. a % b \in 0 .. b - 1 /\ a \div b \in Nat /\ a = b * (a \div b) + (a % b)
  OBVIOUS
<1>2. PICK q \in Nat, r \in 0 .. b - 1 : q = a \div b /\ r = a % b /\ a = b * q + r
  BY <1>1
<1>3. ASSUME q = 0 PROVE a < b => r = a
  BY <1>2, <1>3
<1>4. ASSUME q >= 1 PROVE a < b => r = a
  <2>1. PICK q2 \in Nat : q = 1 + q2
    <3>1. q - 1 \in Nat /\ q = 1 + (q - 1)
      BY <1>4
    <3> QED BY <3>1
  <2>2. b * q = b + b * q2 /\ b * q2 \in Nat
    BY <2>1
  <2>3. ~(a < b)
    BY <1>2, <2>2
  <2> QED BY <2>3
<1>5. a < b => r = a
  BY <1>3, <1>4
<1>6. a = b * q + (a % b)
  BY <1>2, Zenon
<1>7. a < b => a % b = a
  BY <1>2, <1>5, Zenon
<1> QED BY <1>1, <1>6, <1>7, Zenon

\* Two multiples of b less than b apart are the same.
LEMMA MultiplesApart ==
  ASSUME NEW b \in Nat \ {0}, NEW q \in Nat, NEW k \in Nat, b * q < b * k + b
  PROVE  q <= k
<1> SUFFICES ASSUME q >= k + 1 PROVE FALSE
  OBVIOUS
<1>1. PICK d \in Nat : q = k + 1 + d
  <2>1. q - (k + 1) \in Nat /\ q = k + 1 + (q - (k + 1))
    OBVIOUS
  <2> QED BY <2>1
<1>2. b * q = b * k + b + b * d /\ b * d \in Nat /\ b * k \in Nat
  BY <1>1
<1> QED BY <1>2

LEMMA MultipleMod ==
  ASSUME NEW b \in Nat \ {0}, NEW q \in Nat, NEW r \in 0 .. b - 1
  PROVE  (b * q + r) % b = r
<1>1. PICK a \in Nat : a = b * q + r
  OBVIOUS
<1>2. PICK k \in Nat : a = b * k + (a % b)
  BY DivFacts
<1>3. PICK s \in 0 .. b - 1 : s = a % b
  BY DivFacts
<1>4. a = b * k + s
  BY <1>2, <1>3, Zenon
<1>5. b * q \in Nat /\ b * k \in Nat
  OBVIOUS
<1>6. b * q < b * k + b /\ b * k < b * q + b
  BY <1>1, <1>4, <1>5
<1>7. q <= k /\ k <= q
  BY <1>6, MultiplesApart
<1>8. q = k
  BY <1>7
<1> QED BY <1>1, <1>3, <1>4, <1>5, <1>8

\* emit_header and the padding: a member's cells and its padding fill whole blocks.
LEMMA RoundUpPads ==
  ASSUME NEW n \in Nat
  PROVE  Padding(n) \in Nat /\ RoundUp(n) = n + Padding(n)
<1>1. PICK b \in Nat \ {0} : b = Block
  BY ArchiveAssumption
<1>2. PICK r \in 0 .. b - 1 : r = n % b
  BY DivFacts
<1>3. PICK q \in Nat : n = b * q + r
  BY <1>2, DivFacts
<1>4. PICK p : p = Padding(n)
  OBVIOUS
<1>5. p = (b - r) % b
  BY <1>1, <1>2, <1>4 DEF Padding
<1>6. p \in 0 .. b - 1 /\ \E k \in Nat : n + p = b * k
  <2>1. CASE r = 0
    <3>1. p = b % b
      BY <1>5, <2>1
    <3>2. (b * 1 + 0) % b = 0
      BY MultipleMod
    <3>3. p = 0
      BY <3>1, <3>2
    <3> QED BY <1>3, <2>1, <3>3
  <2>2. CASE r # 0
    <3>1. b - r \in Nat /\ b - r < b /\ b - r \in 0 .. b - 1
      BY <2>2
    <3>2. p = b - r
      BY <1>5, <3>1, DivFacts
    <3>3. n + p = b * (q + 1) /\ q + 1 \in Nat
      BY <1>3, <3>2
    <3> QED BY <3>1, <3>2, <3>3
  <2> QED BY <2>1, <2>2
<1>7. PICK k \in Nat : n + p = b * k
  BY <1>6
<1>8. p \in Nat /\ n + p \in n .. n + b - 1 /\ (n + p) % b = 0
  <2>1. (b * k + 0) % b = 0 /\ b * k + 0 = b * k
    BY MultipleMod
  <2> QED BY <1>6, <1>7, <2>1
<1>9. ASSUME NEW m \in n .. n + b - 1, m % b = 0 PROVE m = n + p
  <2>1. m \in Nat
    OBVIOUS
  <2>2. PICK j \in Nat : m = b * j + (m % b)
    BY <2>1, DivFacts
  <2>3. m = b * j
    <3>1. m = b * j + 0
      BY <1>9, <2>2, Zenon
    <3> QED BY <3>1
  <2>4. b * j < b * k + b /\ b * k < b * j + b
    BY <1>6, <1>7, <1>9, <2>3
  <2>5. j <= k /\ k <= j
    BY <2>4, MultiplesApart
  <2>6. j = k
    BY <2>5
  <2> QED BY <1>7, <2>3, <2>6
<1>10. RoundUp(n) = CHOOSE m \in n .. n + b - 1 : m % b = 0
  BY <1>1 DEF RoundUp
<1>11. RoundUp(n) \in n .. n + b - 1 /\ RoundUp(n) % b = 0
  BY <1>8, <1>10
<1>12. RoundUp(n) = n + p
  BY <1>9, <1>11
<1> QED BY <1>4, <1>8, <1>12

-----------------------------------------------------------------------------
(* What a tar program reads *)

\* Every header of the stream says a number.
Headed(items) == \A i \in 1 .. Len(items) :
                   items[i] # <<"end">> /\ items[i][1] = "header" => items[i][3] \in Nat

\* Reading is the function its definition describes: it ends at the end of the
\* stream, and a member is followed by what is read behind its blocks.
LEMMA ReadingUnfolds ==
  ASSUME NEW items, Len(items) \in Nat, Headed(items)
  PROVE  \A i \in 1 .. Len(items) :
           /\ items[i] = <<"end">> /\ i = Len(items) => Reading(items)[i] = <<>>
           /\ /\ items[i] # <<"end">> /\ items[i][1] = "header"
              /\ i + RoundUp(items[i][3]) <= Len(items)
              => Reading(items)[i] = <<<<items[i][2], SubSeq(items, i + 1, i + items[i][3])>>>>
                                     \o Reading(items)[i + RoundUp(items[i][3]) + 1]
<1>n. PICK n \in Nat : n = Len(items)
  OBVIOUS
<1> DEFINE Body(f, i) ==
             IF i > Len(items) THEN Broken
             ELSE IF items[i] = <<"end">> THEN IF i = Len(items) THEN <<>> ELSE Broken
             ELSE IF items[i][1] # "header" \/ i + RoundUp(items[i][3]) > Len(items) THEN Broken
             ELSE <<<<items[i][2], SubSeq(items, i + 1, i + items[i][3])>>>>
                  \o f[i + RoundUp(items[i][3]) + 1]
           Is(f, k) == f = [i \in n + 1 - k .. n + 1 |-> Body(f, i)]
           Known == {k \in Nat : k <= n => \E f : Is(f, k)}
           Goes(i) == /\ i <= n /\ items[i] # <<"end">> /\ items[i][1] = "header"
                      /\ i + RoundUp(items[i][3]) <= n
           Next1(i) == i + RoundUp(items[i][3]) + 1
<1>r. ASSUME NEW i \in 1 .. n, items[i] # <<"end">>, items[i][1] = "header"
      PROVE  RoundUp(items[i][3]) \in Nat
  <2>1. PICK a \in Nat : a = items[i][3]
    BY <1>n, <1>r DEF Headed
  <2>2. PICK b \in Nat : b = Padding(a)
    BY RoundUpPads
  <2>3. RoundUp(a) = a + b
    BY <2>2, RoundUpPads
  <2> QED BY <2>1, <2>3
<1>1. ASSUME NEW i \in 1 .. n + 1, Goes(i) PROVE Next1(i) \in i + 1 .. n + 1
  <2>1. i \in 1 .. n
    BY <1>1
  <2>4. PICK r \in Nat : r = RoundUp(items[i][3])
    BY <1>r, <1>1, <2>1
  <2>5. i + r <= n
    BY <1>1, <2>4
  <2> QED BY <2>1, <2>4, <2>5
<1>2. ASSUME NEW f, NEW g, NEW i \in 1 .. n + 1, Goes(i) => f[Next1(i)] = g[Next1(i)]
      PROVE  Body(f, i) = Body(g, i)
  <2>1. CASE i > n
    BY <1>n, <2>1
  <2>2. CASE ~(i > n) /\ items[i] = <<"end">>
    BY <1>n, <2>2
  <2>3. CASE /\ ~(i > n) /\ ~(items[i] = <<"end">>)
             /\ items[i][1] # "header" \/ i + RoundUp(items[i][3]) > n
    BY <1>n, <2>3
  <2>4. CASE Goes(i)
    <3>1. f[i + RoundUp(items[i][3]) + 1] = g[i + RoundUp(items[i][3]) + 1]
      BY <1>2, <2>4
    <3> QED BY <3>1
  <2>5. ~(i > n) <=> i <= n
    OBVIOUS
  <2>6. i <= n /\ items[i] # <<"end">> /\ items[i][1] = "header" => i + RoundUp(items[i][3]) \in Nat
    <3> SUFFICES ASSUME i <= n, items[i] # <<"end">>, items[i][1] = "header"
                 PROVE  i + RoundUp(items[i][3]) \in Nat
      OBVIOUS
    <3>1. i \in 1 .. n
      OBVIOUS
    <3>2. PICK r \in Nat : r = RoundUp(items[i][3])
      BY <1>r, <3>1
    <3> QED BY <3>2
  <2> QED BY <2>1, <2>2, <2>3, <2>4, <2>5, <2>6
<1>3. \A f : \A i \in 1 .. n :
        /\ items[i] = <<"end">> /\ i = n => Body(f, i) = <<>>
        /\ Goes(i) => Body(f, i) = <<<<items[i][2], SubSeq(items, i + 1, i + items[i][3])>>>>
                                   \o f[i + RoundUp(items[i][3]) + 1]
  <2> SUFFICES ASSUME NEW f, NEW i \in 1 .. n
               PROVE  /\ items[i] = <<"end">> /\ i = n => Body(f, i) = <<>>
                      /\ Goes(i) => Body(f, i) =
                           <<<<items[i][2], SubSeq(items, i + 1, i + items[i][3])>>>>
                           \o f[i + RoundUp(items[i][3]) + 1]
    OBVIOUS
  <2>1. ASSUME items[i] = <<"end">>, i = n PROVE Body(f, i) = <<>>
    BY <1>n, <2>1
  <2>2. ASSUME Goes(i)
        PROVE  Body(f, i) = <<<<items[i][2], SubSeq(items, i + 1, i + items[i][3])>>>>
                            \o f[i + RoundUp(items[i][3]) + 1]
    <3>1. PICK r \in Nat : r = RoundUp(items[i][3])
      BY <1>r, <2>2
    <3>2. ~(i > Len(items)) /\ ~(i + RoundUp(items[i][3]) > Len(items))
      BY <1>n, <2>2, <3>1
    <3> QED BY <2>2, <3>2
  <2> QED BY <2>1, <2>2
<1>4. Reading(items) = CHOOSE f : f = [i \in 1 .. Len(items) + 1 |-> Body(f, i)]
  BY DEF Reading
<1> HIDE DEF Body, Goes, Next1
<1>5. 0 \in Known
  <2> DEFINE f == [i \in n + 1 .. n + 1 |-> Body(<<>>, i)]
  <2>1. f = [i \in n + 1 .. n + 1 |-> Body(f, i)]
    <3>1. ASSUME NEW i \in n + 1 .. n + 1 PROVE Body(<<>>, i) = Body(f, i)
      <4>1. i \in 1 .. n + 1 /\ ~(i <= n)
        OBVIOUS
      <4>2. ~Goes(i)
        BY <4>1 DEF Goes
      <4> HIDE DEF f
      <4> QED BY <1>2, <4>1, <4>2
    <3> QED BY <3>1
  <2>2. n + 1 - 0 = n + 1
    OBVIOUS
  <2>3. Is(f, 0)
    BY <2>1, <2>2
  <2> HIDE DEF f, Is
  <2> QED BY <2>3
<1>6. ASSUME NEW k \in Nat, k \in Known PROVE k + 1 \in Known
  <2> SUFFICES ASSUME k + 1 <= n PROVE \E f : Is(f, k + 1)
    OBVIOUS
  <2>1. PICK f : Is(f, k)
    BY <1>6
  <2>2. PICK a \in Nat : a = n + 1 - (k + 1) /\ a + 1 = n + 1 - k /\ a >= 1 /\ a <= n
    OBVIOUS
  <2>3. f = [i \in a + 1 .. n + 1 |-> Body(f, i)]
    BY <2>1, <2>2
  <2> DEFINE g == [i \in a .. n + 1 |-> Body(f, i)]
  <2>4. \A i \in a + 1 .. n + 1 : g[i] = f[i]
    <3>1. \A i \in a + 1 .. n + 1 : i \in a .. n + 1
      BY <2>2
    <3> QED BY <2>3, <3>1
  <2>5. ASSUME NEW i \in a .. n + 1 PROVE Body(f, i) = Body(g, i)
    <3>1. i \in 1 .. n + 1
      BY <2>2
    <3>2. ASSUME Goes(i) PROVE f[Next1(i)] = g[Next1(i)]
      <4>1. Next1(i) \in i + 1 .. n + 1
        BY <1>1, <3>1, <3>2
      <4>2. Next1(i) \in a + 1 .. n + 1
        BY <2>2, <4>1
      <4> QED BY <2>4, <4>2
    <3> HIDE DEF g
    <3> QED BY <1>2, <3>1, <3>2
  <2>6. g = [i \in a .. n + 1 |-> Body(g, i)]
    BY <2>5
  <2>7. Is(g, k + 1)
    BY <2>2, <2>6
  <2> HIDE DEF g, Is
  <2> QED BY <2>7
<1> HIDE DEF Known
<1>7. \A k \in Nat : k \in Known
  BY <1>5, <1>6, Induction
<1>8. \E f : f = [i \in 1 .. n + 1 |-> Body(f, i)]
  <2>1. PICK f : Is(f, n)
    BY <1>7 DEF Known
  <2>2. n + 1 - n = 1
    OBVIOUS
  <2>3. f = [i \in 1 .. n + 1 |-> Body(f, i)]
    BY <2>1, <2>2
  <2> QED BY <2>3
<1>9. Reading(items) = [i \in 1 .. n + 1 |-> Body(Reading(items), i)]
  BY <1>4, <1>8, <1>n
<1>10. ASSUME NEW i \in 1 .. n PROVE Reading(items)[i] = Body(Reading(items), i)
  <2>1. i \in 1 .. n + 1
    OBVIOUS
  <2> QED BY <1>9, <2>1
<1>11. ASSUME NEW i \in 1 .. n
       PROVE  /\ items[i] = <<"end">> /\ i = n => Reading(items)[i] = <<>>
              /\ Goes(i) => Reading(items)[i] =
                   <<<<items[i][2], SubSeq(items, i + 1, i + items[i][3])>>>>
                   \o Reading(items)[i + RoundUp(items[i][3]) + 1]
  BY <1>3, <1>10
<1>12. \A i \in 1 .. n : i <= n
  OBVIOUS
<1> QED BY <1>n, <1>11, <1>12 DEF Goes

\* The members of these names and sizes lie in X, the first header at its start,
\* each header at its place in at, and the place behind the last in at as well.
Laid(X, sz, names, at) ==
  /\ names \in Seq(DOMAIN sz) /\ at \in Seq(Nat) /\ Len(at) = Len(names) + 1 /\ at[1] = 1
  /\ \A j \in 1 .. Len(names) :
       /\ at[j] \in 1 .. Len(X) /\ X[at[j]] = <<"header", names[j], sz[names[j]]>>
       /\ at[j + 1] = at[j] + RoundUp(sz[names[j]]) + 1

Member(X, sz, name, place) == <<name, SubSeq(X, place + 1, place + sz[name])>>

\* The values of f from j on are its value at j and the ones behind it.
ValuesFrom(f, m, j) == [i \in 1 .. m + 1 - j |-> f[j - 1 + i]]
LEMMA ValuesStep ==
  ASSUME NEW U, NEW m \in Nat, NEW f \in [1 .. m -> U], NEW j \in 1 .. m
  PROVE  <<f[j]>> \o ValuesFrom(f, m, j + 1) = ValuesFrom(f, m, j)
<1>1. PICK l \in Nat : l = m + 1 - (j + 1) /\ m + 1 - j = l + 1
  OBVIOUS
<1>2. PICK u : u = ValuesFrom(f, m, j)
  OBVIOUS
<1>3. PICK t : t = ValuesFrom(f, m, j + 1)
  OBVIOUS
<1>4. u = [i \in 1 .. l + 1 |-> f[j - 1 + i]]
  BY <1>1, <1>2 DEF ValuesFrom
<1>5. t = [i \in 1 .. l |-> f[j + 1 - 1 + i]]
  BY <1>1, <1>3 DEF ValuesFrom
<1>6. \A i \in 1 .. l + 1 : j - 1 + i \in 1 .. m
  BY <1>1
<1>7. u \in [1 .. l + 1 -> U]
  BY <1>4, <1>6
<1>8. u \in Seq(U) /\ Len(u) = l + 1
  BY <1>7
<1>9. \A i \in 1 .. l : j + 1 - 1 + i \in 1 .. m
  BY <1>1
<1>10. t \in [1 .. l -> U]
  BY <1>5, <1>9
<1>11. t \in Seq(U) /\ Len(t) = l
  BY <1>10
<1>12. \A i \in 1 .. l + 1 : i # 1 => u[i] = t[i - 1]
  <2> SUFFICES ASSUME NEW i \in 1 .. l + 1, i # 1 PROVE u[i] = t[i - 1]
    OBVIOUS
  <2>1. i - 1 \in 1 .. l /\ j - 1 + i = j + 1 - 1 + (i - 1)
    OBVIOUS
  <2> QED BY <1>4, <1>5, <2>1
<1>13. u[1] = f[j]
  <2>1. 1 \in 1 .. l + 1 /\ j - 1 + 1 = j
    OBVIOUS
  <2> QED BY <1>4, <2>1
<1>14. PICK v : v = <<f[j]>> /\ v \in Seq(U) /\ Len(v) = 1 /\ v[1] = f[j]
  <2>1. PICK e \in U : e = f[j]
    OBVIOUS
  <2>2. <<e>> \in Seq(U) /\ Len(<<e>>) = 1 /\ <<e>>[1] = e
    OBVIOUS
  <2> QED BY <2>1, <2>2
<1>15. PICK w : w = v \o t
  OBVIOUS
<1>16. w \in Seq(U) /\ Len(w) = l + 1
  BY <1>11, <1>14, <1>15, ConcatProperties
<1>17. \A i \in 1 .. l + 1 : w[i] = IF i <= 1 THEN v[i] ELSE t[i - 1]
  <2>1. \A i \in 1 .. Len(v) + Len(t) : w[i] = IF i <= Len(v) THEN v[i] ELSE t[i - Len(v)]
    BY <1>11, <1>14, <1>15, ConcatProperties
  <2>2. Len(v) + Len(t) = l + 1
    BY <1>11, <1>14
  <2> QED BY <1>14, <2>1, <2>2
<1>18. ASSUME NEW i \in 1 .. l + 1 PROVE w[i] = u[i]
  <2>1. CASE i = 1
    BY <1>13, <1>14, <1>17, <2>1
  <2>2. CASE i # 1
    <3>1. ~(i <= 1)
      BY <2>2
    <3> QED BY <1>12, <1>17, <2>2, <3>1
  <2> QED BY <2>1, <2>2
<1>19. w = u
  BY <1>8, <1>16, <1>18, SeqEqual
<1> QED BY <1>2, <1>3, <1>14, <1>15, <1>19

\* What is read from X are these members.
ReadAs(X, sz, names, at) ==
  Members(X) = [j \in 1 .. Len(names) |-> Member(X, sz, names[j], at[j])]

\* With the end behind the last member, the members are what is read.
LEMMA MembersRead ==
  ASSUME NEW T, NEW X \in Seq(T), Headed(X), NEW sz, \A p \in DOMAIN sz : sz[p] \in Nat,
         NEW names, NEW at, Laid(X, sz, names, at),
         at[Len(at)] = Len(X), Len(X) > 0, X[Len(X)] = <<"end">>
  PROVE  ReadAs(X, sz, names, at)
<1>1. PICK n \in Nat : n = Len(X)
  BY LenProperties
<1>2. names \in Seq(DOMAIN sz) /\ at \in Seq(Nat)
  BY DEF Laid
<1>3. PICK m \in Nat : m = Len(names)
  BY <1>2, LenProperties
<1>4. Len(at) = m + 1 /\ at[1] = 1 /\ at[m + 1] = n
  BY <1>1, <1>3 DEF Laid
<1>5. \A j \in 1 .. m + 1 : at[j] \in Nat
  BY <1>2, <1>4, ElementOfSeq
<1>6. \A j \in 1 .. m : sz[names[j]] \in Nat
  BY <1>2, <1>3, ElementOfSeq
<1>7. \A j \in 1 .. m : /\ at[j] \in 1 .. n /\ X[at[j]] = <<"header", names[j], sz[names[j]]>>
                        /\ at[j + 1] = at[j] + RoundUp(sz[names[j]]) + 1
  BY <1>1, <1>3 DEF Laid
<1> DEFINE E == [j \in 1 .. m |-> Member(X, sz, names[j], at[j])]
           Known == {k \in Nat : k <= m => Reading(X)[at[m + 1 - k]] = ValuesFrom(E, m, m + 1 - k)}
<1>e. \A j \in 1 .. m : E[j] = Member(X, sz, names[j], at[j])
  OBVIOUS
<1> DEFINE U == {E[j] : j \in 1 .. m}
<1>u. E \in [1 .. m -> U]
  OBVIOUS
<1> HIDE DEF E, U
<1>8. 0 \in Known
  <2>1. n \in 1 .. Len(X) /\ X[n] = <<"end">> /\ m + 1 - 0 = m + 1
    BY <1>1
  <2>2. Reading(X)[n] = <<>>
    BY <1>1, <2>1, ReadingUnfolds
  <2>3. m + 1 - (m + 1) = 0
    OBVIOUS
  <2>4. ValuesFrom(E, m, m + 1) = <<>>
    BY <2>3 DEF ValuesFrom
  <2> QED BY <1>4, <2>1, <2>2, <2>4
<1>9. ASSUME NEW k \in Nat, k \in Known PROVE k + 1 \in Known
  <2> SUFFICES ASSUME k + 1 <= m
               PROVE  Reading(X)[at[m + 1 - (k + 1)]] = ValuesFrom(E, m, m + 1 - (k + 1))
    OBVIOUS
  <2>1. PICK j \in 1 .. m : j = m + 1 - (k + 1) /\ j + 1 = m + 1 - k
    <3>1. m - k \in 1 .. m /\ m - k = m + 1 - (k + 1) /\ (m - k) + 1 = m + 1 - k
      OBVIOUS
    <3> QED BY <3>1
  <2>2. Reading(X)[at[j + 1]] = ValuesFrom(E, m, j + 1)
    <3>1. k <= m
      OBVIOUS
    <3>2. Reading(X)[at[m + 1 - k]] = ValuesFrom(E, m, m + 1 - k)
      BY <1>9, <3>1
    <3> QED BY <2>1, <3>2
  <2>3. PICK a \in Nat, s \in Nat, r \in Nat :
          a = at[j] /\ s = sz[names[j]] /\ r = RoundUp(sz[names[j]])
    <3>1. PICK s \in Nat : s = sz[names[j]]
      BY <1>6
    <3>2. PICK b \in Nat : b = Padding(s)
      BY RoundUpPads
    <3>3. RoundUp(s) = s + b
      BY <3>2, RoundUpPads
    <3>4. PICK r \in Nat : r = RoundUp(s)
      BY <3>3
    <3>5. PICK a \in Nat : a = at[j]
      <4>1. j \in 1 .. m + 1
        OBVIOUS
      <4> QED BY <1>5, <4>1
    <3> QED BY <3>1, <3>4, <3>5
  <2>4. a \in 1 .. n /\ X[a] = <<"header", names[j], s>> /\ at[j + 1] = a + r + 1
    BY <1>7, <2>3
  <2>5. at[j + 1] <= n
    <3>1. CASE j = m
      BY <1>4, <3>1
    <3>2. CASE j + 1 \in 1 .. m
      BY <1>7, <3>2
    <3> QED BY <3>1, <3>2
  <2>6. a + r <= n
    BY <2>4, <2>5
  <2>7. /\ X[a] # <<"end">> /\ X[a][1] = "header" /\ X[a][2] = names[j] /\ X[a][3] = s
        /\ a \in 1 .. Len(X) /\ a + RoundUp(X[a][3]) <= Len(X)
    BY <1>1, <2>3, <2>4, <2>6
  <2>8. Reading(X)[a] = <<<<X[a][2], SubSeq(X, a + 1, a + X[a][3])>>>>
                        \o Reading(X)[a + RoundUp(X[a][3]) + 1]
    BY <1>1, <2>7, ReadingUnfolds
  <2>9. Reading(X)[a] = <<E[j]>> \o ValuesFrom(E, m, j + 1)
    <3>1. E[j] = <<X[a][2], SubSeq(X, a + 1, a + X[a][3])>>
      BY <1>e, <2>3, <2>7 DEF Member
    <3>2. at[j + 1] = a + RoundUp(X[a][3]) + 1
      BY <2>3, <2>4, <2>7
    <3> QED BY <2>2, <2>8, <3>1, <3>2
  <2>10. <<E[j]>> \o ValuesFrom(E, m, j + 1) = ValuesFrom(E, m, j)
    BY <1>u, ValuesStep
  <2> QED BY <2>1, <2>3, <2>9, <2>10
<1> HIDE DEF Known
<1>10. m \in Known
  BY <1>8, <1>9, Induction
<1>11. Reading(X)[at[m + 1 - m]] = ValuesFrom(E, m, m + 1 - m)
  BY <1>10 DEF Known
<1>12. m + 1 - m = 1 /\ m + 1 - 1 = m /\ \A i \in 1 .. m : 1 - 1 + i = i
  OBVIOUS
<1>13. ValuesFrom(E, m, 1) = E
  BY <1>u, <1>12 DEF ValuesFrom
<1>14. Members(X) = ValuesFrom(E, m, 1)
  BY <1>4, <1>11, <1>12 DEF Members
<1>15. Members(X) = [j \in 1 .. Len(names) |-> Member(X, sz, names[j], at[j])]
  BY <1>3, <1>13, <1>14 DEF E
<1> QED BY <1>15 DEF ReadAs

-----------------------------------------------------------------------------
(* How the stream grows *)

\* Y goes on where X ends.
Extends(X, Y) == /\ Len(X) \in Nat /\ Len(Y) \in Nat /\ Len(X) <= Len(Y)
                 /\ \A i \in 1 .. Len(X) : Y[i] = X[i]

LEMMA ConcatExtends ==
  ASSUME NEW T, NEW X \in Seq(T), NEW items \in Seq(T)
  PROVE  /\ X \o items \in Seq(T) /\ Len(X \o items) = Len(X) + Len(items)
         /\ Extends(X, X \o items)
         /\ \A i \in 1 .. Len(items) : (X \o items)[Len(X) + i] = items[i]
<1>1. PICK n \in Nat, k \in Nat : n = Len(X) /\ k = Len(items)
  BY LenProperties
<1>2. PICK Y : Y = X \o items
  OBVIOUS
<1>3. Y \in Seq(T) /\ Len(Y) = n + k
  BY <1>1, <1>2, ConcatProperties
<1>4. \A i \in 1 .. n + k : Y[i] = IF i <= n THEN X[i] ELSE items[i - n]
  BY <1>1, <1>2, ConcatProperties
<1>5. \A i \in 1 .. n : Y[i] = X[i]
  <2>1. \A i \in 1 .. n : i \in 1 .. n + k /\ i <= n
    OBVIOUS
  <2> QED BY <1>4, <2>1
<1>6. \A i \in 1 .. k : Y[n + i] = items[i]
  <2>1. \A i \in 1 .. k : n + i \in 1 .. n + k /\ ~(n + i <= n) /\ n + i - n = i
    OBVIOUS
  <2> QED BY <1>4, <2>1
<1>7. Extends(X, Y)
  BY <1>1, <1>3, <1>5 DEF Extends
<1> QED BY <1>1, <1>2, <1>3, <1>6, <1>7

LEMMA StageLaid ==
  ASSUME NEW X, NEW Y, Extends(X, Y), NEW sz, NEW names, NEW at, Laid(X, sz, names, at)
  PROVE  Laid(Y, sz, names, at)
<1>1. PICK n \in Nat, k \in Nat : n = Len(X) /\ k = Len(Y) /\ n <= k
  BY DEF Extends
<1>2. \A i \in 1 .. n : i \in 1 .. k /\ Y[i] = X[i]
  BY <1>1 DEF Extends
<1> QED BY <1>1, <1>2 DEF Laid

\* The place behind the last member.
Behind(names, at) == at[Len(names) + 1]

\* A new header where the last member ends.
LEMMA OpenLaid ==
  ASSUME NEW X, NEW Y, Extends(X, Y), NEW sz, NEW p \in DOMAIN sz, sz[p] \in Nat,
         NEW names, NEW at, Laid(X, sz, names, at),
         Len(Y) = Len(X) + 1, Behind(names, at) = Len(X) + 1,
         Y[Len(X) + 1] = <<"header", p, sz[p]>>
  PROVE  /\ Laid(Y, sz, Append(names, p), Append(at, Len(X) + 1 + RoundUp(sz[p]) + 1))
         /\ Behind(Append(names, p), Append(at, Len(X) + 1 + RoundUp(sz[p]) + 1))
              = Len(X) + 1 + RoundUp(sz[p]) + 1
<1>1. PICK n \in Nat : n = Len(X)
  BY DEF Extends
<1>2. Laid(Y, sz, names, at)
  BY StageLaid
<1>3. names \in Seq(DOMAIN sz) /\ at \in Seq(Nat)
  BY DEF Laid
<1>4. PICK m \in Nat : m = Len(names)
  BY <1>3, LenProperties
<1>5. Len(at) = m + 1 /\ at[1] = 1 /\ at[m + 1] = n + 1
  BY <1>1, <1>4 DEF Laid, Behind
<1>6. /\ \A j \in 1 .. m : /\ at[j] \in 1 .. n + 1 /\ Y[at[j]] = <<"header", names[j], sz[names[j]]>>
                           /\ at[j + 1] = at[j] + RoundUp(sz[names[j]]) + 1
  BY <1>1, <1>2, <1>4 DEF Laid
<1>7. PICK s \in Nat : s = sz[p]
  OBVIOUS
<1>8. PICK r \in Nat : r = RoundUp(s)
  <2>1. PICK b \in Nat : b = Padding(s)
    BY RoundUpPads
  <2>2. RoundUp(s) = s + b
    BY <2>1, RoundUpPads
  <2> QED BY <2>2
<1>9. PICK names2 : names2 = Append(names, p)
  OBVIOUS
<1>10. PICK next \in Nat : next = n + 1 + r + 1
  OBVIOUS
<1>11. PICK at2 : at2 = Append(at, next)
  OBVIOUS
<1>12. names2 \in Seq(DOMAIN sz) /\ Len(names2) = m + 1
  BY <1>3, <1>4, <1>9, AppendProperties
<1>13. names2[m + 1] = p
  BY <1>3, <1>4, <1>9, AppendProperties
<1>14. \A j \in 1 .. m : names2[j] = names[j]
  BY <1>3, <1>4, <1>9, AppendProperties
<1>15. at2 \in Seq(Nat) /\ Len(at2) = m + 1 + 1
  BY <1>3, <1>5, <1>11, AppendProperties
<1>16. at2[m + 1 + 1] = next
  BY <1>3, <1>5, <1>11, AppendProperties
<1>17. \A j \in 1 .. m + 1 : at2[j] = at[j]
  BY <1>3, <1>5, <1>11, AppendProperties
<1>18. at2[1] = 1
  <2>1. 1 \in 1 .. m + 1
    OBVIOUS
  <2> QED BY <1>5, <1>17, <2>1
<1>19. ASSUME NEW j \in 1 .. m + 1
       PROVE  /\ at2[j] \in 1 .. n + 1 /\ Y[at2[j]] = <<"header", names2[j], sz[names2[j]]>>
              /\ at2[j + 1] = at2[j] + RoundUp(sz[names2[j]]) + 1
  <2>1. CASE j = m + 1
    <3>1. at2[j] = n + 1 /\ names2[j] = p /\ at2[j + 1] = next
      BY <1>5, <1>13, <1>16, <1>17, <2>1
    <3>2. Y[n + 1] = <<"header", p, sz[p]>>
      BY <1>1
    <3> QED BY <1>7, <1>8, <1>10, <3>1, <3>2
  <2>2. CASE j \in 1 .. m
    <3>1. j \in 1 .. m + 1 /\ j + 1 \in 1 .. m + 1
      BY <2>2
    <3>2. at2[j] = at[j] /\ at2[j + 1] = at[j + 1] /\ names2[j] = names[j]
      BY <1>14, <1>17, <2>2, <3>1
    <3> QED BY <1>6, <2>2, <3>2
  <2> QED BY <2>1, <2>2
<1>20. Laid(Y, sz, names2, at2)
  BY <1>1, <1>12, <1>15, <1>18, <1>19 DEF Laid
<1>21. Behind(names2, at2) = next
  BY <1>12, <1>16 DEF Behind
<1> QED BY <1>1, <1>7, <1>8, <1>9, <1>10, <1>11, <1>20, <1>21

\* The members whose files nobody has touched have, as far as they go, the cells
\* of their files.
Exact(X, sz, names, at, dk, hands) ==
  \A j \in 1 .. Len(names) : names[j] \notin hands =>
    \A i \in 1 .. sz[names[j]] :
      at[j] + i <= Len(X) => X[at[j] + i] = <<"data", dk[names[j]][i]>>

\* And so do the cells of the last member that are in Y and not in X.
ExactTail(X, Y, sz, name, place, dk, hands) ==
  name \notin hands => \A i \in 1 .. sz[name] :
    place + i > Len(X) /\ place + i <= Len(Y) => Y[place + i] = <<"data", dk[name][i]>>

LEMMA EndsBefore ==
  ASSUME NEW a \in Nat, NEW s \in Nat, NEW b \in Nat, NEW n \in Nat, a + s + b + 1 = n + 1
  PROVE  a + s <= n
  OBVIOUS

\* The cells of a member end before the next one begins.
LEMMA CellsEnd ==
  ASSUME NEW X, Len(X) \in Nat, NEW sz, \A p \in DOMAIN sz : sz[p] \in Nat,
         NEW names, NEW at, Laid(X, sz, names, at), NEW j \in 1 .. Len(names)
  PROVE  /\ at[j] \in Nat /\ names[j] \in DOMAIN sz /\ sz[names[j]] \in Nat
         /\ Padding(sz[names[j]]) \in Nat
         /\ at[j + 1] = at[j] + sz[names[j]] + Padding(sz[names[j]]) + 1
         /\ j < Len(names) => at[j] + sz[names[j]] <= Len(X)
<1>1. names \in Seq(DOMAIN sz) /\ at \in Seq(Nat)
  BY DEF Laid
<1>2. PICK m \in Nat : m = Len(names)
  BY <1>1, LenProperties
<1>3. names[j] \in DOMAIN sz
  BY <1>1, ElementOfSeq
<1>4. PICK s \in Nat : s = sz[names[j]]
  BY <1>3
<1>5. PICK b \in Nat : b = Padding(s) /\ RoundUp(s) = s + b
  BY RoundUpPads
<1>6. PICK n \in Nat : n = Len(X)
  OBVIOUS
<1>7. \A k \in 1 .. m : at[k] \in 1 .. n /\ at[k + 1] = at[k] + RoundUp(sz[names[k]]) + 1
  BY <1>2, <1>6 DEF Laid
<1>8. PICK a \in Nat : a = at[j]
  BY <1>2, <1>7
<1>9. at[j + 1] = a + s + b + 1
  BY <1>2, <1>4, <1>5, <1>7, <1>8
<1>10. ASSUME j < m PROVE a + s <= n
  <2>1. j + 1 \in 1 .. m
    BY <1>2, <1>10
  <2>2. at[j + 1] \in 1 .. n
    BY <1>7, <2>1
  <2> QED BY <1>9, <2>2
<1> QED BY <1>2, <1>3, <1>4, <1>5, <1>6, <1>8, <1>9, <1>10

LEMMA StageExact ==
  ASSUME NEW X, NEW Y, Extends(X, Y), NEW sz, \A p \in DOMAIN sz : sz[p] \in Nat,
         NEW names, NEW at, Laid(X, sz, names, at),
         NEW dk, NEW hands, Exact(X, sz, names, at, dk, hands),
         Len(names) > 0 => ExactTail(X, Y, sz, names[Len(names)], at[Len(names)], dk, hands)
  PROVE  Exact(Y, sz, names, at, dk, hands)
<1>1. PICK n \in Nat, k \in Nat : n = Len(X) /\ k = Len(Y) /\ n <= k
  BY DEF Extends
<1>2. PICK m \in Nat : m = Len(names)
  <2>1. names \in Seq(DOMAIN sz)
    BY DEF Laid
  <2> QED BY <2>1, LenProperties
<1> SUFFICES ASSUME NEW j \in 1 .. m, names[j] \notin hands,
                    NEW i \in 1 .. sz[names[j]], at[j] + i <= k
             PROVE  Y[at[j] + i] = <<"data", dk[names[j]][i]>>
  BY <1>1, <1>2 DEF Exact
<1>3. PICK a \in Nat, s \in Nat : a = at[j] /\ s = sz[names[j]]
  BY <1>1, <1>2, CellsEnd
<1>4. i \in 1 .. s /\ a + i <= k
  BY <1>3
<1>5. CASE a + i <= n
  <2>1. X[a + i] = <<"data", dk[names[j]][i]>>
    BY <1>1, <1>2, <1>3, <1>5 DEF Exact
  <2>2. a + i \in 1 .. n
    BY <1>4, <1>5
  <2>3. Y[a + i] = X[a + i]
    BY <1>1, <2>2 DEF Extends
  <2> QED BY <1>3, <2>1, <2>3
<1>6. CASE a + i > n
  <2>1. ~(j < m)
    <3> SUFFICES ASSUME j < m PROVE FALSE
      OBVIOUS
    <3>1. a + s <= n
      BY <1>1, <1>2, <1>3, CellsEnd
    <3> QED BY <1>4, <1>6, <3>1
  <2>2. j = m /\ m > 0
    BY <2>1
  <2>3. ExactTail(X, Y, sz, names[j], at[j], dk, hands)
    BY <1>2, <2>2
  <2> QED BY <1>1, <1>3, <1>4, <1>6, <2>3 DEF ExactTail
<1> QED BY <1>4, <1>5, <1>6

LEMMA OpenExact ==
  ASSUME NEW X, NEW Y, Extends(X, Y), NEW sz, \A p \in DOMAIN sz : sz[p] \in Nat,
         NEW names, NEW at, Laid(X, sz, names, at),
         NEW dk, NEW hands, Exact(X, sz, names, at, dk, hands),
         Len(Y) = Len(X) + 1, Behind(names, at) = Len(X) + 1,
         NEW p \in DOMAIN sz, NEW next \in Nat
  PROVE  Exact(Y, sz, Append(names, p), Append(at, next), dk, hands)
<1>1. PICK n \in Nat : n = Len(X) /\ Len(Y) = n + 1
  BY DEF Extends
<1>2. names \in Seq(DOMAIN sz) /\ at \in Seq(Nat)
  BY DEF Laid
<1>3. PICK m \in Nat : m = Len(names)
  BY <1>2, LenProperties
<1>4. Len(at) = m + 1 /\ at[m + 1] = n + 1
  BY <1>1, <1>3 DEF Laid, Behind
<1>5. PICK names2 : names2 = Append(names, p)
  OBVIOUS
<1>6. PICK at2 : at2 = Append(at, next)
  OBVIOUS
<1>7. Len(names2) = m + 1
  BY <1>2, <1>3, <1>5, AppendProperties
<1>8. \A j \in 1 .. m : names2[j] = names[j]
  BY <1>2, <1>3, <1>5, AppendProperties
<1>9. \A j \in 1 .. m + 1 : at2[j] = at[j]
  BY <1>2, <1>4, <1>6, AppendProperties
<1>10. names2[m + 1] = p
  BY <1>2, <1>3, <1>5, AppendProperties
<1>11. Exact(Y, sz, names, at, dk, hands)
  <2> SUFFICES ASSUME m > 0 PROVE ExactTail(X, Y, sz, names[m], at[m], dk, hands)
    BY <1>3, StageExact
  <2>1. m \in 1 .. Len(names)
    BY <1>3
  <2>2. PICK a \in Nat, s \in Nat, b \in Nat :
          /\ a = at[m] /\ s = sz[names[m]] /\ at[m + 1] = a + s + b + 1
    <3>1. /\ at[m] \in Nat /\ sz[names[m]] \in Nat /\ Padding(sz[names[m]]) \in Nat
          /\ at[m + 1] = at[m] + sz[names[m]] + Padding(sz[names[m]]) + 1
      BY <1>1, <2>1, CellsEnd
    <3> QED BY <3>1
  <2>3. a + s <= n
    <3>1. a + s + b + 1 = n + 1
      BY <1>4, <2>2
    <3> QED BY <3>1, EndsBefore
  <2>4. \A i \in 1 .. s : ~(a + i > n)
    BY <2>3
  <2> QED BY <1>1, <2>2, <2>4 DEF ExactTail
<1> SUFFICES ASSUME NEW j \in 1 .. m + 1, names2[j] \notin hands,
                    NEW i \in 1 .. sz[names2[j]], at2[j] + i <= n + 1
             PROVE  Y[at2[j] + i] = <<"data", dk[names2[j]][i]>>
  BY <1>1, <1>5, <1>6, <1>7 DEF Exact
<1>12. CASE j \in 1 .. m
  <2>1. at2[j] = at[j] /\ names2[j] = names[j]
    BY <1>8, <1>9, <1>12
  <2>2. j \in 1 .. Len(names) /\ names[j] \notin hands /\ i \in 1 .. sz[names[j]] /\ at[j] + i <= Len(Y)
    BY <1>1, <1>3, <1>12, <2>1
  <2>3. Y[at[j] + i] = <<"data", dk[names[j]][i]>>
    BY <1>11, <2>2 DEF Exact
  <2> QED BY <2>1, <2>3
<1>13. CASE j = m + 1
  <2>1. at2[j] = n + 1
    BY <1>4, <1>9, <1>13
  <2>2. i \in Nat /\ i >= 1
    BY <1>10, <1>13
  <2> QED BY <2>1, <2>2
<1> QED BY <1>12, <1>13

\* The names of the members are, in order, names of the first n entries, and an
\* entry whose file nobody has touched is among them.
Chosen(names, es, n, hands) ==
  /\ InOrder(names)
  /\ \A j \in 1 .. Len(names) : \E i \in 1 .. n : names[j] = es[i]
  /\ \A i \in 1 .. n : es[i] \notin hands => \E j \in 1 .. Len(names) : names[j] = es[i]

LEMMA ChosenOpen ==
  ASSUME NEW names \in Seq(Path), NEW es \in Seq(Path), InOrder(es), NEW n \in Nat, n + 1 <= Len(es),
         NEW hands, Chosen(names, es, n, hands)
  PROVE  Chosen(Append(names, es[n + 1]), es, n + 1, hands)
<1>1. PICK l \in Nat, m \in Nat : l = Len(es) /\ m = Len(names) /\ n + 1 <= l
  BY LenProperties
<1>2. PICK names2 : names2 = Append(names, es[n + 1])
  OBVIOUS
<1>3. es[n + 1] \in Path
  <2>1. n + 1 \in 1 .. Len(es)
    BY <1>1
  <2> QED BY <2>1, ElementOfSeq
<1>4. Len(names2) = m + 1
  BY <1>1, <1>2, <1>3, AppendProperties
<1>5. names2[m + 1] = es[n + 1]
  BY <1>1, <1>2, <1>3, AppendProperties
<1>6. \A j \in 1 .. m : names2[j] = names[j]
  BY <1>1, <1>2, <1>3, AppendProperties
<1>7. /\ \A i, j \in 1 .. m : i < j => Before(names[i], names[j])
      /\ \A j \in 1 .. m : \E i \in 1 .. n : names[j] = es[i]
      /\ \A i \in 1 .. n : es[i] \notin hands => \E j \in 1 .. m : names[j] = es[i]
  BY <1>1 DEF Chosen, InOrder
<1>8. \A i, j \in 1 .. l : i < j => Before(es[i], es[j])
  BY <1>1 DEF InOrder
<1>9. ASSUME NEW i \in 1 .. m + 1, NEW j \in 1 .. m + 1, i < j PROVE Before(names2[i], names2[j])
  <2>1. i \in 1 .. m
    BY <1>9
  <2>2. CASE j \in 1 .. m
    BY <1>6, <1>7, <1>9, <2>1, <2>2
  <2>3. CASE j = m + 1
    <3>1. PICK h \in 1 .. n : names[i] = es[h]
      BY <1>7, <2>1
    <3>2. h \in 1 .. l /\ n + 1 \in 1 .. l /\ h < n + 1
      BY <1>1
    <3> QED BY <1>5, <1>6, <1>8, <2>1, <2>3, <3>1, <3>2
  <2> QED BY <2>2, <2>3
<1>10. \A j \in 1 .. m + 1 : \E i \in 1 .. n + 1 : names2[j] = es[i]
  <2>1. \A i \in 1 .. n : i \in 1 .. n + 1
    OBVIOUS
  <2>2. n + 1 \in 1 .. n + 1 /\ \A j \in 1 .. m + 1 : j \in 1 .. m \/ j = m + 1
    OBVIOUS
  <2> QED BY <1>5, <1>6, <1>7, <2>1, <2>2
<1>11. \A i \in 1 .. n + 1 : es[i] \notin hands => \E j \in 1 .. m + 1 : names2[j] = es[i]
  <2>1. \A j \in 1 .. m : j \in 1 .. m + 1
    OBVIOUS
  <2>2. m + 1 \in 1 .. m + 1 /\ \A i \in 1 .. n + 1 : i \in 1 .. n \/ i = n + 1
    OBVIOUS
  <2> QED BY <1>5, <1>6, <1>7, <2>1, <2>2
<1>12. Chosen(names2, es, n + 1, hands)
  BY <1>4, <1>9, <1>10, <1>11 DEF Chosen, InOrder
<1> QED BY <1>2, <1>12

LEMMA ChosenSkip ==
  ASSUME NEW names, NEW es, NEW n \in Nat, NEW hands, Chosen(names, es, n, hands)
  PROVE  Chosen(names, es, n + 1, hands \cup {es[n + 1]})
<1>1. \A i \in 1 .. n + 1 : i \in 1 .. n \/ i = n + 1
  OBVIOUS
<1>2. \A i \in 1 .. n : i \in 1 .. n + 1
  OBVIOUS
<1> QED BY <1>1, <1>2 DEF Chosen

LEMMA HandsMore ==
  ASSUME NEW X, NEW sz, NEW names \in Seq(DOMAIN sz), NEW at, NEW es, NEW n,
         NEW dk, NEW hands, NEW dk2, NEW hands2, hands \subseteq hands2,
         \A p \in DOMAIN sz : p \notin hands2 => dk2[p] = dk[p],
         Chosen(names, es, n, hands), Exact(X, sz, names, at, dk, hands)
  PROVE  Chosen(names, es, n, hands2) /\ Exact(X, sz, names, at, dk2, hands2)
<1>1. Chosen(names, es, n, hands2)
  BY DEF Chosen
<1>2. \A j \in 1 .. Len(names) : names[j] \in DOMAIN sz
  BY ElementOfSeq
<1>3. Exact(X, sz, names, at, dk2, hands2)
  BY <1>2 DEF Exact
<1> QED BY <1>1, <1>3

-----------------------------------------------------------------------------
(* The stream while it is made *)

Item == ({"header"} \X Path \X Nat) \cup ({"data"} \X Cell) \cup {<<"zero">>, <<"end">>}
Made == tar \o raw
\* Entries taken up, and cells of the open member still to come.
Begun == idx_ + (IF cur.open THEN 1 ELSE 0)
Owed == cur.remaining + cur.pad

FileBound == \A p \in Path : Len(disk[p]) <= Size + 1

StreamType ==
  /\ tar \in Seq(Item) /\ raw \in Seq(Item)
  /\ DOMAIN sizes \subseteq Path /\ \A p \in DOMAIN sizes : sizes[p] \in Nat /\ sizes[p] < OctalLimit
  /\ idx_ \in Nat /\ idx_ <= Len(entries_)
  /\ cur \in [pos : Nat, remaining : Nat, pad : Nat, open : BOOLEAN]

\* Nothing is made before the listing is done or after a failure; all is made and
\* compressed at the end.
Stages ==
  /\ dl \in {"none", "listing", "aborted"} => /\ idx_ = 0 /\ cur = NoFile
                                              /\ tar = <<>> /\ raw = <<>>
  /\ dl = "complete" => raw = <<>> /\ InputDone

\* The open file: its padding is still to come as long as cells are, and while
\* nobody touches it the place in it goes with the cells to come.
Current ==
  /\ ~cur.open => cur = NoFile
  /\ cur.open => /\ idx_ < Len(entries_) /\ ~InputDone
                 /\ cur.pad = 0 \/ cur.pad = Padding(sizes[Entry])
                 /\ cur.remaining > 0 => cur.pad = Padding(sizes[Entry])
                 /\ cur.remaining > 0 /\ Entry \notin touched => cur.pos + cur.remaining = sizes[Entry]
  /\ InputDone => idx_ = Len(entries_)

SameSize == \A p \in DOMAIN sizes : p \notin touched => Len(disk[p]) = sizes[p]

Layout(names, at) ==
  /\ Laid(Made, sizes, names, at)
  /\ Behind(names, at) = IF InputDone THEN Len(Made) ELSE Len(Made) + 1 + Owed
  /\ cur.open => Len(names) > 0 /\ names[Len(names)] = Entry
  /\ Chosen(names, entries_, Begun, touched)
  /\ Exact(Made, sizes, names, at, disk, touched)

StreamInv == StreamType /\ Stages /\ Current /\ SameSize /\ \E names, at : Layout(names, at)

LEMMA EntryFacts ==
  ASSUME StreamType
  PROVE  /\ entries_ \in Seq(DOMAIN sizes) /\ entries_ \in Seq(Path) /\ InOrder(entries_)
         /\ \A p \in DOMAIN sizes : \E i \in 1 .. Len(entries_) : entries_[i] = p
         /\ Len(entries_) \in Nat
         /\ idx_ < Len(entries_) => /\ Entry \in DOMAIN sizes /\ Entry \in Path
                                    /\ sizes[Entry] \in Nat /\ sizes[Entry] < OctalLimit
<1>1. DOMAIN sizes \in SUBSET Path
  BY DEF StreamType
<1>2. /\ entries_ \in Seq(DOMAIN sizes) /\ InOrder(entries_)
      /\ \A p \in DOMAIN sizes : \E i \in 1 .. Len(entries_) : entries_[i] = p
  BY <1>1, SortedFacts DEF entries_
<1>3. entries_ \in Seq(Path)
  BY <1>1, <1>2
<1>4. PICK n \in Nat : n = Len(entries_)
  BY <1>2, LenProperties
<1>5. ASSUME idx_ < n PROVE Entry \in DOMAIN sizes
  <2>1. idx_ + 1 \in 1 .. n
    BY <1>5 DEF StreamType
  <2>2. entries_[idx_ + 1] \in DOMAIN sizes
    BY <1>2, <1>4, <2>1, ElementOfSeq
  <2> QED BY <2>2 DEF Entry
<1> QED BY <1>1, <1>2, <1>3, <1>4, <1>5 DEF StreamType

LEMMA ItemFacts ==
  ASSUME NEW X \in Seq(Item)
  PROVE  /\ Headed(X) /\ Len(X) \in Nat
         /\ X # <<>> /\ Last(X) = <<"end">> <=> Len(X) > 0 /\ X[Len(X)] = <<"end">>
<1>1. PICK n \in Nat : n = Len(X)
  BY LenProperties
<1>2. \A i \in 1 .. n : X[i] \in Item
  BY <1>1, ElementOfSeq
<1>3. \A x \in Item : x # <<"end">> /\ x[1] = "header" => x[3] \in Nat
  <2> SUFFICES ASSUME NEW x \in Item, x[1] = "header" PROVE x \in {"header"} \X Path \X Nat
    OBVIOUS
  <2>1. ASSUME x \in {"data"} \X Cell PROVE FALSE
    BY <2>1
  <2>2. x # <<"zero">> /\ x # <<"end">>
    OBVIOUS
  <2> QED BY <2>1, <2>2 DEF Item
<1>4. X # <<>> <=> n > 0
  BY <1>1, EmptySeq
<1> QED BY <1>1, <1>2, <1>3, <1>4 DEF Headed, Last

LEMMA MadeFacts ==
  ASSUME StreamType
  PROVE  /\ Made \in Seq(Item) /\ Len(Made) \in Nat /\ Headed(Made)
         /\ InputDone <=> Len(Made) > 0 /\ Made[Len(Made)] = <<"end">>
<1>1. Made \in Seq(Item)
  BY ConcatProperties DEF StreamType, Made
<1> QED BY <1>1, ItemFacts DEF InputDone, Made

\* What staging items does to the stream.
LEMMA StageMade ==
  ASSUME StreamType, NEW items \in Seq(Item), Stage(items), tar' = tar
  PROVE  /\ tar' \in Seq(Item) /\ raw' \in Seq(Item) /\ Made' \in Seq(Item)
         /\ Len(Made') = Len(Made) + Len(items) /\ Extends(Made, Made')
         /\ \A i \in 1 .. Len(items) : Made'[Len(Made) + i] = items[i]
         /\ Len(items) = 0 => (InputDone' <=> InputDone)
         /\ Len(items) > 0 => (InputDone' <=> items[Len(items)] = <<"end">>)
<1>1. tar \in Seq(Item) /\ raw \in Seq(Item) /\ Made \in Seq(Item)
  BY MadeFacts DEF StreamType
<1>2. raw' = raw \o items
  BY DEF Stage
<1>3. raw' \in Seq(Item)
  BY <1>1, <1>2, ConcatProperties
<1>4. Made' = tar \o (raw \o items)
  BY <1>2 DEF Made
<1>5. tar \o (raw \o items) = (tar \o raw) \o items
  <2>1. PICK t \in Seq(Item), w \in Seq(Item) : t = tar /\ w = raw
    BY <1>1
  <2>2. t \o (w \o items) = (t \o w) \o items
    BY ConcatAssociative
  <2> QED BY <2>1, <2>2
<1>6. Made' = Made \o items
  BY <1>4, <1>5 DEF Made
<1>7. PICK Y : Y = Made'
  OBVIOUS
<1>8. /\ Y \in Seq(Item) /\ Len(Y) = Len(Made) + Len(items) /\ Extends(Made, Y)
      /\ \A i \in 1 .. Len(items) : Y[Len(Made) + i] = items[i]
  BY <1>1, <1>6, <1>7, ConcatExtends
<1>9. InputDone' <=> Y # <<>> /\ Last(Y) = <<"end">>
  BY <1>7 DEF InputDone, Made
<1>10. InputDone' <=> Len(Y) > 0 /\ Y[Len(Y)] = <<"end">>
  BY <1>8, <1>9, ItemFacts
<1>11. PICK n \in Nat, k \in Nat : n = Len(Made) /\ k = Len(items)
  BY <1>1, LenProperties
<1>12. Len(Y) = n + k
  BY <1>8, <1>11
<1>13. ASSUME k = 0 PROVE InputDone' <=> InputDone
  <2>1. Len(Y) = n
    BY <1>12, <1>13
  <2>2. n > 0 => Y[n] = Made[n]
    BY <1>8, <1>11 DEF Extends
  <2> QED BY <1>10, <1>11, <2>1, <2>2, MadeFacts
<1>14. ASSUME k > 0 PROVE InputDone' <=> items[k] = <<"end">>
  <2>1. k \in 1 .. k /\ n + k > 0
    BY <1>14
  <2>2. Y[n + k] = items[k]
    BY <1>8, <1>11, <2>1
  <2> QED BY <1>10, <1>12, <2>1, <2>2
<1> QED BY <1>1, <1>3, <1>7, <1>8, <1>11, <1>13, <1>14

-----------------------------------------------------------------------------
(* No file grows beyond its size *)

LEMMA MinOfTwo ==
  ASSUME NEW a \in Int, NEW b \in Int
  PROVE  Min({a, b}) \in {a, b} /\ Min({a, b}) <= a /\ Min({a, b}) <= b
<1>1. \E x \in {a, b} : \A y \in {a, b} : x <= y
  OBVIOUS
<1>2. Min({a, b}) \in {a, b} /\ \A y \in {a, b} : Min({a, b}) <= y
  BY <1>1 DEF Min
<1> QED
  BY <1>2

LEMMA MaxIsOne ==
  ASSUME NEW a \in Int, NEW b \in Int
  PROVE  Max({a, b}) \in {a, b} /\ Max({a, b}) >= a /\ Max({a, b}) >= b
<1>1. \E x \in {a, b} : \A y \in {a, b} : x >= y
  OBVIOUS
<1>2. Max({a, b}) \in {a, b} /\ \A y \in {a, b} : Max({a, b}) >= y
  BY <1>1 DEF Max
<1> QED
  BY <1>2

LEMMA BoundStep == SinkInv /\ FileBound /\ [Next]_vars => FileBound'
<1> SUFFICES ASSUME SinkInv, FileBound, [Next]_vars PROVE FileBound'
  OBVIOUS
<1> USE DEF SinkInv
<1>s. Size \in Nat /\ Chunk \in Nat \ {0}
  BY FileSinkAssumption
<1>1. CASE disk' = disk
  BY <1>1 DEF FileBound
<1>2. ASSUME NEW f \in Path, NEW content, disk' = [disk EXCEPT ![f] = content],
             Len(content) <= Size + 1
      PROVE  FileBound'
  BY <1>2 DEF FileBound, TypeOK
<1>3. ASSUME NEW c \in Conn, open_sequential(c) PROVE FileBound'
  <2>1. PICK f \in Path : f = File(unit[c])
    BY <1>3, FileFacts DEF open_sequential, OneWriter, Busy, TypeOK
  <2>2. disk' = [disk EXCEPT ![f] = <<>>]
    BY <1>3, <2>1 DEF open_sequential
  <2>3. Len(<<>>) <= Size + 1
    BY <1>s
  <2> QED BY <1>2, <2>2, <2>3
<1>4. ASSUME NEW c \in Conn, Create(c) PROVE FileBound'
  <2>1. PICK f \in Path : f = File(unit[c])
    BY <1>4, FileFacts DEF Create, Opening
  <2>2. disk' = [disk EXCEPT ![f] = Ensured(disk[f])]
    BY <1>4, <2>1 DEF Create
  <2>3. Len(Ensured(disk[f])) <= Size + 1
    BY <1>s DEF Ensured, FileBound
  <2> QED BY <1>2, <2>2, <2>3
<1>5. ASSUME NEW c \in Conn, Write(c) PROVE FileBound'
  <2>1. PICK f \in Path : f = File(unit[c])
    BY <1>5 DEF Write, Opening
  <2>2. PICK r \in Nat : r = run[c]
    BY DEF TypeOK
  <2>3. unit[c] \in Units
    BY <1>5 DEF Write, OneWriter, Busy, TypeOK
  <2>4. r < unit[c].length
    BY <1>5, <2>2 DEF Write
  <2>5. PICK o \in Nat : o = Position(c) /\ o + 1 <= Size
    <3>1. CASE \E n \in Small : unit[c] = [name |-> n, offset |-> 0, length |-> Size]
      <4>1. unit[c].length = Size /\ unit[c].name \in Small
        BY <3>1
      <4>2. Position(c) = r
        BY <2>2, <4>1, FileSinkAssumption DEF Position
      <4> QED BY <1>s, <2>4, <4>1, <4>2
    <3>2. CASE \E n \in Big, o \in Offsets :
                 unit[c] = [name |-> n, offset |-> o, length |-> Min({Chunk, Size - o})]
      <4>1. PICK n \in Big, o \in Offsets :
              unit[c] = [name |-> n, offset |-> o, length |-> Min({Chunk, Size - o})]
        BY <3>2
      <4>2. o \in Nat
        BY <1>s DEF Offsets
      <4>3. unit[c].name \in Big /\ unit[c].offset = o /\ unit[c].length = Min({Chunk, Size - o})
        BY <4>1
      <4>4. Position(c) = o + r
        BY <2>2, <4>3 DEF Position
      <4>5. Chunk \in Int /\ Size - o \in Int
        BY <1>s, <4>2
      <4>6. PICK l \in Int : l = Min({Chunk, Size - o}) /\ l <= Size - o
        <5>1. PICK x \in Int, y \in Int : x = Chunk /\ y = Size - o
          BY <4>5
        <5>2. Min({x, y}) \in Int /\ Min({x, y}) <= y
          BY MinOfTwo
        <5> QED BY <5>1, <5>2
      <4>7. r < l
        BY <2>4, <4>3, <4>6
      <4> QED BY <1>s, <4>2, <4>4, <4>6, <4>7
    <3>3. \A u \in Units :
            \/ \E n \in Small : u = [name |-> n, offset |-> 0, length |-> Size]
            \/ \E n \in Big, o \in Offsets :
                 u = [name |-> n, offset |-> o, length |-> Min({Chunk, Size - o})]
      BY DEF Units
    <3>4. \/ \E n \in Small : unit[c] = [name |-> n, offset |-> 0, length |-> Size]
          \/ \E n \in Big, o \in Offsets :
               unit[c] = [name |-> n, offset |-> o, length |-> Min({Chunk, Size - o})]
      BY <2>3, <3>3
    <3> QED BY <3>1, <3>2, <3>4
  <2>6. disk' = [disk EXCEPT ![f] = WriteAt(disk[f], o)]
    BY <1>5, <2>1, <2>5 DEF Write
  <2>7. disk[f] \in Seq(Cell)
    BY DEF TypeOK
  <2>8. PICK n \in Nat : n = Len(disk[f]) /\ n <= Size + 1
    BY <2>7 DEF FileBound
  <2>9. PICK m \in Nat : m = Max({n, o + 1}) /\ m <= Size + 1
    <3>1. n \in Int /\ o + 1 \in Int
      OBVIOUS
    <3>2. Max({n, o + 1}) \in {n, o + 1}
      BY <3>1, MaxIsOne
    <3> QED BY <1>s, <2>5, <2>8, <3>2
  <2>10. PICK t : t = WriteAt(disk[f], o)
    OBVIOUS
  <2>11. t = [i \in 1 .. m |-> IF i = o + 1 THEN "New"
                               ELSE IF i <= n THEN disk[f][i] ELSE "Hole"]
    BY <2>8, <2>9, <2>10 DEF WriteAt
  <2>12. t \in Seq(Cell) /\ DOMAIN t = 1 .. m
    <3>1. DOMAIN t = 1 .. m
      BY <2>11
    <3>2. t \in Seq(Cell)
      BY <2>7, <2>10, WriteAtKeeps
    <3> QED BY <3>1, <3>2
  <2>13. Len(t) = m
    BY <2>12, LenProperties
  <2> QED BY <1>2, <2>6, <2>9, <2>10, <2>13
<1>6. ASSUME NEW c \in Conn, Lookup(c) \/ OpenFails(c) \/ Finish(c) \/ Lost(c) PROVE disk' = disk
  BY <1>6 DEF Lookup, OpenFails, Finish, Lost
<1>7. ASSUME NEW c \in Conn, NEW u \in Units, Begin(c, u) PROVE disk' = disk
  BY <1>7 DEF Begin
<1>8. CASE close_all
  BY <1>1, <1>8 DEF close_all
<1>9. CASE UNCHANGED vars
  BY <1>1, <1>9 DEF vars
<1> QED
  BY <1>1, <1>3, <1>4, <1>5, <1>6, <1>7, <1>8, <1>9 DEF Next

LEMMA BoundInit == Init => FileBound
<1> SUFFICES ASSUME Init PROVE FileBound
  OBVIOUS
<1>1. PICK content \in {Absent, [i \in 1 .. Size + 1 |-> "Old"]} : disk = [p \in Path |-> content]
  BY DEF Init
<1>2. Len(Absent) <= Size + 1
  BY FileSinkAssumption DEF Absent
<1>3. Len([i \in 1 .. Size + 1 |-> "Old"]) <= Size + 1
  BY FileSinkAssumption
<1> QED BY <1>1, <1>2, <1>3 DEF FileBound

-----------------------------------------------------------------------------
(* The steps of the download *)

\* Files may be listed, and nothing is made.
NothingMade ==
  /\ DOMAIN sizes \subseteq Path /\ \A p \in DOMAIN sizes : sizes[p] \in Nat /\ sizes[p] < OctalLimit
  /\ idx_ = 0 /\ cur = NoFile /\ tar = <<>> /\ raw = <<>> /\ dl # "complete"
  /\ SameSize

LEMMA NothingSound == NothingMade => StreamInv
<1> SUFFICES ASSUME NothingMade PROVE StreamInv
  OBVIOUS
<1>1. entries_ \in Seq(DOMAIN sizes)
  <2>1. DOMAIN sizes \in SUBSET Path
    BY DEF NothingMade
  <2> QED BY <2>1, SortedFacts DEF entries_
<1>2. Len(entries_) \in Nat
  BY <1>1, LenProperties
<1>3. <<>> \in Seq(Item)
  BY EmptySeq
<1>4. NoFile \in [pos : Nat, remaining : Nat, pad : Nat, open : BOOLEAN] /\ NoFile.open = FALSE
      /\ NoFile.remaining = 0 /\ NoFile.pad = 0
  BY DEF NoFile
<1>5. StreamType
  BY <1>2, <1>3, <1>4 DEF NothingMade, StreamType
<1>6. Made = <<>> /\ Len(Made) = 0
  <2>1. Made = <<>>
    BY <1>3, ConcatEmptySeq DEF NothingMade, Made
  <2> QED BY <2>1, EmptySeq
<1>7. ~InputDone
  BY <1>5, <1>6, MadeFacts
<1>8. Stages /\ Current
  BY <1>4, <1>7 DEF NothingMade, Stages, Current
<1>9. Layout(<<>>, <<1>>)
  <2>1. <<>> \in Seq(DOMAIN sizes) /\ Len(<<>>) = 0
    BY EmptySeq
  <2>2. <<1>> \in Seq(Nat) /\ Len(<<1>>) = 1 /\ <<1>>[1] = 1
    OBVIOUS
  <2>3. PICK names : names = <<>> /\ names \in Seq(DOMAIN sizes) /\ Len(names) = 0
    BY <2>1
  <2>4. PICK at : at = <<1>> /\ at \in Seq(Nat) /\ Len(at) = 1 /\ at[1] = 1
    BY <2>2
  <2>5. Laid(Made, sizes, names, at)
    BY <2>3, <2>4 DEF Laid
  <2>6. Behind(names, at) = 1
    BY <2>3, <2>4 DEF Behind
  <2>7. Owed = 0 /\ Begun = 0 /\ ~cur.open
    BY <1>4 DEF NothingMade, Owed, Begun
  <2>8. Chosen(names, entries_, Begun, touched)
    BY <2>3, <2>7 DEF Chosen, InOrder
  <2>9. Exact(Made, sizes, names, at, disk, touched)
    BY <2>3 DEF Exact
  <2>10. Layout(names, at)
    BY <1>6, <1>7, <2>5, <2>6, <2>7, <2>8, <2>9 DEF Layout
  <2> QED BY <2>3, <2>4, <2>10
<1>10. SameSize
  BY DEF NothingMade
<1> QED BY <1>5, <1>8, <1>9, <1>10 DEF StreamInv

LEMMA NothingSoundNext == NothingMade' => StreamInv'
  BY NothingSound, PTL

LEMMA StreamInit == ArchiveInit => StreamInv
<1> SUFFICES ASSUME ArchiveInit PROVE NothingMade
  BY NothingSound
<1>1. DOMAIN sizes = {}
  BY DEF ArchiveInit
<1> QED BY <1>1 DEF ArchiveInit, NothingMade, SameSize

\* The stream and what is known of it stay.
LEMMA StreamKept ==
  ASSUME StreamInv, tar' \in Seq(Item), raw' \in Seq(Item), Made' = Made,
         sizes' = sizes, idx_' = idx_, cur' = cur, touched' = touched, disk' = disk, Stages'
  PROVE  StreamInv'
<1>1. entries_' = entries_
  BY DEF entries_
<1>2. InputDone' <=> InputDone
  BY DEF InputDone, Made
<1>3. Entry' = Entry
  BY <1>1 DEF Entry
<1>4. StreamType'
  BY <1>1 DEF StreamInv, StreamType
<1>5. Current'
  BY <1>1, <1>2, <1>3 DEF StreamInv, Current, Padding, NoFile
<1>6. SameSize'
  BY DEF StreamInv, SameSize
<1>7. PICK names, at : Layout(names, at)
  BY DEF StreamInv
<1>8. Begun' = Begun /\ Owed' = Owed
  BY DEF Begun, Owed
<1>9. Layout(names, at)'
  BY <1>1, <1>2, <1>3, <1>7, <1>8 DEF Layout
<1> QED BY <1>4, <1>5, <1>6, <1>9 DEF StreamInv

LEMMA ListingSteps ==
  ASSUME SinkInv, FileBound, StreamInv, Size + 1 < OctalLimit,
         \/ begin \/ (\E p \in Path : List(p)) \/ CompressFails
         \/ on_write_download /\ Aborted
  PROVE  StreamInv'
<1> SUFFICES NothingMade'
  BY NothingSoundNext
<1>1. /\ dl \in {"none", "listing"} => idx_ = 0 /\ cur = NoFile /\ tar = <<>> /\ raw = <<>>
      /\ SameSize /\ DOMAIN sizes \subseteq Path
      /\ \A p \in DOMAIN sizes : sizes[p] \in Nat /\ sizes[p] < OctalLimit
  BY DEF StreamInv, Stages, StreamType
<1>2. CASE begin
  BY <1>1, <1>2 DEF begin, vars, NothingMade, SameSize, NoFile
<1>3. ASSUME Aborted PROVE NothingMade'
  <2>1. DOMAIN sizes' = {}
    BY <1>3 DEF Aborted
  <2> QED BY <1>3, <2>1 DEF Aborted, NothingMade, SameSize, NoFile
<1>4. CASE CompressFails
  BY <1>3, <1>4 DEF CompressFails
<1>5. ASSUME NEW p \in Path, List(p) PROVE NothingMade'
  <2>1. /\ idx_' = 0 /\ cur' = NoFile' /\ tar' = <<>> /\ raw' = <<>> /\ dl' # "complete"
        /\ disk' = disk /\ touched' = touched
    BY <1>1, <1>5 DEF List, vars, NoFile
  <2>2. CASE sizes' = sizes
    BY <1>1, <2>1, <2>2 DEF NothingMade, SameSize
  <2>3. CASE sizes' = [q \in DOMAIN sizes \cup {p} |-> IF q = p THEN Len(disk[p]) ELSE sizes[q]]
    <3>1. PICK n \in Nat : n = Len(disk[p]) /\ n < OctalLimit
      <4>1. disk[p] \in Seq(Cell)
        BY DEF SinkInv, TypeOK
      <4>2. PICK n \in Nat : n = Len(disk[p])
        BY <4>1, LenProperties
      <4>3. n <= Size + 1 /\ Size \in Nat /\ OctalLimit \in Nat
        BY <4>2, FileSinkAssumption, ArchiveAssumption DEF FileBound
      <4> QED BY <4>2, <4>3
    <3>2. DOMAIN sizes' = DOMAIN sizes \cup {p}
      BY <2>3
    <3>3. \A q \in DOMAIN sizes' : sizes'[q] = IF q = p THEN n ELSE sizes[q]
      BY <2>3, <3>1
    <3>4. \A q \in DOMAIN sizes' : sizes'[q] \in Nat /\ sizes'[q] < OctalLimit
      BY <1>1, <3>1, <3>2, <3>3
    <3>5. SameSize'
      BY <1>1, <2>1, <3>1, <3>2, <3>3 DEF SameSize
    <3> QED BY <1>1, <2>1, <3>2, <3>4, <3>5 DEF NothingMade
  <2> QED BY <1>5, <2>2, <2>3 DEF List
<1> QED BY <1>2, <1>3, <1>4, <1>5

LEMMA SendingSteps ==
  ASSUME StreamInv, Listed \/ EndStream \/ Compress \/ (on_write_download /\ ~Aborted)
  PROVE  StreamInv'
<1>1. tar \in Seq(Item) /\ raw \in Seq(Item) /\ Made \in Seq(Item)
  BY MadeFacts DEF StreamInv, StreamType
<1>2. sizes' = sizes /\ idx_' = idx_ /\ cur' = cur /\ touched' = touched /\ disk' = disk
  BY DEF Listed, EndStream, Compress, on_write_download, vars
<1>3. CASE Listed \/ EndStream \/ (on_write_download /\ ~Aborted)
  <2>1. raw' = raw /\ tar' = tar
    BY <1>3 DEF Listed, EndStream, on_write_download
  <2>2. Made' = Made /\ (InputDone' <=> InputDone)
    BY <2>1 DEF Made, InputDone
  <2>3. Stages'
    BY <1>3, <2>1, <2>2 DEF Listed, EndStream, on_write_download, Stages
  <2> QED BY <1>1, <1>2, <2>1, <2>2, <2>3, StreamKept
<1>4. CASE Compress
  <2>1. tar' = Made /\ raw' = <<>>
    BY <1>4 DEF Compress, Made
  <2>2. <<>> \in Seq(Item)
    BY EmptySeq
  <2>3. Made' = Made
    <3>1. Made' = Made \o <<>>
      BY <2>1 DEF Made
    <3>2. Made \o <<>> = Made
      BY <1>1, ConcatEmptySeq
    <3> QED BY <3>1, <3>2
  <2>4. Stages'
    BY <1>4 DEF Compress, Stages
  <2> QED BY <1>1, <1>2, <2>1, <2>2, <2>3, <2>4, StreamKept
<1> QED BY <1>3, <1>4

\* An upload touches what it writes to.
LEMMA UploadStep ==
  ASSUME StreamInv, Upload
  PROVE  StreamInv'
<1>1. /\ dl' = dl /\ sizes' = sizes /\ idx_' = idx_ /\ cur' = cur /\ tar' = tar /\ raw' = raw
      /\ touched' = touched \cup {p \in DOMAIN sizes : disk'[p] # disk[p]}
  BY DEF Upload, stream
<1>2. entries_' = entries_
  BY <1>1 DEF entries_
<1>3. Made' = Made /\ (InputDone' <=> InputDone)
  BY <1>1 DEF Made, InputDone
<1>4. Entry' = Entry /\ Begun' = Begun /\ Owed' = Owed
  BY <1>1, <1>2 DEF Entry, Begun, Owed
<1>5. touched \subseteq touched' /\ \A p \in DOMAIN sizes : p \notin touched' => disk'[p] = disk[p]
  BY <1>1
<1>6. StreamType' /\ Stages'
  BY <1>1, <1>2, <1>3 DEF StreamInv, StreamType, Stages, NoFile
<1>7. Current'
  BY <1>1, <1>2, <1>3, <1>4, <1>5 DEF StreamInv, Current, Padding, NoFile
<1>8. SameSize'
  BY <1>1, <1>5 DEF StreamInv, SameSize
<1>9. PICK names, at : Layout(names, at)
  BY DEF StreamInv
<1>10. /\ names \in Seq(DOMAIN sizes) /\ Chosen(names, entries_, Begun, touched)
       /\ Exact(Made, sizes, names, at, disk, touched)
  BY <1>9 DEF Layout, Laid
<1>11. Chosen(names, entries_, Begun, touched') /\ Exact(Made, sizes, names, at, disk', touched')
  BY <1>5, <1>10, HandsMore
<1>12. Layout(names, at)'
  BY <1>1, <1>2, <1>3, <1>4, <1>9, <1>11 DEF Layout
<1> QED BY <1>6, <1>7, <1>8, <1>12 DEF StreamInv

\* When the last member has all its cells, more items leave them as they are.
LEMMA ExactPast ==
  ASSUME NEW X, NEW Y, Extends(X, Y), NEW sz, \A p \in DOMAIN sz : sz[p] \in Nat,
         NEW names, NEW at, Laid(X, sz, names, at),
         NEW dk, NEW hands, Exact(X, sz, names, at, dk, hands), Behind(names, at) = Len(X) + 1
  PROVE  Exact(Y, sz, names, at, dk, hands)
<1>1. PICK n \in Nat : n = Len(X)
  BY DEF Extends
<1>2. names \in Seq(DOMAIN sz)
  BY DEF Laid
<1>3. PICK m \in Nat : m = Len(names)
  BY <1>2, LenProperties
<1> SUFFICES ASSUME m > 0 PROVE ExactTail(X, Y, sz, names[m], at[m], dk, hands)
  BY <1>3, StageExact
<1>4. m \in 1 .. Len(names)
  BY <1>3
<1>5. /\ at[m] \in Nat /\ sz[names[m]] \in Nat /\ Padding(sz[names[m]]) \in Nat
      /\ at[m + 1] = at[m] + sz[names[m]] + Padding(sz[names[m]]) + 1
  BY <1>1, <1>4, CellsEnd
<1>6. PICK a \in Nat, s \in Nat, b \in Nat :
        a = at[m] /\ s = sz[names[m]] /\ at[m + 1] = a + s + b + 1
  BY <1>5
<1>7. at[m + 1] = n + 1
  BY <1>1, <1>3 DEF Behind
<1>9. a + s <= n
  <2>1. a + s + b + 1 = n + 1
    BY <1>6, <1>7
  <2> QED BY <2>1, EndsBefore
<1>8. \A i \in 1 .. s : ~(a + i > n)
  BY <1>9
<1> QED BY <1>1, <1>6, <1>8 DEF ExactTail

LEMMA EndStep ==
  ASSUME StreamInv, EndOfInput
  PROVE  StreamInv'
<1> USE DEF StreamInv
<1>1. /\ dl = "refill" /\ dl' = dl /\ sizes' = sizes /\ idx_' = idx_ /\ cur' = cur /\ tar' = tar
      /\ touched' = touched /\ disk' = disk /\ Stage(<<<<"end">>>>)
      /\ ~InputDone /\ ~cur.open /\ idx_ = Len(entries_)
  BY DEF EndOfInput, Refilling, vars
<1>2. PICK items : /\ items = <<<<"end">>>> /\ items \in Seq(Item) /\ Len(items) = 1
                   /\ items[1] = <<"end">>
  <2>1. PICK e \in Item : e = <<"end">>
    BY DEF Item
  <2>2. <<e>> \in Seq(Item) /\ Len(<<e>>) = 1 /\ <<e>>[1] = e
    OBVIOUS
  <2> QED BY <2>1, <2>2
<1>3. entries_' = entries_
  BY <1>1 DEF entries_
<1>4. Entry' = Entry /\ Begun' = Begun /\ Owed' = Owed
  BY <1>1, <1>3 DEF Entry, Begun, Owed
<1>5. /\ tar' \in Seq(Item) /\ raw' \in Seq(Item)
      /\ Len(Made') = Len(Made) + 1 /\ Extends(Made, Made') /\ InputDone'
  <2>1. Stage(items) /\ tar' = tar /\ StreamType
    BY <1>1, <1>2
  <2>2. /\ tar' \in Seq(Item) /\ raw' \in Seq(Item)
        /\ Len(Made') = Len(Made) + Len(items) /\ Extends(Made, Made')
        /\ Len(items) > 0 => (InputDone' <=> items[Len(items)] = <<"end">>)
    BY <1>2, <2>1, StageMade
  <2> QED BY <1>2, <2>2
<1>6. StreamType'
  BY <1>1, <1>3, <1>5 DEF StreamType
<1>7. Stages'
  BY <1>1 DEF Stages
<1>8. Current'
  BY <1>1, <1>3 DEF Current, NoFile
<1>9. SameSize'
  BY <1>1 DEF SameSize
<1>10. PICK names, at : Layout(names, at)
  OBVIOUS
<1>11. Owed = 0
  BY <1>1 DEF Current, NoFile, Owed
<1>12. PICK n \in Nat : n = Len(Made)
  BY MadeFacts
<1>13. Behind(names, at) = n + 1
  BY <1>1, <1>10, <1>11, <1>12 DEF Layout
<1>14. Laid(Made', sizes, names, at)
  BY <1>5, <1>10, StageLaid DEF Layout
<1>15. Exact(Made', sizes, names, at, disk, touched)
  <2>1. \A p \in DOMAIN sizes : sizes[p] \in Nat
    BY DEF StreamType
  <2>2. Laid(Made, sizes, names, at) /\ Exact(Made, sizes, names, at, disk, touched)
    BY <1>10 DEF Layout
  <2> QED BY <1>5, <1>12, <1>13, <2>1, <2>2, ExactPast
<1>16. Behind(names, at) = Len(Made')
  BY <1>5, <1>12, <1>13
<1>17. Layout(names, at)'
  BY <1>1, <1>3, <1>4, <1>5, <1>10, <1>14, <1>15, <1>16 DEF Layout
<1> QED BY <1>6, <1>7, <1>8, <1>9, <1>17

LEMMA NextEntryStep ==
  ASSUME StreamInv, NextEntry
  PROVE  StreamInv'
<1> USE DEF StreamInv
<1>1. /\ dl = "refill" /\ dl' = dl /\ sizes' = sizes /\ idx_' = idx_ + 1 /\ cur' = NoFile
      /\ tar' = tar /\ raw' = raw /\ touched' = touched /\ disk' = disk
      /\ ~InputDone /\ cur.open /\ cur.remaining = 0 /\ cur.pad = 0
  BY DEF NextEntry, Refilling, vars
<1>2. entries_' = entries_
  BY <1>1 DEF entries_
<1>3. Made' = Made /\ ~InputDone'
  BY <1>1 DEF Made, InputDone
<1>4. NoFile \in [pos : Nat, remaining : Nat, pad : Nat, open : BOOLEAN] /\ NoFile.open = FALSE
      /\ NoFile.remaining = 0 /\ NoFile.pad = 0
  BY DEF NoFile
<1>5. idx_ \in Nat /\ Len(entries_) \in Nat /\ idx_ < Len(entries_)
  BY <1>1, EntryFacts DEF StreamType, Current
<1>6. Begun' = Begun /\ Owed' = Owed
  BY <1>1, <1>4, <1>5 DEF Begun, Owed
<1>7. StreamType'
  BY <1>1, <1>2, <1>4, <1>5 DEF StreamType
<1>8. Stages'
  BY <1>1 DEF Stages
<1>9. Current'
  BY <1>1, <1>3, <1>4 DEF Current, NoFile
<1>10. SameSize'
  BY <1>1 DEF SameSize
<1>11. PICK names, at : Layout(names, at)
  OBVIOUS
<1>12. Layout(names, at)'
  BY <1>1, <1>2, <1>3, <1>4, <1>6, <1>11 DEF Layout
<1> QED BY <1>7, <1>8, <1>9, <1>10, <1>12

\* A file that cannot be opened counts as touched and has no member.
LEMMA SkipStep ==
  ASSUME StreamInv, Refilling, ~cur.open, idx_ < Len(entries_),
         dl' = dl, sizes' = sizes, idx_' = idx_ + 1, cur' = cur, tar' = tar, raw' = raw,
         touched' = touched \cup {Entry}, disk' = disk
  PROVE  StreamInv'
<1> USE DEF StreamInv
<1>1. dl = "refill" /\ ~InputDone
  BY DEF Refilling
<1>2. entries_' = entries_
  BY DEF entries_
<1>3. Made' = Made /\ ~InputDone'
  BY <1>1 DEF Made, InputDone
<1>4. idx_ \in Nat /\ Len(entries_) \in Nat
  BY EntryFacts DEF StreamType
<1>5. Begun = idx_ /\ Begun' = idx_ + 1 /\ Owed' = Owed
  BY <1>4 DEF Begun, Owed
<1>6. StreamType'
  BY <1>2, <1>4 DEF StreamType
<1>7. Stages'
  BY <1>1 DEF Stages
<1>8. Current'
  BY <1>3 DEF Current, NoFile
<1>9. SameSize'
  BY DEF SameSize
<1>10. PICK names, at : Layout(names, at)
  OBVIOUS
<1>11. /\ names \in Seq(DOMAIN sizes) /\ Chosen(names, entries_, idx_, touched)
       /\ Exact(Made, sizes, names, at, disk, touched)
  BY <1>5, <1>10 DEF Layout, Laid
<1>12. Chosen(names, entries_, idx_ + 1, touched')
  BY <1>4, <1>11, ChosenSkip DEF Entry
<1>13. Exact(Made, sizes, names, at, disk, touched')
  <2>1. touched \subseteq touched'
    OBVIOUS
  <2> QED BY <1>11, <2>1, HandsMore
<1>14. Layout(names, at)'
  BY <1>1, <1>2, <1>3, <1>5, <1>10, <1>12, <1>13 DEF Layout
<1> QED BY <1>6, <1>7, <1>8, <1>9, <1>14

\* The header of a file that is opened begins a member.
LEMMA HeaderStep ==
  ASSUME StreamInv, Refilling, ~cur.open, idx_ < Len(entries_),
         Stage(<<emit_header(Entry)>>),
         cur' = [pos |-> 0, remaining |-> sizes[Entry], pad |-> Padding(sizes[Entry]), open |-> TRUE],
         dl' = dl, sizes' = sizes, idx_' = idx_, tar' = tar, touched' = touched, disk' = disk
  PROVE  StreamInv'
<1> USE DEF StreamInv
<1>1. dl = "refill" /\ ~InputDone
  BY DEF Refilling
<1>2. PICK p : p = Entry /\ p \in DOMAIN sizes /\ p \in Path /\ sizes[p] < OctalLimit
  BY EntryFacts
<1>3. PICK s \in Nat : s = sizes[p]
  BY <1>2 DEF StreamType
<1>4. PICK b \in Nat : b = Padding(s) /\ RoundUp(s) = s + b
  BY RoundUpPads
<1>5. emit_header(p) = <<"header", p, s>>
  <2>1. OctalLimit \in Nat \ {0}
    BY ArchiveAssumption
  <2>2. s % OctalLimit = s
    BY <1>2, <1>3, <2>1, DivFacts
  <2> QED BY <1>3, <2>2 DEF emit_header, set_octal
<1>6. PICK items : /\ items = <<emit_header(Entry)>> /\ items \in Seq(Item) /\ Len(items) = 1
                   /\ items[1] = <<"header", p, s>>
  <2>1. PICK e \in Item : e = <<"header", p, s>>
    BY <1>2 DEF Item
  <2>2. <<e>> \in Seq(Item) /\ Len(<<e>>) = 1 /\ <<e>>[1] = e
    OBVIOUS
  <2> QED BY <1>2, <1>5, <2>1, <2>2
<1>7. entries_' = entries_
  BY DEF entries_
<1>8. Entry' = p
  BY <1>2, <1>7 DEF Entry
<1>9. idx_ \in Nat /\ Len(entries_) \in Nat
  BY EntryFacts DEF StreamType
<1>10. /\ cur'.pos = 0 /\ cur'.remaining = s /\ cur'.pad = b /\ cur'.open = TRUE
       /\ cur' \in [pos : Nat, remaining : Nat, pad : Nat, open : BOOLEAN]
  BY <1>2, <1>3, <1>4
<1>11. Begun = idx_ /\ Begun' = idx_ + 1 /\ Owed' = s + b
  BY <1>9, <1>10 DEF Begun, Owed
<1>12. PICK n \in Nat : n = Len(Made)
  BY MadeFacts
<1>13. /\ tar' \in Seq(Item) /\ raw' \in Seq(Item)
       /\ Len(Made') = n + 1 /\ Extends(Made, Made') /\ ~InputDone'
       /\ Made'[n + 1] = <<"header", p, s>>
  <2>1. Stage(items) /\ StreamType
    BY <1>6
  <2>2. /\ tar' \in Seq(Item) /\ raw' \in Seq(Item)
        /\ Len(Made') = Len(Made) + Len(items) /\ Extends(Made, Made')
        /\ \A i \in 1 .. Len(items) : Made'[Len(Made) + i] = items[i]
        /\ Len(items) > 0 => (InputDone' <=> items[Len(items)] = <<"end">>)
    BY <1>6, <2>1, StageMade
  <2>3. items[1] # <<"end">>
    BY <1>6
  <2> QED BY <1>6, <1>12, <2>2, <2>3
<1>14. StreamType'
  BY <1>7, <1>10, <1>13 DEF StreamType
<1>15. Stages'
  BY <1>1 DEF Stages
<1>16. Current'
  <2>1. Padding(sizes[Entry])' = b
    BY <1>3, <1>4, <1>8 DEF Padding
  <2> QED BY <1>3, <1>7, <1>8, <1>10, <1>13, <2>1 DEF Current
<1>17. SameSize'
  BY DEF SameSize
<1>18. PICK names, at : Layout(names, at)
  OBVIOUS
<1>19. Behind(names, at) = n + 1
  <2>1. Owed = 0
    BY DEF Current, NoFile, Owed
  <2> QED BY <1>1, <1>12, <1>18, <2>1 DEF Layout
<1>20. /\ Laid(Made, sizes, names, at) /\ Exact(Made, sizes, names, at, disk, touched)
       /\ Chosen(names, entries_, idx_, touched)
  BY <1>11, <1>18 DEF Layout
<1>n. PICK names2 : names2 = Append(names, p)
  OBVIOUS
<1>a. PICK at2 : at2 = Append(at, Len(Made) + 1 + RoundUp(sizes[p]) + 1)
  OBVIOUS
<1>21. /\ Laid(Made', sizes, names2, at2)
       /\ Behind(names2, at2) = Len(Made) + 1 + RoundUp(sizes[p]) + 1
  <2>1. /\ Len(Made') = Len(Made) + 1 /\ Behind(names, at) = Len(Made) + 1
        /\ Made'[Len(Made) + 1] = <<"header", p, sizes[p]>> /\ sizes[p] \in Nat
    BY <1>3, <1>12, <1>13, <1>19
  <2>2. Extends(Made, Made') /\ Laid(Made, sizes, names, at) /\ p \in DOMAIN sizes
    BY <1>2, <1>13, <1>20
  <2>3. PICK X, Y, sz : X = Made /\ Y = Made' /\ sz = sizes
    OBVIOUS
  <2>4. /\ Extends(X, Y) /\ Laid(X, sz, names, at) /\ p \in DOMAIN sz /\ sz[p] \in Nat
        /\ Len(Y) = Len(X) + 1 /\ Behind(names, at) = Len(X) + 1
        /\ Y[Len(X) + 1] = <<"header", p, sz[p]>>
    BY <2>1, <2>2, <2>3
  <2>5. /\ Laid(Y, sz, Append(names, p), Append(at, Len(X) + 1 + RoundUp(sz[p]) + 1))
        /\ Behind(Append(names, p), Append(at, Len(X) + 1 + RoundUp(sz[p]) + 1))
             = Len(X) + 1 + RoundUp(sz[p]) + 1
    BY <2>4, OpenLaid
  <2> QED BY <1>n, <1>a, <2>3, <2>5
<1>22. \A q \in DOMAIN sizes : sizes[q] \in Nat
  BY DEF StreamType
<1>23. Exact(Made', sizes, names2, at2, disk, touched)
  <2>1. PICK next \in Nat : next = Len(Made) + 1 + RoundUp(sizes[p]) + 1
    BY <1>3, <1>4, <1>12
  <2>2. Exact(Made', sizes, Append(names, p), Append(at, next), disk, touched)
    BY <1>2, <1>12, <1>13, <1>19, <1>20, <1>22, OpenExact
  <2> QED BY <1>n, <1>a, <2>1, <2>2
<1>24. Chosen(names2, entries_, idx_ + 1, touched)
  <2>1. names \in Seq(Path)
    BY <1>20 DEF Laid, StreamType
  <2>2. entries_ \in Seq(Path) /\ InOrder(entries_)
    BY EntryFacts
  <2>3. idx_ + 1 <= Len(entries_)
    BY <1>9
  <2>4. Chosen(Append(names, entries_[idx_ + 1]), entries_, idx_ + 1, touched)
    BY <1>9, <1>20, <2>1, <2>2, <2>3, ChosenOpen
  <2> QED BY <1>2, <1>n, <2>4 DEF Entry
<1>25. Len(names2) > 0 /\ names2[Len(names2)] = p
  <2>1. names \in Seq(DOMAIN sizes)
    BY <1>20 DEF Laid
  <2>2. PICK m \in Nat : m = Len(names)
    BY <2>1, LenProperties
  <2>3. Len(names2) = m + 1 /\ names2[m + 1] = p
    BY <1>2, <1>n, <2>1, <2>2, AppendProperties
  <2> QED BY <2>3
<1>26. Behind(names2, at2) = Len(Made') + 1 + Owed'
  BY <1>3, <1>4, <1>11, <1>12, <1>13, <1>21
<1>27. Layout(names2, at2)'
  BY <1>7, <1>8, <1>11, <1>13, <1>21, <1>23, <1>24, <1>25, <1>26 DEF Layout
<1> QED BY <1>14, <1>15, <1>16, <1>17, <1>27

\* The cell of the open file that the i-th item staged now is the place for.
CellAt(i) == i + sizes[Entry] + Padding(sizes[Entry]) - Owed

LEMMA PlaceInFile ==
  ASSUME NEW n \in Nat, NEW o \in Nat, NEW a \in Nat, NEW s \in Nat, NEW b \in Nat,
         NEW i \in Nat, NEW h \in Nat, n + 1 + o = a + s + b + 1, h = a + i - n
  PROVE  h + s + b - o = i
  OBVIOUS

\* Cells and padding of the open member are staged; what is staged is no longer owed.
LEMMA MemberStep ==
  ASSUME StreamInv, Refilling, cur.open, NEW items \in Seq(Item), Stage(items),
         \A i \in 1 .. Len(items) : items[i] # <<"end">>,
         dl' = dl, sizes' = sizes, idx_' = idx_, tar' = tar, disk' = disk,
         touched \subseteq touched',
         cur' \in [pos : Nat, remaining : Nat, pad : Nat, open : BOOLEAN], cur'.open,
         Len(items) + Owed' = Owed,
         cur'.pad = 0 \/ cur'.pad = Padding(sizes[Entry]),
         cur'.remaining > 0 => /\ cur'.pad = Padding(sizes[Entry])
                               /\ Entry \notin touched' => cur'.pos + cur'.remaining = sizes[Entry],
         Entry \notin touched' => \A i \in 1 .. Len(items) : CellAt(i) <= sizes[Entry] =>
                                    items[i] = <<"data", disk[Entry][CellAt(i)]>>
  PROVE  StreamInv'
<1> USE DEF StreamInv
<1>1. dl = "refill" /\ ~InputDone
  BY DEF Refilling
<1>2. PICK p : p = Entry /\ p \in DOMAIN sizes
  BY EntryFacts DEF Current
<1>3. PICK s \in Nat : s = sizes[p]
  BY <1>2 DEF StreamType
<1>4. PICK b \in Nat : b = Padding(s)
  BY RoundUpPads
<1>5. entries_' = entries_
  BY DEF entries_
<1>6. Entry' = Entry
  BY <1>5 DEF Entry
<1>7. Begun' = Begun
  BY DEF Begun
<1>8. PICK o \in Nat, k \in Nat, o2 \in Nat : o = Owed /\ k = Len(items) /\ o2 = Owed' /\ k + o2 = o
  <2>1. Owed \in Nat /\ Owed' \in Nat
    <3>1. /\ cur.remaining \in Nat /\ cur.pad \in Nat
          /\ cur'.remaining \in Nat /\ cur'.pad \in Nat
      BY DEF StreamType
    <3> QED BY <3>1 DEF Owed
  <2>2. Len(items) \in Nat
    BY LenProperties
  <2> QED BY <2>1, <2>2
<1>9. PICK n \in Nat : n = Len(Made)
  BY MadeFacts
<1>10. /\ tar' \in Seq(Item) /\ raw' \in Seq(Item)
       /\ Len(Made') = n + k /\ Extends(Made, Made') /\ ~InputDone'
       /\ \A i \in 1 .. k : Made'[n + i] = items[i]
  <2>1. /\ tar' \in Seq(Item) /\ raw' \in Seq(Item)
        /\ Len(Made') = Len(Made) + Len(items) /\ Extends(Made, Made')
        /\ \A i \in 1 .. Len(items) : Made'[Len(Made) + i] = items[i]
        /\ Len(items) = 0 => (InputDone' <=> InputDone)
        /\ Len(items) > 0 => (InputDone' <=> items[Len(items)] = <<"end">>)
    BY StageMade
  <2>2. k > 0 => items[k] # <<"end">>
    BY <1>8
  <2>3. ~InputDone'
    BY <1>1, <1>8, <2>1, <2>2
  <2> QED BY <1>8, <1>9, <2>1, <2>3
<1>11. StreamType'
  BY <1>5, <1>10 DEF StreamType
<1>12. Stages'
  BY <1>1 DEF Stages
<1>13. Current'
  <2>1. Padding(sizes[Entry])' = Padding(sizes[Entry])
    BY <1>6 DEF Padding
  <2> QED BY <1>5, <1>6, <1>10, <2>1 DEF Current
<1>14. SameSize'
  BY DEF SameSize
<1>15. PICK names, at : Layout(names, at)
  OBVIOUS
<1>16. /\ Laid(Made, sizes, names, at) /\ Exact(Made, sizes, names, at, disk, touched)
       /\ Chosen(names, entries_, Begun, touched) /\ names \in Seq(DOMAIN sizes)
       /\ Len(names) > 0 /\ names[Len(names)] = p /\ Behind(names, at) = n + 1 + o
  BY <1>1, <1>2, <1>8, <1>9, <1>15 DEF Layout, Laid
<1>17. Chosen(names, entries_, Begun, touched') /\ Exact(Made, sizes, names, at, disk, touched')
  BY <1>16, HandsMore
<1>18. \A q \in DOMAIN sizes : sizes[q] \in Nat
  BY DEF StreamType
<1>19. PICK m \in Nat : m = Len(names) /\ m > 0 /\ names[m] = p
  BY <1>16, LenProperties
<1>20. PICK a \in Nat : a = at[m] /\ n + 1 + o = a + s + b + 1
  <2>1. m \in 1 .. Len(names)
    BY <1>19
  <2>2. at[m] \in Nat /\ at[m + 1] = at[m] + sizes[names[m]] + Padding(sizes[names[m]]) + 1
    <3>1. Laid(Made, sizes, names, at) /\ Len(Made) \in Nat
      BY <1>9, <1>16
    <3> QED BY <1>18, <2>1, <3>1, CellsEnd
  <2> QED BY <1>3, <1>4, <1>16, <1>19, <2>2 DEF Behind
<1>21. ExactTail(Made, Made', sizes, p, a, disk, touched')
  <2> SUFFICES ASSUME p \notin touched', NEW i \in 1 .. s, a + i > n, a + i <= n + k
               PROVE  Made'[a + i] = <<"data", disk[p][i]>>
    BY <1>3, <1>9, <1>10 DEF ExactTail
  <2>1. PICK h \in 1 .. k : h = a + i - n
    OBVIOUS
  <2>2. CellAt(h) = i
    <3>1. CellAt(h) = h + s + b - o
      BY <1>2, <1>3, <1>4, <1>8 DEF CellAt
    <3>2. n + 1 + o = a + s + b + 1
      BY <1>20
    <3>3. PICK i1 \in Nat, h1 \in Nat : i1 = i /\ h1 = h
      OBVIOUS
    <3>4. h1 = a + i1 - n
      BY <2>1, <3>3
    <3>5. h1 + s + b - o = i1
      BY <3>2, <3>4, PlaceInFile
    <3> QED BY <3>1, <3>3, <3>5
  <2>3. CellAt(h) <= sizes[Entry]
    BY <1>2, <1>3, <2>2
  <2>4. items[h] = <<"data", disk[p][i]>>
    BY <1>2, <1>8, <2>2, <2>3
  <2>5. Made'[n + h] = items[h] /\ n + h = a + i
    BY <1>10, <2>1
  <2> QED BY <2>4, <2>5
<1>22. Exact(Made', sizes, names, at, disk, touched')
  <2>1. ExactTail(Made, Made', sizes, names[Len(names)], at[Len(names)], disk, touched')
    BY <1>19, <1>20, <1>21
  <2> QED BY <1>10, <1>16, <1>17, <1>18, <2>1, StageExact
<1>23. Laid(Made', sizes, names, at)
  BY <1>10, <1>16, StageLaid
<1>24. Behind(names, at) = Len(Made') + 1 + Owed'
  <2>1. n + k + 1 + o2 = n + 1 + o
    BY <1>8
  <2> QED BY <1>8, <1>10, <1>16, <2>1
<1>25. Layout(names, at)'
  BY <1>2, <1>5, <1>6, <1>7, <1>10, <1>16, <1>17, <1>22, <1>23, <1>24 DEF Layout
<1> QED BY <1>11, <1>12, <1>13, <1>14, <1>25

LEMMA ZerosFacts ==
  ASSUME NEW n \in Nat
  PROVE  /\ Zeros(n) \in Seq(Item) /\ Len(Zeros(n)) = n
         /\ \A i \in 1 .. n : Zeros(n)[i] # <<"end">>
<1>1. PICK z \in Item : z = <<"zero">> /\ z # <<"end">>
  BY DEF Item
<1>2. Zeros(n) = [i \in 1 .. n |-> z]
  BY <1>1 DEF Zeros
<1>3. [i \in 1 .. n |-> z] \in Seq(Item) /\ Len([i \in 1 .. n |-> z]) = n
  OBVIOUS
<1> QED BY <1>1, <1>2, <1>3

LEMMA PadStep ==
  ASSUME StreamInv, Pad
  PROVE  StreamInv'
<1> USE DEF StreamInv
<1>1. /\ Refilling /\ cur.open /\ cur.remaining = 0 /\ cur.pad > 0 /\ Stage(Zeros(cur.pad))
      /\ cur' = [cur EXCEPT !.pad = 0]
      /\ dl' = dl /\ sizes' = sizes /\ idx_' = idx_ /\ tar' = tar /\ disk' = disk
      /\ touched' = touched
  BY DEF Pad, vars
<1>2. PICK b \in Nat : b = cur.pad
  BY DEF StreamType
<1>3. PICK items : items = Zeros(b)
  OBVIOUS
<1>4. items \in Seq(Item) /\ Len(items) = b /\ \A i \in 1 .. b : items[i] # <<"end">>
  BY <1>3, ZerosFacts
<1>5. /\ cur' \in [pos : Nat, remaining : Nat, pad : Nat, open : BOOLEAN]
      /\ cur'.open /\ cur'.remaining = 0 /\ cur'.pad = 0
  BY <1>1 DEF StreamType
<1>6. Owed = b /\ Owed' = 0
  BY <1>1, <1>2, <1>5 DEF Owed
<1>7. b = Padding(sizes[Entry])
  BY <1>1, <1>2 DEF Current
<1>8. PICK s \in Nat : s = sizes[Entry]
  BY <1>1, EntryFacts DEF Current
<1>9. \A i \in 1 .. b : ~(CellAt(i) <= sizes[Entry])
  <2> SUFFICES ASSUME NEW i \in 1 .. b PROVE ~(CellAt(i) <= s)
    BY <1>8
  <2>1. CellAt(i) = i + s + b - b
    BY <1>6, <1>7, <1>8 DEF CellAt
  <2> QED BY <2>1
<1>10. Stage(items) /\ \A i \in 1 .. Len(items) : items[i] # <<"end">>
  BY <1>1, <1>2, <1>3, <1>4
<1>11. Len(items) + Owed' = Owed
  BY <1>4, <1>6
<1>12. \A i \in 1 .. Len(items) : CellAt(i) <= sizes[Entry] =>
         items[i] = <<"data", disk[Entry][CellAt(i)]>>
  BY <1>4, <1>9
<1>13. ~(cur'.remaining > 0) /\ touched \subseteq touched'
  BY <1>1, <1>5
<1> QED BY <1>1, <1>4, <1>5, <1>10, <1>11, <1>12, <1>13, MemberStep

LEMMA DataFacts ==
  ASSUME NEW p \in Path, disk[p] \in Seq(Cell), NEW from \in Nat, NEW n \in Nat,
         n > 0 => from + n <= Len(disk[p])
  PROVE  /\ Data(p, from, n) \in Seq(Item) /\ Len(Data(p, from, n)) = n
         /\ \A i \in 1 .. n : Data(p, from, n)[i] = <<"data", disk[p][from + i]>>
<1>1. PICK l \in Nat : l = Len(disk[p])
  BY LenProperties
<1>2. \A i \in 1 .. n : from + i \in 1 .. l
  BY <1>1
<1>3. \A i \in 1 .. n : disk[p][from + i] \in Cell
  BY <1>1, <1>2, ElementOfSeq
<1>4. \A i \in 1 .. n : <<"data", disk[p][from + i]>> \in Item
  BY <1>3 DEF Item
<1>5. Data(p, from, n) \in [1 .. n -> Item]
  BY <1>4 DEF Data
<1>6. Data(p, from, n) \in Seq(Item) /\ Len(Data(p, from, n)) = n
  BY <1>5
<1> QED BY <1>6 DEF Data

NoEnd(s) == \A i \in 1 .. Len(s) : s[i] # <<"end">>

LEMMA NoEndJoin ==
  ASSUME NEW d \in Seq(Item), NEW z \in Seq(Item), NoEnd(d), NoEnd(z)
  PROVE  NoEnd(d \o z)
<1>1. PICK items : items = d \o z
  OBVIOUS
<1>2. PICK got \in Nat, fill \in Nat : got = Len(d) /\ fill = Len(z)
  BY LenProperties
<1>3. /\ Len(items) = got + fill /\ Extends(d, items)
      /\ \A i \in 1 .. fill : items[got + i] = z[i]
  <2>1. /\ Len(items) = Len(d) + Len(z) /\ Extends(d, items)
        /\ \A i \in 1 .. Len(z) : items[Len(d) + i] = z[i]
    BY <1>1, ConcatExtends, Zenon
  <2> QED BY <1>2, <2>1, Zenon
<1>4. \A i \in 1 .. got : items[i] = d[i]
  BY <1>2, <1>3 DEF Extends
<1>5. /\ \A i \in 1 .. got : d[i] # <<"end">>
      /\ \A i \in 1 .. fill : z[i] # <<"end">>
  BY <1>2 DEF NoEnd
<1>6. ASSUME NEW i \in 1 .. got + fill PROVE items[i] # <<"end">>
  <2>1. CASE i <= got
    <3>1. i \in 1 .. got
      BY <2>1
    <3> QED BY <1>4, <1>5, <3>1
  <2>2. CASE i > got
    <3>1. PICK h \in 1 .. fill : i = got + h
      <4>1. i - got \in 1 .. fill /\ i = got + (i - got)
        BY <2>2
      <4> QED BY <4>1
    <3> QED BY <1>3, <1>5, <3>1
  <2> QED BY <2>1, <2>2
<1> QED BY <1>1, <1>3, <1>6 DEF NoEnd

\* What one read gives: got cells, and zeros for the rest of the member when it
\* is short of what was wanted.
OneRead(p, from, got, fill) == Data(p, from, got) \o IF fill > 0 THEN Fill(fill) ELSE <<>>
ReadGives(items, p, from, got, fill) ==
  /\ items \in Seq(Item) /\ Len(items) = got + fill /\ NoEnd(items)
  /\ \A i \in 1 .. got : items[i] = <<"data", disk[p][from + i]>>

LEMMA ReadItems ==
  ASSUME NEW p \in Path, disk[p] \in Seq(Cell), NEW from \in Nat, NEW got \in Nat,
         got > 0 => from + got <= Len(disk[p]), NEW fill \in Nat
  PROVE  ReadGives(OneRead(p, from, got, fill), p, from, got, fill)
<1>0. PICK items : items = OneRead(p, from, got, fill)
  OBVIOUS
<1>1. PICK d : d = Data(p, from, got)
  OBVIOUS
<1>2. /\ d \in Seq(Item) /\ Len(d) = got
      /\ \A i \in 1 .. got : d[i] = <<"data", disk[p][from + i]>>
  BY <1>1, DataFacts
<1>e. NoEnd(d)
  <2> SUFFICES ASSUME NEW i \in 1 .. got PROVE d[i] # <<"end">>
    BY <1>2 DEF NoEnd
  <2>1. PICK c : d[i] = <<"data", c>>
    BY <1>2
  <2> QED BY <2>1
<1>3. PICK z : z = IF fill > 0 THEN Fill(fill) ELSE <<>>
  OBVIOUS
<1>4. z \in Seq(Item) /\ Len(z) = fill /\ NoEnd(z)
  <2>1. CASE fill > 0
    BY <1>3, <2>1, ZerosFacts DEF Fill, NoEnd
  <2>2. CASE fill = 0
    <3>1. z = <<>>
      BY <1>3, <2>2
    <3>2. <<>> \in Seq(Item) /\ Len(<<>>) = 0
      BY EmptySeq
    <3> QED BY <2>2, <3>1, <3>2 DEF NoEnd
  <2> QED BY <2>1, <2>2
<1>5. items = d \o z
  BY <1>0, <1>1, <1>3 DEF OneRead
<1>6. d \o z \in Seq(Item) /\ Len(d \o z) = Len(d) + Len(z) /\ Extends(d, d \o z)
  BY <1>2, <1>4, ConcatExtends, Zenon
<1>7. NoEnd(d \o z)
  BY <1>2, <1>e, <1>4, NoEndJoin, Zenon
<1>8. \A i \in 1 .. got : items[i] = d[i]
  BY <1>2, <1>5, <1>6 DEF Extends
<1> QED BY <1>0, <1>2, <1>4, <1>5, <1>6, <1>7, <1>8 DEF ReadGives

LEMMA ReadStep ==
  ASSUME SinkInv, StreamInv, ReadData
  PROVE  StreamInv'
<1> USE DEF StreamInv
<1> DEFINE wants == Min({cur.remaining, Buf})
           finds == Max({0, Len(disk[Entry]) - cur.pos})
<1>1. PICK got \in 0 .. Min({wants, finds}) :
        /\ Stage(Data(Entry, cur.pos, got)
                 \o IF got < wants THEN Fill(cur.remaining - got) ELSE <<>>)
        /\ cur' = [cur EXCEPT !.pos = @ + got,
                              !.remaining = IF got < wants THEN 0 ELSE @ - got]
        /\ touched' = IF got < Min({wants, finds}) THEN touched \cup {Entry} ELSE touched
  BY DEF ReadData
<1>2. /\ Refilling /\ cur.open /\ cur.remaining > 0
      /\ dl' = dl /\ sizes' = sizes /\ idx_' = idx_ /\ tar' = tar /\ disk' = disk
  BY DEF ReadData, vars
<1>3. PICK p \in Path : p = Entry /\ p \in DOMAIN sizes /\ sizes[p] \in Nat
  BY <1>2, EntryFacts DEF Current
<1>4. PICK s \in Nat, b \in Nat : s = sizes[p] /\ b = Padding(s)
  BY <1>3, RoundUpPads
<1>5. PICK rem \in Nat, pos \in Nat : rem = cur.remaining /\ pos = cur.pos /\ rem > 0
  BY <1>2 DEF StreamType
<1>6. cur.pad = b
  BY <1>2, <1>3, <1>4 DEF Current
<1>7. disk[p] \in Seq(Cell)
  BY DEF SinkInv, TypeOK
<1>8. PICK l \in Nat : l = Len(disk[p])
  BY <1>7, LenProperties
<1>9. PICK want \in Nat : want = wants /\ want > 0 /\ want <= rem
  <2>1. Buf \in Nat \ {0}
    BY ArchiveAssumption
  <2>2. rem \in Int /\ Buf \in Int
    BY <2>1
  <2>3. Min({rem, Buf}) \in {rem, Buf} /\ Min({rem, Buf}) <= rem
    BY <2>2, MinOfTwo
  <2> QED BY <1>5, <2>1, <2>3
<1>10. PICK there \in Nat : there = finds /\ (there > 0 => there = l - pos) /\ there >= l - pos
  <2>1. 0 \in Int /\ l - pos \in Int
    OBVIOUS
  <2>2. Max({0, l - pos}) \in {0, l - pos} /\ Max({0, l - pos}) >= 0 /\ Max({0, l - pos}) >= l - pos
    BY <2>1, MaxIsOne
  <2>3. finds = Max({0, l - pos})
    BY <1>3, <1>5, <1>8
  <2> QED BY <2>2, <2>3
<1> HIDE DEF wants, finds
<1>11. PICK most \in Nat : most = Min({wants, finds}) /\ most <= want /\ most <= there
                           /\ (most = want \/ most = there)
  <2>1. Min({want, there}) \in {want, there} /\ Min({want, there}) <= want /\ Min({want, there}) <= there
    BY MinOfTwo
  <2> QED BY <1>9, <1>10, <2>1
<1>12. got \in Nat /\ got <= want /\ got <= there /\ got <= most
  BY <1>1, <1>11
<1>13. PICK fill \in Nat : /\ got < want => fill = rem - got
                           /\ ~(got < want) => fill = 0
                           /\ fill > 0 <=> got < want
  <2>1. CASE got < want
    <3>1. rem - got \in Nat /\ rem - got > 0
      BY <1>9, <1>12, <2>1
    <3> QED BY <2>1, <3>1
  <2>2. CASE ~(got < want)
    BY <2>2
  <2> QED BY <2>1, <2>2
<1>14. PICK items : items = OneRead(p, pos, got, fill)
  OBVIOUS
<1>15. Stage(items)
  <2>1. (IF got < want THEN Fill(rem - got) ELSE <<>>) = IF fill > 0 THEN Fill(fill) ELSE <<>>
    BY <1>13
  <2>2. Stage(Data(p, pos, got) \o IF got < want THEN Fill(rem - got) ELSE <<>>)
    BY <1>1, <1>3, <1>5, <1>9
  <2> QED BY <1>14, <2>1, <2>2 DEF OneRead
<1>16. got > 0 => pos + got <= Len(disk[p])
  BY <1>8, <1>10, <1>12
<1>17. /\ items \in Seq(Item) /\ Len(items) = got + fill /\ NoEnd(items)
       /\ \A i \in 1 .. got : items[i] = <<"data", disk[p][pos + i]>>
  <2>1. got \in Nat
    BY <1>12
  <2>2. ReadGives(OneRead(p, pos, got, fill), p, pos, got, fill)
    BY <1>7, <1>16, <2>1, ReadItems
  <2> QED BY <1>14, <2>2 DEF ReadGives
<1>18. PICK rem2 \in Nat : /\ got < want => rem2 = 0
                           /\ ~(got < want) => rem2 = rem - got
                           /\ got + fill + rem2 = rem
  <2>1. CASE got < want
    BY <1>9, <1>12, <1>13, <2>1
  <2>2. CASE ~(got < want)
    <3>1. rem - got \in Nat /\ got + 0 + (rem - got) = rem
      BY <1>9, <1>12
    <3> QED BY <1>13, <2>2, <3>1
  <2> QED BY <2>1, <2>2
<1>19. /\ cur' \in [pos : Nat, remaining : Nat, pad : Nat, open : BOOLEAN]
       /\ cur'.open /\ cur'.pad = b /\ cur'.pos = pos + got /\ cur'.remaining = rem2
  <2>1. (IF got < wants THEN 0 ELSE cur.remaining - got) = rem2
    BY <1>5, <1>9, <1>18
  <2>2. cur' = [cur EXCEPT !.pos = pos + got, !.remaining = rem2]
    BY <1>1, <1>5, <2>1
  <2>3. pos + got \in Nat
    BY <1>12
  <2> QED BY <1>2, <1>6, <2>2, <2>3 DEF StreamType
<1>20. Owed = rem + b /\ Owed' = rem2 + b
  BY <1>5, <1>6, <1>19 DEF Owed
<1>21. Len(items) + Owed' = Owed
  <2>1. got + fill + (rem2 + b) = rem + b
    BY <1>12, <1>18
  <2> QED BY <1>17, <1>20, <2>1
<1>22. touched \subseteq touched' /\ (p \notin touched' => p \notin touched /\ ~(got < most))
  BY <1>1, <1>3, <1>11
<1>23. ASSUME p \notin touched' PROVE pos + rem = s /\ got = want /\ fill = 0 /\ rem2 = rem - got
  <2>1. pos + rem = s /\ l = s
    BY <1>2, <1>3, <1>4, <1>5, <1>8, <1>22, <1>23 DEF Current, SameSize
  <2>2. there >= rem
    BY <1>10, <2>1
  <2>3. most = want
    BY <1>9, <1>11, <2>2
  <2>4. got = want
    BY <1>12, <1>22, <1>23, <2>3
  <2> QED BY <1>13, <1>18, <2>1, <2>4
<1>24. ASSUME p \notin touched', NEW i \in 1 .. Len(items)
       PROVE  items[i] = <<"data", disk[p][CellAt(i)]>>
  <2>1. i \in 1 .. got
    BY <1>12, <1>17, <1>23, <1>24
  <2>2. CellAt(i) = i + s + b - (rem + b)
    BY <1>3, <1>4, <1>20 DEF CellAt
  <2>3. CellAt(i) = pos + i
    BY <1>23, <1>24, <2>1, <2>2
  <2> QED BY <1>17, <2>1, <2>3
<1>25. \A i \in 1 .. Len(items) : items[i] # <<"end">>
  BY <1>17 DEF NoEnd
<1>26. cur'.remaining > 0 => /\ cur'.pad = Padding(sizes[Entry])
                             /\ Entry \notin touched' => cur'.pos + cur'.remaining = sizes[Entry]
  <2>1. ASSUME p \notin touched' PROVE pos + got + rem2 = s
    BY <1>12, <1>23, <2>1
  <2> QED BY <1>3, <1>4, <1>19, <2>1
<1>27. cur'.pad = Padding(sizes[Entry])
  BY <1>3, <1>4, <1>19
<1>28. Entry \notin touched' => \A i \in 1 .. Len(items) : CellAt(i) <= sizes[Entry] =>
                                  items[i] = <<"data", disk[Entry][CellAt(i)]>>
  BY <1>3, <1>24
<1> QED BY <1>2, <1>15, <1>17, <1>19, <1>21, <1>22, <1>25, <1>26, <1>27, <1>28, MemberStep

-----------------------------------------------------------------------------
(* The archive *)

ArchiveInv == SinkInv /\ FileBound /\ StreamInv

LEMMA ArchiveStart == ArchiveInit => ArchiveInv
<1>1. ArchiveInit => Init
  BY DEF ArchiveInit
<1> QED BY <1>1, SinkInit, BoundInit, StreamInit DEF ArchiveInv

LEMMA ArchiveStep ==
  ASSUME Size + 1 < OctalLimit
  PROVE  ArchiveInv /\ [ArchiveNext]_allvars => ArchiveInv'
<1> SUFFICES ASSUME ArchiveInv, [ArchiveNext]_allvars PROVE ArchiveInv'
  OBVIOUS
<1>0. SinkInv /\ FileBound /\ StreamInv
  BY DEF ArchiveInv
<1>1. [Next]_vars
  BY DEF ArchiveNext, allvars, Upload, begin, List, Listed, EndOfInput, OpenEntry, ReadData, Pad,
         NextEntry, Compress, CompressFails, EndStream, on_write_download
<1>2. SinkInv' /\ FileBound'
  BY <1>0, <1>1, SinkStep, BoundStep
<1> SUFFICES StreamInv'
  BY <1>2 DEF ArchiveInv
<1>3. CASE Upload
  BY <1>0, <1>3, UploadStep
<1>4. CASE begin \/ (\E p \in Path : List(p)) \/ CompressFails
  BY <1>0, <1>4, ListingSteps
<1>5. CASE Listed \/ EndStream \/ Compress
  BY <1>0, <1>5, SendingSteps
<1>6. CASE on_write_download
  BY <1>0, <1>6, ListingSteps, SendingSteps
<1>7. CASE EndOfInput
  BY <1>0, <1>7, EndStep
<1>8. CASE OpenEntry
  <2>1. /\ Refilling /\ ~cur.open /\ idx_ < Len(entries_)
        /\ dl' = dl /\ sizes' = sizes /\ tar' = tar /\ disk' = disk
    BY <1>8 DEF OpenEntry, vars
  <2>2. CASE /\ Stage(<<emit_header(Entry)>>)
             /\ cur' = [pos |-> 0, remaining |-> sizes[Entry],
                        pad |-> Padding(sizes[Entry]), open |-> TRUE]
             /\ idx_' = idx_ /\ touched' = touched
    BY <1>0, <2>1, <2>2, HeaderStep
  <2>3. CASE idx_' = idx_ + 1 /\ touched' = touched \cup {Entry} /\ UNCHANGED <<cur, raw>>
    BY <1>0, <2>1, <2>3, SkipStep
  <2> QED BY <1>8, <2>2, <2>3 DEF OpenEntry
<1>9. CASE ReadData
  BY <1>0, <1>9, ReadStep
<1>10. CASE Pad
  BY <1>0, <1>10, PadStep
<1>11. CASE NextEntry
  BY <1>0, <1>11, NextEntryStep
<1>12. CASE UNCHANGED allvars
  <2>1. /\ tar' = tar /\ raw' = raw /\ sizes' = sizes /\ idx_' = idx_ /\ cur' = cur
        /\ touched' = touched /\ disk' = disk /\ dl' = dl
    BY <1>12 DEF allvars, vars, stream
  <2>2. Made' = Made /\ (InputDone' <=> InputDone)
    BY <2>1 DEF Made, InputDone
  <2>3. tar \in Seq(Item) /\ raw \in Seq(Item)
    BY <1>0 DEF StreamInv, StreamType
  <2>4. Stages'
    BY <1>0, <2>1, <2>2 DEF StreamInv, Stages, NoFile
  <2> QED BY <1>0, <2>1, <2>2, <2>3, <2>4, StreamKept
<1> QED BY <1>3, <1>4, <1>5, <1>6, <1>7, <1>8, <1>9, <1>10, <1>11, <1>12 DEF ArchiveNext

LEMMA ArchiveAlways ==
  ASSUME Size + 1 < OctalLimit
  PROVE  ArchiveSpec => []ArchiveInv
  BY ArchiveStart, ArchiveStep, PTL DEF ArchiveSpec

\* At the end the stream is all in tar, and its members are what is read from it.
LEMMA CompleteMembers ==
  ASSUME StreamInv, dl = "complete"
  PROVE  \E names, at :
           /\ Laid(tar, sizes, names, at) /\ Behind(names, at) = Len(tar)
           /\ Chosen(names, entries_, Len(entries_), touched)
           /\ Exact(tar, sizes, names, at, disk, touched)
           /\ Members(tar) = [j \in 1 .. Len(names) |-> Member(tar, sizes, names[j], at[j])]
<1> USE DEF StreamInv
<1>1. raw = <<>> /\ InputDone
  BY DEF Stages
<1>2. tar \in Seq(Item)
  BY DEF StreamType
<1>3. Made = tar
  BY <1>1, <1>2, ConcatEmptySeq DEF Made
<1>4. Headed(tar) /\ Len(tar) \in Nat /\ Len(tar) > 0 /\ tar[Len(tar)] = <<"end">>
  BY <1>1, <1>3, MadeFacts
<1>5. ~cur.open /\ idx_ = Len(entries_)
  BY <1>1 DEF Current
<1>6. Begun = Len(entries_)
  <2>1. Len(entries_) \in Nat
    BY EntryFacts
  <2> QED BY <1>5, <2>1 DEF Begun
<1>7. PICK names, at : Layout(names, at)
  OBVIOUS
<1>8. /\ Laid(tar, sizes, names, at) /\ Behind(names, at) = Len(tar)
      /\ Chosen(names, entries_, Len(entries_), touched)
      /\ Exact(tar, sizes, names, at, disk, touched)
  BY <1>1, <1>3, <1>6, <1>7 DEF Layout
<1>9. at[Len(at)] = Len(tar)
  BY <1>8 DEF Behind, Laid
<1>10. \A p \in DOMAIN sizes : sizes[p] \in Nat
  BY DEF StreamType
<1>11. Members(tar) = [j \in 1 .. Len(names) |-> Member(tar, sizes, names[j], at[j])]
  <2> HIDE DEF StreamInv
  <2>1. PICK X, sz : X = tar /\ sz = sizes
    OBVIOUS
  <2>2. X \in Seq(Item)
    BY <1>2, <2>1
  <2>3. Headed(X) /\ Len(X) > 0 /\ X[Len(X)] = <<"end">>
    BY <1>4, <2>1
  <2>4. Laid(X, sz, names, at) /\ at[Len(at)] = Len(X) /\ \A p \in DOMAIN sz : sz[p] \in Nat
    BY <1>8, <1>9, <1>10, <2>1
  <2>5. ReadAs(X, sz, names, at)
    BY <2>2, <2>3, <2>4, MembersRead
  <2> QED BY <2>1, <2>5 DEF ReadAs
<1> QED BY <1>8, <1>11

LEMMA CompleteReadable == StreamInv => ArchiveReadable
<1> SUFFICES ASSUME StreamInv, dl = "complete"
             PROVE  \E listed \in SUBSET DOMAIN sizes :
                      [i \in DOMAIN Members(tar) |-> Members(tar)[i][1]] = Sorted(listed)
  BY DEF ArchiveReadable
<1>1. PICK names, at :
        /\ Laid(tar, sizes, names, at)
        /\ Chosen(names, entries_, Len(entries_), touched)
        /\ Members(tar) = [j \in 1 .. Len(names) |-> Member(tar, sizes, names[j], at[j])]
  BY CompleteMembers
<1>2. names \in Seq(DOMAIN sizes) /\ InOrder(names)
  BY <1>1 DEF Laid, Chosen
<1>3. PICK m \in Nat : m = Len(names)
  BY <1>2, LenProperties
<1>4. names = [i \in 1 .. m |-> names[i]]
  BY <1>2, <1>3, LenProperties
<1>5. PICK M : M = Members(tar)
  OBVIOUS
<1>6. M = [j \in 1 .. m |-> Member(tar, sizes, names[j], at[j])]
  BY <1>1, <1>3, <1>5
<1>7. DOMAIN M = 1 .. m /\ \A j \in 1 .. m : M[j][1] = names[j]
  BY <1>6 DEF Member
<1>8. [i \in DOMAIN M |-> M[i][1]] = names
  BY <1>4, <1>7
<1>9. DOMAIN sizes \subseteq Path
  BY DEF StreamInv, StreamType
<1>10. PICK S : S = {names[i] : i \in 1 .. Len(names)}
  OBVIOUS
<1>11. S \in SUBSET DOMAIN sizes
  BY <1>2, <1>10, ElementOfSeq
<1>12. names \in Seq(Path) /\ S \in SUBSET Path
  BY <1>2, <1>9, <1>11
<1>13. names = Sorted(S)
  BY <1>2, <1>10, <1>12, SortedUnique
<1> QED BY <1>5, <1>8, <1>11, <1>13

LEMMA SubSeqFrom ==
  ASSUME NEW T, NEW X \in Seq(T), NEW a \in Nat, NEW s \in Nat, a + s <= Len(X)
  PROVE  SubSeq(X, a + 1, a + s) = [i \in 1 .. s |-> X[a + i]]
<1>1. PICK n \in Nat : n = Len(X)
  BY LenProperties
<1>2. PICK w : w = SubSeq(X, a + 1, a + s)
  OBVIOUS
<1>3. PICK b \in Nat, c \in Nat : b = a + 1 /\ c = a + s
  OBVIOUS
<1>4. (IF b <= c THEN c - b + 1 ELSE 0) = s
  BY <1>3
<1>5. \A i \in 1 .. s : b + i - 1 = a + i
  BY <1>3
<1>6. w \in Seq(T) /\ Len(w) = s /\ \A i \in 1 .. s : w[i] = X[a + i]
  <2>1. b \in 1 .. n + 1 /\ c \in b - 1 .. n
    BY <1>1, <1>3
  <2>2. Len(w) = (IF b <= c THEN c - b + 1 ELSE 0)
    BY <1>1, <1>2, <1>3, <2>1, SubSeqProperties
  <2> QED BY <1>1, <1>2, <1>3, <1>4, <1>5, <2>1, <2>2, SubSeqProperties
<1>7. w = [i \in 1 .. s |-> w[i]]
  BY <1>6, LenProperties
<1> QED BY <1>2, <1>6, <1>7

LEMMA CompleteExact == SinkInv /\ StreamInv => UntouchedExact
<1> SUFFICES ASSUME SinkInv, StreamInv, dl = "complete", NEW p \in DOMAIN sizes, p \notin touched
             PROVE  <<p, [i \in DOMAIN disk[p] |-> <<"data", disk[p][i]>>]>> \in ToSet(Members(tar))
  BY DEF UntouchedExact
<1>1. PICK names, at :
        /\ Laid(tar, sizes, names, at) /\ Behind(names, at) = Len(tar)
        /\ Chosen(names, entries_, Len(entries_), touched)
        /\ Exact(tar, sizes, names, at, disk, touched)
        /\ Members(tar) = [j \in 1 .. Len(names) |-> Member(tar, sizes, names[j], at[j])]
  BY CompleteMembers
<1>2. tar \in Seq(Item) /\ p \in Path /\ \A q \in DOMAIN sizes : sizes[q] \in Nat
  BY DEF StreamInv, StreamType
<1>3. PICK n \in Nat : n = Len(tar)
  BY <1>2, LenProperties
<1>4. PICK j \in 1 .. Len(names) : names[j] = p
  <2>1. PICK i \in 1 .. Len(entries_) : entries_[i] = p
    BY EntryFacts DEF StreamInv
  <2> QED BY <1>1, <2>1 DEF Chosen
<1>5. PICK s \in Nat : s = sizes[p]
  BY <1>2
<1>6. disk[p] \in Seq(Cell) /\ Len(disk[p]) = s
  BY <1>2, <1>5 DEF SinkInv, TypeOK, StreamInv, SameSize
<1>7. DOMAIN disk[p] = 1 .. s
  BY <1>6, LenProperties
<1>8. PICK m \in Nat : m = Len(names)
  <2>1. names \in Seq(DOMAIN sizes)
    BY <1>1 DEF Laid
  <2> QED BY <2>1, LenProperties
<1>9. /\ at[j] \in Nat /\ Padding(s) \in Nat /\ at[j + 1] = at[j] + s + Padding(s) + 1
      /\ j < m => at[j] + s <= n
  <2>1. PICK X, sz : X = tar /\ sz = sizes
    OBVIOUS
  <2>2. Laid(X, sz, names, at)
    BY <1>1, <2>1
  <2>3. Len(X) \in Nat /\ \A q \in DOMAIN sz : sz[q] \in Nat
    BY <1>2, <1>3, <2>1
  <2>4. /\ at[j] \in Nat /\ Padding(sz[names[j]]) \in Nat
        /\ at[j + 1] = at[j] + sz[names[j]] + Padding(sz[names[j]]) + 1
        /\ j < Len(names) => at[j] + sz[names[j]] <= Len(X)
    BY <2>2, <2>3, CellsEnd
  <2> QED BY <1>3, <1>4, <1>5, <1>8, <2>1, <2>4
<1>10. PICK a \in Nat : a = at[j] /\ a + s <= n
  <2>1. CASE j < m
    BY <1>9, <2>1
  <2>2. CASE j = m
    <3>1. at[j + 1] = n
      BY <1>1, <1>3, <1>8, <2>2 DEF Behind
    <3> QED BY <1>9, <3>1
  <2> QED BY <1>8, <2>1, <2>2
<1>11. \A i \in 1 .. s : tar[a + i] = <<"data", disk[p][i]>>
  <2>1. \A i \in 1 .. s : a + i <= n
    BY <1>10
  <2>2. \A i \in 1 .. sizes[names[j]] :
          at[j] + i <= Len(tar) => tar[at[j] + i] = <<"data", disk[names[j]][i]>>
    BY <1>1, <1>4 DEF Exact
  <2> QED BY <1>3, <1>4, <1>5, <1>10, <2>1, <2>2
<1>12. SubSeq(tar, a + 1, a + s) = [i \in 1 .. s |-> <<"data", disk[p][i]>>]
  <2>1. SubSeq(tar, a + 1, a + s) = [i \in 1 .. s |-> tar[a + i]]
    <3>1. PICK X \in Seq(Item) : X = tar
      BY <1>2
    <3>2. a + s <= Len(X)
      BY <1>3, <1>10, <3>1
    <3>3. SubSeq(X, a + 1, a + s) = [i \in 1 .. s |-> X[a + i]]
      BY <3>2, SubSeqFrom
    <3> QED BY <3>1, <3>3
  <2> QED BY <1>11, <2>1
<1>13. Member(tar, sizes, p, a) = <<p, [i \in DOMAIN disk[p] |-> <<"data", disk[p][i]>>]>>
  BY <1>5, <1>7, <1>12 DEF Member
<1>14. DOMAIN Members(tar) = 1 .. Len(names) /\ Members(tar)[j] = Member(tar, sizes, p, a)
  BY <1>1, <1>4, <1>10
<1> QED BY <1>13, <1>14 DEF ToSet

\* archive.cxx:173-174 "zero-fill the declared remainder so the member length
\* still matches the header": for any session, any interleaving of uploads with the
\* listing and the reads, and any buffer and block sizes, as long as no file is as
\* big as the eleven octal digits of a header can say, a complete archive reads back
\* to its end and its members are listed files, each once and in order.
THEOREM ArchiveIsReadable ==
  ASSUME Size + 1 < OctalLimit
  PROVE  ArchiveSpec => []ArchiveReadable
<1>1. ArchiveInv => ArchiveReadable
  BY CompleteReadable DEF ArchiveInv
<1> QED BY <1>1, ArchiveAlways, PTL

\* archive.h:14 "Streams a directory": under the same condition a file that was
\* listed, could be read and was not written to since is in a complete archive, its
\* cells in their order.
THEOREM ArchiveHasUntouched ==
  ASSUME Size + 1 < OctalLimit
  PROVE  ArchiveSpec => []UntouchedExact
<1>1. ArchiveInv => UntouchedExact
  BY CompleteExact DEF ArchiveInv
<1> QED BY <1>1, ArchiveAlways, PTL
=============================================================================
