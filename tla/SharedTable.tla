----------------------------- MODULE SharedTable -----------------------------
(***************************************************************************)
(* One table file that several processes have open, each with a *File of   *)
(* its own: RowFromMap with Increment and WriteColumns, which hand out the *)
(* keys of an auto-increment column, Row.Add and Row.Write with WriteRow   *)
(* and WriteHeader, OpenTable and Close, and the locks that Config.        *)
(* WriteLock puts on the file on Windows (io_windows.go; io_unix.go does   *)
(* the same without locks and Config.Exclusive changes neither).           *)
(*                                                                         *)
(* Every *File reads RowsCount and Column.Next once, when it is opened, and*)
(* writes its own copies back.  A record is told by its key.  The Seek and *)
(* the Write of one call are one step here: within a process the program   *)
(* makes one call at a time, and other processes have handles of their own *)
(* (RowFile has the goroutines that share a handle).                       *)
(*                                                                         *)
(* An operator with an underscore in its name is the one after it with a   *)
(* bug: the properties are seen to notice it.                              *)
(***************************************************************************)
EXTENDS Integers, Sequences, FiniteSets

CONSTANTS
  Files,       (* the processes, each with its *File                       *)
  Callers,     (* their goroutines                                         *)
  FileOf,      (* the *File each goroutine calls                           *)
  NoOne,       (* the owner of a free mutex                                *)
  Zero, Torn,  (* records that were skipped over, or partly written        *)
  InitRows,    (* rows in the file at first                                *)
  Step,        (* Column.Step of the auto-increment column                 *)
  FirstRow, RowLength,   (* of the header: where rows begin, how long      *)
  MaxRecords,  (* MaxRecordsPerTable                                       *)
  MaxFile,     (* MaxTableFileSize                                         *)
  Width16, Width32,      (* 2^16 and 2^32: integers wrap there             *)
  WriteLock,   (* Config.WriteLock, on Windows                             *)
  Serial,      (* are calls on one *File made one at a time?               *)
  Agreements,  (* do the processes take turns? (TRUE, FALSE or both)       *)
  MaxOps,      (* bound: calls per goroutine                               *)
  MaxFaults    (* bound: I/O errors, torn writes and crashes               *)

(* The constants have the values the comments above give them, and the     *)
(* header is the one NewTable makes.                                       *)
ASSUME SharedAssumption ==
  /\ FileOf \in [Callers -> Files]
  /\ NoOne \notin Callers
  /\ InitRows \in Nat /\ Step \in Nat \ {0}
  /\ FirstRow \in Nat /\ RowLength \in Nat \ {0}
  /\ MaxRecords \in Nat /\ MaxFile \in Nat
  /\ Width16 \in Nat \ {0} /\ Width32 \in Nat \ {0}
  /\ WriteLock \in BOOLEAN /\ Serial \in BOOLEAN /\ Agreements \subseteq BOOLEAN
  /\ MaxOps \in Nat /\ MaxFaults \in Nat
  /\ Zero \notin Nat /\ Torn \notin Nat

(* The header is one that NewTable makes, the first rows fit, and integers  *)
(* do not wrap before the limit is met: MaxTableFileSize is 2^31 and a row *)
(* is shorter than 2^16.                                                   *)
ASSUME LayoutAssumption ==
  /\ FirstRow >= 296 /\ (FirstRow - 296) % 32 = 0 /\ FirstRow - 296 < Width16
  /\ FirstRow + InitRows * RowLength <= MaxFile
  /\ MaxFile + RowLength <= Width32

VARIABLES
  inTurn,      (* one process has the file open at a time                  *)
  diskCount,   (* RowsCount in the header on disk                          *)
  diskNext,    (* Column.Next in the column definitions on disk            *)
  records,     (* the records on disk: their keys                          *)
  stage,       (* of each *File: closed, being opened, open                *)
  count,       (* its header.RowsCount                                     *)
  next,        (* its Column.Next                                          *)
  mutex,       (* its dbaseMutex: who holds it                             *)
  pc,          (* the next step of each goroutine                          *)
  key,         (* the key of its row                                       *)
  pos,         (* row.Position                                             *)
  slot,        (* the record WriteRow is going to write                    *)
  lock,        (* the region of the file it has locked, 0 for none         *)
  ops,         (* calls begun                                              *)
  faults,      (* faults so far                                            *)
  acked        (* history: keys of the rows whose last write returned nil  *)

disk   == <<diskCount, diskNext, records>>
memory == <<stage, count, next, mutex>>
local  == <<pc, key, pos, slot, lock, ops>>
vars   == <<inTurn, disk, memory, local, faults, acked>>

Incrementing == {"raise", "lockColumns", "columns"}
Critical     == {"reserve", "lockHeader", "header", "lockRecord", "record"}
Resting      == {"idle", "row"}
Labels       == Resting \cup Incrementing \cup {"enter"} \cup Critical

Content == Nat \cup {Zero, Torn}

TypeOK ==
  /\ inTurn \in BOOLEAN
  /\ diskCount \in Nat /\ diskNext \in Nat /\ records \in Seq(Content)
  /\ stage \in [Files -> {"closed", "opening", "open"}]
  /\ count \in [Files -> Nat] /\ next \in [Files -> Nat]
  /\ mutex \in [Files -> Callers \cup {NoOne}]
  /\ pc \in [Callers -> Labels]
  /\ key \in [Callers -> Nat] /\ pos \in [Callers -> Nat] /\ slot \in [Callers -> Int]
  /\ lock \in [Callers -> Int]
  /\ ops \in [Callers -> 0..MaxOps]
  /\ faults \in 0..MaxFaults
  /\ acked \subseteq Nat

Init ==
  /\ inTurn \in Agreements
  /\ diskCount = InitRows /\ diskNext = InitRows + 1
  /\ records = [i \in 1..InitRows |-> i]
  /\ stage = [f \in Files |-> "closed"]
  /\ count = [f \in Files |-> 0] /\ next = [f \in Files |-> 0]
  /\ mutex = [f \in Files |-> NoOne]
  /\ pc = [c \in Callers |-> "idle"]
  /\ key = [c \in Callers |-> 0] /\ pos = [c \in Callers |-> 0]
  /\ slot = [c \in Callers |-> 0] /\ lock = [c \in Callers |-> 0]
  /\ ops = [c \in Callers |-> 0]
  /\ faults = 0
  /\ acked = {}

Goto(c, label) == pc' = [pc EXCEPT ![c] = label]

(* The call is over and its row is dropped.                                *)
Return(c) ==
  /\ Goto(c, "idle")
  /\ key' = [key EXCEPT ![c] = 0] /\ pos' = [pos EXCEPT ![c] = 0]
  /\ slot' = [slot EXCEPT ![c] = 0]

(***************************************************************************)
(* The size of the file as the header tells it, in Go's integers.          *)
(***************************************************************************)
ColumnsCount == ((FirstRow - 296) % Width16) \div 32

FileSize(rows) ==
  296 + ((ColumnsCount * 32) % Width16) + ((rows * RowLength) % Width32)

(***************************************************************************)
(* OpenTable and Close.                                                    *)
(***************************************************************************)
MayOpen(f) == inTurn => \A g \in Files \ {f} : stage[g] = "closed"

(* ReadHeader ... *)
OpenHeader(f) ==
  /\ stage[f] = "closed"
  /\ MayOpen(f)
  /\ stage' = [stage EXCEPT ![f] = "opening"]
  /\ count' = [count EXCEPT ![f] = diskCount]
  /\ UNCHANGED <<inTurn, disk, next, mutex, local, faults, acked>>

(* ... and ReadColumns. *)
OpenColumns(f) ==
  /\ stage[f] = "opening"
  /\ stage' = [stage EXCEPT ![f] = "open"]
  /\ next' = [next EXCEPT ![f] = diskNext]
  /\ UNCHANGED <<inTurn, disk, count, mutex, local, faults, acked>>

CallersOf(f) == {c \in Callers : FileOf[c] = f}

(* The *File is no more.                                                   *)
Gone(f) ==
  /\ stage' = [stage EXCEPT ![f] = "closed"]
  /\ count' = [count EXCEPT ![f] = 0] /\ next' = [next EXCEPT ![f] = 0]

Close(f) ==
  /\ stage[f] = "open"
  /\ \A c \in CallersOf(f) : pc[c] = "idle"
  /\ Gone(f)
  /\ UNCHANGED <<inTurn, disk, mutex, local, faults, acked>>

(***************************************************************************)
(* LockFileEx: Overlapped and the lengths are filled so that a region      *)
(* begins at (position + length) * 2^32 + position and is as long; a lock  *)
(* waits while a region that meets it is locked.  The bytes that are       *)
(* written lie before every region, so a lock stops other locks only.      *)
(***************************************************************************)
Region(position, length) == (position + length) * Width32 + position

HeaderRegion    == Region(0, FirstRow)
ColumnsRegion   == Region(32, FirstRow)
RecordRegion(c) == Region(FirstRow + slot[c] * RowLength, RowLength)

Meets(s, t) == s < 2 * t /\ t < 2 * s

Grant(c, region) ==
  IF WriteLock
    THEN /\ \A d \in Callers \ {c} : ~Meets(lock[d], region)
         /\ lock' = [lock EXCEPT ![c] = region]
    ELSE UNCHANGED lock

(* The deferred UnlockFileEx. *)
Unlock(c) == lock' = [lock EXCEPT ![c] = 0]

(***************************************************************************)
(* RowFromMap: a row with the next key.                                    *)
(***************************************************************************)
MayBegin(c) ==
  /\ stage[FileOf[c]] = "open"
  /\ ops[c] < MaxOps
  /\ Serial => \A d \in CallersOf(FileOf[c]) \ {c} : pc[d] = "idle"

(* Increment takes Column.Next ... *)
TakeKey(c) ==
  /\ pc[c] = "idle"
  /\ MayBegin(c)
  /\ ops' = [ops EXCEPT ![c] = @ + 1]
  /\ key' = [key EXCEPT ![c] = next[FileOf[c]]]
  /\ Goto(c, "raise")
  /\ UNCHANGED <<inTurn, disk, memory, pos, slot, lock, faults, acked>>

(* ... and raises it, without a lock: Next may be read again or not. *)
RaiseKey(c) ==
  /\ pc[c] = "raise"
  /\ \E read \in {next[FileOf[c]], key[c]} :
       next' = [next EXCEPT ![FileOf[c]] = read + Step]
  /\ Goto(c, "lockColumns")
  /\ UNCHANGED <<inTurn, disk, stage, count, mutex, key, pos, slot, lock, ops, faults,
                 acked>>

LockColumns(c) ==
  /\ pc[c] = "lockColumns"
  /\ Grant(c, ColumnsRegion)
  /\ Goto(c, "columns")
  /\ UNCHANGED <<inTurn, disk, memory, key, pos, slot, ops, faults, acked>>

NextImage_Key(c) == key[c]   (* encoded before it is raised *)
NextImage(c) == next[FileOf[c]]

(* WriteColumns *)
WriteColumns(c) ==
  /\ pc[c] = "columns"
  /\ diskNext' = NextImage(c)
  /\ Unlock(c)
  /\ Goto(c, "row")
  /\ UNCHANGED <<inTurn, diskCount, records, memory, key, pos, slot, ops, faults, acked>>

(* row.Add() *)
Add(c) ==
  /\ pc[c] = "row"
  /\ pos' = [pos EXCEPT ![c] = count[FileOf[c]] + 1]
  /\ Goto(c, "enter")
  /\ UNCHANGED <<inTurn, disk, memory, key, slot, lock, ops, faults, acked>>

(* The program has no use for the row. *)
Discard(c) ==
  /\ pc[c] = "row"
  /\ Return(c)
  /\ UNCHANGED <<inTurn, disk, memory, lock, ops, faults, acked>>

(* A row of the table, read and changed in another column: row.Write().    *)
Rewrite(c) ==
  /\ pc[c] = "idle"
  /\ MayBegin(c)
  /\ \E i \in 1..Len(records) :
       /\ i <= count[FileOf[c]] /\ records[i] \in Nat
       /\ pos' = [pos EXCEPT ![c] = i - 1]
       /\ key' = [key EXCEPT ![c] = records[i]]
       /\ acked' = acked \ {records[i]}
  /\ ops' = [ops EXCEPT ![c] = @ + 1]
  /\ Goto(c, "enter")
  /\ UNCHANGED <<inTurn, disk, memory, slot, lock, faults>>

(***************************************************************************)
(* WriteRow                                                                *)
(***************************************************************************)
Enter(c) ==
  /\ pc[c] = "enter"
  /\ mutex[FileOf[c]] = NoOne
  /\ mutex' = [mutex EXCEPT ![FileOf[c]] = c]
  /\ Goto(c, "reserve")
  /\ UNCHANGED <<inTurn, disk, stage, count, next, key, pos, slot, lock, ops, faults,
                 acked>>

(* A write is tried again, whatever it returned.                           *)
Leave_Again(c) ==
  /\ mutex' = [mutex EXCEPT ![FileOf[c]] = NoOne]
  /\ Goto(c, "enter")
  /\ UNCHANGED <<key, pos, slot>>

(* The deferred Unlock, on every way out of WriteRow.                      *)
Leave(c) ==
  /\ mutex' = [mutex EXCEPT ![FileOf[c]] = NoOne]
  /\ Return(c)

IsNew(c) == pos[c] >= count[FileOf[c]]

TakeSlot(c) ==
  /\ pc[c] = "reserve"
  /\ ~IsNew(c)
  /\ slot' = [slot EXCEPT ![c] = pos[c]]
  /\ Goto(c, "lockHeader")
  /\ UNCHANGED <<inTurn, disk, memory, key, pos, lock, ops, faults, acked>>

Valid_Late(rows) == FileSize(rows - 1) <= MaxFile
(* ValidateFileSize *)
Valid(rows) == FileSize(rows) <= MaxFile

(* RowsCount is raised and validated.                                      *)
AppendSlot(c) ==
  /\ pc[c] = "reserve"
  /\ IsNew(c)
  /\ count[FileOf[c]] < MaxRecords /\ Valid(count[FileOf[c]] + 1)
  /\ slot' = [slot EXCEPT ![c] = pos[c] - 1]
  /\ count' = [count EXCEPT ![FileOf[c]] = @ + 1]
  /\ Goto(c, "lockHeader")
  /\ UNCHANGED <<inTurn, disk, stage, next, mutex, key, pos, lock, ops, faults, acked>>

(* A limit is met: RowsCount is as before.                                 *)
Refuse(c) ==
  /\ pc[c] = "reserve"
  /\ IsNew(c)
  /\ count[FileOf[c]] >= MaxRecords \/ ~Valid(count[FileOf[c]] + 1)
  /\ Leave(c)
  /\ UNCHANGED <<inTurn, disk, stage, count, next, lock, ops, faults, acked>>

LockHeader(c) ==
  /\ pc[c] = "lockHeader"
  /\ Grant(c, HeaderRegion)
  /\ Goto(c, "header")
  /\ UNCHANGED <<inTurn, disk, memory, key, pos, slot, ops, faults, acked>>

Image_Stale(c) == diskCount
Image(c) == count[FileOf[c]]

(* WriteHeader, for a row that is new and for one that is not.             *)
WriteHeader(c) ==
  /\ pc[c] = "header"
  /\ diskCount' = Image(c)
  /\ Unlock(c)
  /\ Goto(c, "lockRecord")
  /\ UNCHANGED <<inTurn, diskNext, records, memory, key, pos, slot, ops, faults, acked>>

LockRecord(c) ==
  /\ pc[c] = "lockRecord"
  /\ Grant(c, RecordRegion(c))
  /\ Goto(c, "record")
  /\ UNCHANGED <<inTurn, disk, memory, key, pos, slot, ops, faults, acked>>

(* The records after one is written at slot number i: slots that are       *)
(* skipped read as zeros.                                                  *)
PutAt(s, i, content) ==
  [k \in 1..(IF i < Len(s) THEN Len(s) ELSE i + 1) |->
     IF k = i + 1 THEN content ELSE IF k <= Len(s) THEN s[k] ELSE Zero]

(* The record; nil is returned.                                            *)
WriteRecord(c) ==
  /\ pc[c] = "record"
  /\ records' = PutAt(records, slot[c], key[c])
  /\ acked' = acked \cup {key[c]}
  /\ Unlock(c)
  /\ Leave(c)
  /\ UNCHANGED <<inTurn, diskCount, diskNext, stage, count, next, ops, faults>>

(***************************************************************************)
(* Faults                                                                  *)
(***************************************************************************)
Fault == faults < MaxFaults /\ faults' = faults + 1

(* LockFileEx or WriteColumns fails, perhaps after the columns and before  *)
(* their terminator: RowFromMap returns no row.                            *)
ColumnsFail(c) ==
  /\ pc[c] \in {"lockColumns", "columns"}
  /\ Fault
  /\ \/ UNCHANGED diskNext
     \/ pc[c] = "columns" /\ diskNext' = NextImage(c)
  /\ Unlock(c)
  /\ Return(c)
  /\ UNCHANGED <<inTurn, diskCount, records, memory, ops, acked>>

(* A lock, the header or the record fails, the record perhaps after its    *)
(* first bytes: RowsCount in memory stays.                                 *)
WriteFails(c) ==
  /\ pc[c] \in {"lockHeader", "header", "lockRecord", "record"}
  /\ Fault
  /\ \/ UNCHANGED records
     \/ pc[c] = "record" /\ records' = PutAt(records, slot[c], Torn)
  /\ Unlock(c)
  /\ Leave(c)
  /\ UNCHANGED <<inTurn, diskCount, diskNext, stage, count, next, ops, acked>>

(* A process dies; the system gives its locks back.                        *)
Crash(f) ==
  /\ stage[f] # "closed"
  /\ Fault
  /\ Gone(f)
  /\ mutex' = [mutex EXCEPT ![f] = NoOne]
  /\ pc' = [c \in Callers |-> IF FileOf[c] = f THEN "idle" ELSE pc[c]]
  /\ key' = [c \in Callers |-> IF FileOf[c] = f THEN 0 ELSE key[c]]
  /\ pos' = [c \in Callers |-> IF FileOf[c] = f THEN 0 ELSE pos[c]]
  /\ slot' = [c \in Callers |-> IF FileOf[c] = f THEN 0 ELSE slot[c]]
  /\ lock' = [c \in Callers |-> IF FileOf[c] = f THEN 0 ELSE lock[c]]
  /\ UNCHANGED <<inTurn, disk, ops, acked>>

CallSteps(c) ==
  \/ RaiseKey(c) \/ LockColumns(c) \/ WriteColumns(c)
  \/ Enter(c) \/ TakeSlot(c) \/ AppendSlot(c) \/ Refuse(c)
  \/ LockHeader(c) \/ WriteHeader(c) \/ LockRecord(c) \/ WriteRecord(c)

Next ==
  \/ \E f \in Files : OpenHeader(f) \/ OpenColumns(f) \/ Close(f) \/ Crash(f)
  \/ \E c \in Callers : \/ TakeKey(c) \/ Add(c) \/ Discard(c) \/ Rewrite(c)
                        \/ CallSteps(c) \/ ColumnsFail(c) \/ WriteFails(c)

Spec == Init /\ [][Next]_vars

(* A goroutine inside a call goes on as soon as its lock is granted.       *)
FairSpec == Spec /\ \A c \in Callers : WF_vars(CallSteps(c))

(***************************************************************************)
(* Properties.                                                             *)
(***************************************************************************)

(* A row whose Add or Write returned nil is in the file and counted there, *)
(* whatever other processes do, whatever fails.                            *)
AckedKept == \A k \in acked : \E i \in 1..diskCount : i <= Len(records) /\ records[i] = k

(* That is so when the processes take turns: over Close, crash and the next*)
(* OpenTable.                                                              *)
AckedKeptInTurn == inTurn => AckedKept

(* No two records have the same key, when the processes take turns: a key  *)
(* that reached a record is never handed out again, in this process or     *)
(* after a crash in the next.                                              *)
KeysUnique ==
  inTurn => \A i, j \in 1..Len(records) :
              i # j /\ records[i] \in Nat => records[i] # records[j]

(* The file never outgrows MaxTableFileSize, though RowsCount * RowLength  *)
(* is computed in 32 bits and every process counts for itself.             *)
SizeWithinLimit == FirstRow + Len(records) * RowLength <= MaxFile

(* Every call ends: dbaseMutex and the locks of the file are given back,   *)
(* and nobody waits in a circle.                                           *)
CallsReturn == \A c \in Callers : pc[c] \notin Resting ~> pc[c] \in Resting

(***************************************************************************)
(* The invariant behind the theorems (SharedTableProofs): its last parts   *)
(* are about programs that make one call at a time on a *File.             *)
(***************************************************************************)
Fits(rows) == FirstRow + rows * RowLength <= MaxFile

Placed == {"lockHeader", "header", "lockRecord", "record"}

(* Whoever calls has its file open and writes to a row that is counted.    *)
CallInv ==
  \A c \in Callers :
    /\ pc[c] # "idle" => stage[FileOf[c]] = "open"
    /\ pc[c] \in {"enter", "reserve"} =>
         pos[c] < count[FileOf[c]] \/ pos[c] \in 1..(count[FileOf[c]] + 1)
    /\ pc[c] \in Placed => slot[c] \in 0..(count[FileOf[c]] - 1)

AloneInv ==
  \A c, d \in Callers : pc[c] # "idle" /\ pc[d] # "idle" /\ FileOf[c] = FileOf[d] => c = d

SizeInv ==
  /\ Fits(Len(records)) /\ Fits(diskCount)
  /\ \A f \in Files : Fits(count[f])

(* One process has the file open, and its copies are not behind the disk.  *)
TurnInv ==
  /\ \A f, g \in Files : stage[f] # "closed" /\ stage[g] # "closed" => f = g
  /\ Len(records) <= diskCount
  /\ \A f \in Files : stage[f] # "closed" => diskCount <= count[f]
  /\ \A f \in Files : stage[f] = "open" => diskNext <= next[f]

(* The keys of the records are behind Next, and different.                 *)
KeysInv ==
  /\ \A i \in 1..Len(records) : records[i] \in Nat => records[i] < diskNext
  /\ \A i, j \in 1..Len(records) :
       i # j /\ records[i] \in Nat => records[i] # records[j]

(* The row under way has a key of its own or is already in the file.       *)
Fresh(c) ==
  key[c] < diskNext /\ \A i \in 1..Len(records) : records[i] # key[c]

Stored(c, i) == i < Len(records) /\ records[i + 1] = key[c]

RowOK(c) ==
  /\ pc[c] = "raise" => key[c] = next[FileOf[c]]
  /\ pc[c] \in {"lockColumns", "columns"} => diskNext <= key[c] /\ key[c] < next[FileOf[c]]
  /\ pc[c] = "row" => Fresh(c)
  /\ pc[c] \in {"enter", "reserve"} =>
       Stored(c, pos[c]) \/ (Fresh(c) /\ pos[c] = count[FileOf[c]] + 1)
  /\ pc[c] \in Placed =>
       Stored(c, slot[c]) \/ (Fresh(c) /\ Len(records) <= slot[c])
  /\ pc[c] \in {"lockRecord", "record"} => diskCount = count[FileOf[c]]
  /\ pc[c] \in {"enter"} \cup Critical => key[c] \notin acked

RowInv == \A c \in Callers : RowOK(c)

AckedInv == \A k \in acked : \E i \in 1..Len(records) : records[i] = k

IInv ==
  /\ TypeOK /\ CallInv /\ SizeInv
  /\ Serial => AloneInv
  /\ Serial /\ inTurn => TurnInv /\ KeysInv /\ RowInv /\ AckedInv
=============================================================================
