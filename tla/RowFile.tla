------------------------------ MODULE RowFile -------------------------------
(***************************************************************************)
(* Rows of one open table file, as goroutines that share its *File see     *)
(* them: File.NewRow, Row.Add, Row.Write, File.GoTo, File.Next, and the    *)
(* ReadRow, WriteRow, WriteHeader they call (io_unix.go; io_generic.go     *)
(* takes the same steps on its own handle).                                *)
(*                                                                         *)
(* One action is one access to what the goroutines share: the header in    *)
(* memory, the row pointer, the handle (a Seek moves its only cursor, a    *)
(* Read or Write uses it).  dbaseMutex is taken by WriteRow and by nothing *)
(* else.  An I/O error, a torn row and a crash may strike a file; a        *)
(* BytesReadWriteSeeker never fails but refuses to write past its end.     *)
(*                                                                         *)
(* An operator with an underscore in its name, as NewPosition_NoShift, is  *)
(* the one after it with a bug: the properties are seen to notice it.      *)
(***************************************************************************)
EXTENDS Integers, Sequences, FiniteSets

CONSTANTS
  Appenders,   (* goroutines that make new rows: NewRow, then Write or Add *)
  Updaters,    (* goroutines that hold a row read before the others began  *)
  Readers,     (* goroutines that call Next and GoTo                       *)
  NoOne,       (* the owner of a free mutex, the author of the first rows  *)
  Zero,        (* a slot that was skipped over: a hole of zero bytes       *)
  Torn,        (* bytes that are nobody's row: partly written, misaligned  *)
  HdrBytes,    (* a slot the file header was written over                  *)
  Err,         (* a read that returned an error                            *)
  InitRows,    (* rows in the file at first                                *)
  MaxRecords,  (* MaxRecordsPerTable                                       *)
  FitRows,     (* the most rows ValidateFileSize lets a file have          *)
  Medium,      (* "file": os.File; "bytes": BytesReadWriteSeeker           *)
  Reuse,       (* may a new row be kept and written again after Write?     *)
  OuterLock,   (* does the program keep its appends and its reads apart?   *)
  MaxOps,      (* bound: calls per goroutine (updaters start over)         *)
  MaxReads,    (* bound: calls per reader                                  *)
  MaxFaults    (* bound: I/O errors, torn writes and crashes               *)

Procs   == Appenders \cup Updaters \cup Readers
Writers == Appenders \cup Updaters
Payload == [by : Procs \cup {NoOne}, n : 0..(InitRows + MaxOps)]
Content == Payload \cup {Zero, Torn, HdrBytes}

(* The bounds and switches have the values the comments above give them. *)
ASSUME SizesAssumption ==
  /\ InitRows \in Nat /\ MaxRecords \in Nat /\ FitRows \in Nat
  /\ MaxOps \in Nat \ {0} /\ MaxReads \in 0..MaxOps /\ MaxFaults \in Nat
  /\ Medium \in {"file", "bytes"} /\ Reuse \in BOOLEAN /\ OuterLock \in BOOLEAN

(* An updater holds a row of the table, so there is one. *)
ASSUME RolesAssumption ==
  /\ Appenders \cap Updaters = {} /\ Appenders \cap Readers = {}
  /\ Updaters \cap Readers = {}
  /\ NoOne \notin Procs
  /\ InitRows = 0 => Updaters = {}
  /\ {Zero, Torn, HdrBytes, Err} \cap Payload = {}
  /\ Cardinality({Zero, Torn, HdrBytes, Err}) = 4

VARIABLES
  mutex,       (* file.dbaseMutex: who holds it                            *)
  count,       (* file.header.RowsCount                                    *)
  diskCount,   (* the count in the header on disk                          *)
  slots,       (* the records on disk, past the header and the columns     *)
  columnsOK,   (* are the column definitions on disk what they were?       *)
  cursor,      (* the offset of the handle, see below                      *)
  ptr,         (* file.table.rowPointer                                    *)
  pc,          (* the next step of each goroutine                          *)
  pos,         (* row.Position                                             *)
  val,         (* the content of the row                                   *)
  tgt,         (* the local position (WriteRow: slot; ReadRow: row number) *)
  ops,         (* calls begun                                              *)
  faults,      (* faults so far                                            *)
  acked        (* history: rows whose first Write or Add returned nil      *)

shared == <<mutex, count, diskCount, slots, columnsOK, cursor, ptr>>
local  == <<pc, pos, val, tgt, ops>>
vars   == <<shared, local, faults, acked>>

(***************************************************************************)
(* Offsets of the handle: a slot number, or one of these.  A record is     *)
(* longer than the 30 bytes of the header and fits in the header area.     *)
(***************************************************************************)
AtHeader    == -3   (* offset 0                                            *)
AfterHeader == -2   (* offset 30, behind the header                        *)
InHeader    == -1   (* elsewhere before the first row                      *)
InRecord    == -4   (* within a record                                     *)

WriterPCs == {"idle", "held", "ready", "lock", "reserve", "validate",
              "hdrSeek", "hdrWrite", "rowSeek", "rowWrite", "ret", "err"}
ReaderPCs == {"idle", "check", "readSeek", "read", "row", "skip", "store"}
Critical  == {"reserve", "validate", "hdrSeek", "hdrWrite", "rowSeek", "rowWrite"}

FirstRows == [i \in 1..InitRows |-> [by |-> NoOne, n |-> i]]

LabelsOK == /\ pc \in [Procs -> WriterPCs \cup ReaderPCs]
            /\ \A p \in Writers : pc[p] \in WriterPCs
            /\ \A p \in Readers : pc[p] \in ReaderPCs

TypeOK ==
  /\ mutex \in Procs \cup {NoOne}
  /\ count \in Nat /\ diskCount \in Nat
  /\ slots \in Seq(Content)
  /\ columnsOK \in BOOLEAN
  /\ cursor \in Int
  /\ ptr \in Nat
  /\ LabelsOK
  /\ pos \in [Procs -> Nat]
  /\ val \in [Procs -> Content \cup {Err}]
  /\ tgt \in [Procs -> Int]
  /\ ops \in [Procs -> 0..MaxOps]
  /\ faults \in 0..MaxFaults
  /\ acked \subseteq Payload
  /\ \A p \in Writers : val[p] \in Payload
  /\ \A p \in Readers : pc[p] = "store" => tgt[p] \in Nat

(* The goroutines are at rest; updaters hold the rows they read before. *)
AtRest  == [p \in Procs |-> IF p \in Updaters THEN "held" ELSE "idle"]
NoRow   == [by |-> NoOne, n |-> 0]

(* OpenTable has read the header; the rows follow it on disk. *)
Init ==
  /\ mutex = NoOne
  /\ count = InitRows /\ diskCount = InitRows
  /\ slots = FirstRows
  /\ columnsOK = TRUE
  /\ cursor = InHeader
  /\ ptr = 0
  /\ pc = AtRest
  /\ \E held \in [Updaters -> 0..(InitRows - 1)] :
       pos = [p \in Procs |-> IF p \in Updaters THEN held[p] ELSE 0]
  /\ val = [p \in Procs |-> NoRow]
  /\ tgt = [p \in Procs |-> 0]
  /\ ops = [p \in Procs |-> 0]
  /\ faults = 0
  /\ acked = {}

Goto(p, label) == pc' = [pc EXCEPT ![p] = label]

(* A program with a lock of its own: it adds one row at a time, from NewRow *)
(* to the return of Add, and reads while nobody else calls.                *)
MayBegin(p) ==
  OuterLock => \A q \in Procs \ {p} :
    pc[q] \notin {"idle", "held"} => {p, q} \cap Updaters # {} /\ {p, q} \cap Readers = {}

(***************************************************************************)
(* A row and the call that writes it.                                      *)
(***************************************************************************)

NewPosition_NoShift == count          (* positions counted from zero       *)

(* The position NewRow and Add give a row: positions count from one, but   *)
(* the rows that BytesToRow makes count from zero.                         *)
NewPosition == count + 1

(* row := file.NewRow(), with values of its own. *)
NewRow(p) ==
  /\ p \in Appenders
  /\ pc[p] \in {"idle", "held"}
  /\ ops[p] < MaxOps
  /\ MayBegin(p)
  /\ ops' = [ops EXCEPT ![p] = @ + 1]
  /\ pos' = [pos EXCEPT ![p] = NewPosition]
  /\ val' = [val EXCEPT ![p] = [by |-> p, n |-> ops'[p]]]
  /\ Goto(p, "ready")
  /\ UNCHANGED <<shared, tgt, faults, acked>>

NextOp(p) == (ops[p] % MaxOps) + 1

(* New values for a row that was read, or was written before. *)
SetValue(p) ==
  /\ pc[p] = "held"
  /\ p \in Updaters \/ ops[p] < MaxOps
  /\ MayBegin(p)
  /\ ops' = [ops EXCEPT ![p] = NextOp(p)]
  /\ val' = [val EXCEPT ![p] = [by |-> p, n |-> ops'[p]]]
  /\ Goto(p, "ready")
  /\ UNCHANGED <<shared, pos, tgt, faults, acked>>

(* row.Write() *)
Write(p) ==
  /\ p \in Writers
  /\ pc[p] = "ready"
  /\ Goto(p, "lock")
  /\ UNCHANGED <<shared, pos, val, tgt, ops, faults, acked>>

(* row.Add(): the position is taken again, then Write. *)
Add(p) ==
  /\ p \in Appenders
  /\ pc[p] = "ready"
  /\ pos' = [pos EXCEPT ![p] = NewPosition]
  /\ Goto(p, "lock")
  /\ UNCHANGED <<shared, val, tgt, ops, faults, acked>>

(***************************************************************************)
(* WriteRow                                                                *)
(***************************************************************************)
Free_Always == TRUE
Free == mutex = NoOne

Lock(p) ==
  /\ pc[p] = "lock"
  /\ Free
  /\ mutex' = p
  /\ Goto(p, "reserve")
  /\ UNCHANGED <<count, diskCount, slots, columnsOK, cursor, ptr,
                 pos, val, tgt, ops, faults, acked>>

(* An early return that forgets the mutex. *)
Leave_NoUnlock(p, outcome) ==
  /\ mutex' = IF outcome = "err" THEN mutex ELSE NoOne
  /\ Goto(p, outcome)

(* The deferred Unlock, on every way out of WriteRow. *)
Leave(p, outcome) ==
  /\ mutex' = NoOne
  /\ Goto(p, outcome)

IsNew(p) == pos[p] >= count

OldSlot_Shifted(p) == pos[p] + 1
OldSlot(p) == pos[p]

NewSlot_NoShift(p) == pos[p]
NewSlot(p) == pos[p] - 1

Counted == count + 1

Uncounted_Not == count
Uncounted == count - 1

(* A row the file has already: its slot is the row's position. *)
TakeSlot(p) ==
  /\ pc[p] = "reserve"
  /\ ~IsNew(p)
  /\ tgt' = [tgt EXCEPT ![p] = OldSlot(p)]
  /\ Goto(p, "hdrSeek")
  /\ UNCHANGED <<shared, pos, val, ops, faults, acked>>

(* A new row: one row more, in the slot before its position. *)
AppendSlot(p) ==
  /\ pc[p] = "reserve"
  /\ IsNew(p)
  /\ count < MaxRecords
  /\ tgt' = [tgt EXCEPT ![p] = NewSlot(p)]
  /\ count' = Counted
  /\ Goto(p, "validate")
  /\ UNCHANGED <<mutex, diskCount, slots, columnsOK, cursor, ptr,
                 pos, val, ops, faults, acked>>

TableFull(p) ==
  /\ pc[p] = "reserve"
  /\ IsNew(p)
  /\ count >= MaxRecords
  /\ Leave(p, "err")
  /\ UNCHANGED <<count, diskCount, slots, columnsOK, cursor, ptr,
                 pos, val, tgt, ops, faults, acked>>

(* ValidateFileSize passes. *)
Validate(p) ==
  /\ pc[p] = "validate"
  /\ count <= FitRows
  /\ Goto(p, "hdrSeek")
  /\ UNCHANGED <<shared, pos, val, tgt, ops, faults, acked>>

(* The file would be too large: the count is taken back. *)
FileTooLarge(p) ==
  /\ pc[p] = "validate"
  /\ count > FitRows
  /\ count' = Uncounted
  /\ Leave(p, "err")
  /\ UNCHANGED <<diskCount, slots, columnsOK, cursor, ptr,
                 pos, val, tgt, ops, faults, acked>>

(* WriteHeader: Seek(0, 0) ... *)
HdrSeek(p) ==
  /\ pc[p] = "hdrSeek"
  /\ cursor' = AtHeader
  /\ Goto(p, "hdrWrite")
  /\ UNCHANGED <<mutex, count, diskCount, slots, columnsOK, ptr,
                 pos, val, tgt, ops, faults, acked>>

(* What the slots become when c is written at slot number i: slots that    *)
(* are skipped read as zeros.                                              *)
PutAt(s, i, c) ==
  [k \in 1..(IF i < Len(s) THEN Len(s) ELSE i + 1) |->
     IF k = i + 1 THEN c ELSE IF k <= Len(s) THEN s[k] ELSE Zero]

(* BytesReadWriteSeeker.Write refuses to start past the end of its data. *)
Refused == Medium = "bytes" /\ cursor > Len(slots)

Image_Stale == diskCount
Image == count   (* the RowsCount that is encoded into the header *)

(* ... and Write, at the beginning of the file ... *)
HdrWrite(p) ==
  /\ pc[p] = "hdrWrite"
  /\ cursor = AtHeader
  /\ diskCount' = Image
  /\ cursor' = AfterHeader
  /\ Goto(p, "rowSeek")
  /\ UNCHANGED <<mutex, count, slots, columnsOK, ptr,
                 pos, val, tgt, ops, faults, acked>>

(* ... unless a reader has moved the cursor: over a record, or over the    *)
(* column definitions.                                                     *)
HdrMisplaced(p) ==
  /\ pc[p] = "hdrWrite"
  /\ cursor # AtHeader
  /\ ~Refused
  /\ slots' = IF cursor >= 0 THEN PutAt(slots, cursor, HdrBytes) ELSE slots
  /\ columnsOK' = (columnsOK /\ cursor >= 0)
  /\ cursor' = IF cursor >= 0 THEN InRecord ELSE InHeader
  /\ Goto(p, "rowSeek")
  /\ UNCHANGED <<mutex, count, diskCount, ptr, pos, val, tgt, ops, faults, acked>>

RowOffset_ByPosition(p) == pos[p]
RowOffset(p) == tgt[p]

RowSeek(p) ==
  /\ pc[p] = "rowSeek"
  /\ cursor' = RowOffset(p)
  /\ Goto(p, "rowWrite")
  /\ UNCHANGED <<mutex, count, diskCount, slots, columnsOK, ptr,
                 pos, val, tgt, ops, faults, acked>>

(* The record, at the cursor; nil is returned. *)
RowWrite(p) ==
  /\ pc[p] = "rowWrite"
  /\ ~Refused
  /\ slots' = PutAt(slots, cursor, val[p])
  /\ cursor' = cursor + 1
  /\ acked' = IF p \in Appenders THEN acked \cup {val[p]} ELSE acked
  /\ Leave(p, "ret")
  /\ UNCHANGED <<count, diskCount, columnsOK, ptr, pos, val, tgt, ops, faults>>

(* Either Write of a BytesReadWriteSeeker, past the end: "invalid seek position". *)
WriteRefused(p) ==
  /\ pc[p] \in {"hdrWrite", "rowWrite"}
  /\ Refused
  /\ Leave(p, "err")
  /\ UNCHANGED <<count, diskCount, slots, columnsOK, cursor, ptr,
                 pos, val, tgt, ops, faults, acked>>

(* WriteRow has returned; the row object lives on if the program keeps it. *)
Return(p) ==
  /\ pc[p] \in {"ret", "err"}
  /\ Goto(p, IF p \in Updaters \/ Reuse THEN "held" ELSE "idle")
  /\ UNCHANGED <<shared, pos, val, tgt, ops, faults, acked>>

(***************************************************************************)
(* Next = Row, then Skip(1); GoTo.                                         *)
(***************************************************************************)

(* file.Next(): Row passes the row pointer to ReadRow ... *)
NextBegin(p) ==
  /\ p \in Readers
  /\ pc[p] = "idle"
  /\ ops[p] < MaxReads
  /\ MayBegin(p)
  /\ ops' = [ops EXCEPT ![p] = @ + 1]
  /\ tgt' = [tgt EXCEPT ![p] = ptr]
  /\ Goto(p, "check")
  /\ UNCHANGED <<shared, pos, val, faults, acked>>

(* ... which refuses a position behind the last row ... *)
CheckBounds(p) ==
  /\ pc[p] = "check"
  /\ tgt[p] < count
  /\ Goto(p, "readSeek")
  /\ UNCHANGED <<shared, pos, val, tgt, ops, faults, acked>>

OutOfRange(p) ==
  /\ pc[p] = "check"
  /\ tgt[p] >= count
  /\ val' = [val EXCEPT ![p] = Err]
  /\ Goto(p, "skip")
  /\ UNCHANGED <<shared, pos, tgt, ops, faults, acked>>

ReadOffset_FromOne(p) == tgt[p] - 1
ReadOffset(p) == tgt[p]

(* ... moves the cursor ... *)
ReadSeek(p) ==
  /\ pc[p] = "readSeek"
  /\ cursor' = ReadOffset(p)
  /\ Goto(p, "read")
  /\ UNCHANGED <<mutex, count, diskCount, slots, columnsOK, ptr,
                 pos, val, tgt, ops, faults, acked>>

(* What BytesToRow can make of the record at the cursor: an error where    *)
(* the data ends or does not begin with a delete flag.                     *)
Seen == IF cursor \in 0..(Len(slots) - 1)
          THEN CASE slots[cursor + 1] \in Payload -> {slots[cursor + 1]}
                 [] slots[cursor + 1] = Torn       -> {Torn, Err}
                 [] OTHER                          -> {Err}
          ELSE IF cursor \in {InHeader, InRecord} THEN {Torn, Err} ELSE {Err}

(* Where a Read of one record leaves the cursor. *)
Advanced == CASE cursor = InRecord                  -> InRecord
              [] cursor < 0                         -> InHeader
              [] cursor \in 0..(Len(slots) - 1)     -> cursor + 1
              [] OTHER                              -> cursor

(* ... and reads. *)
ReadRecord(p) ==
  /\ pc[p] = "read"
  /\ \E v \in Seen : val' = [val EXCEPT ![p] = v]
  /\ cursor' = Advanced
  /\ Goto(p, "row")
  /\ UNCHANGED <<mutex, count, diskCount, slots, columnsOK, ptr,
                 pos, tgt, ops, faults, acked>>

RowPosition == ptr

(* BytesToRow: the row gets the row pointer of this moment as its position. *)
MakeRow(p) ==
  /\ pc[p] = "row"
  /\ pos' = IF val[p] = Err THEN pos ELSE [pos EXCEPT ![p] = RowPosition]
  /\ Goto(p, "skip")
  /\ UNCHANGED <<shared, val, tgt, ops, faults, acked>>

(* Skip(1): the new value is computed and, past the end, clamped ... *)
SkipBegin(p) ==
  /\ pc[p] = "skip"
  /\ tgt' = [tgt EXCEPT ![p] = ptr + 1]
  /\ ptr' = IF ptr + 1 >= count THEN count ELSE ptr
  /\ Goto(p, "store")
  /\ UNCHANGED <<mutex, count, diskCount, slots, columnsOK, cursor,
                 pos, val, ops, faults, acked>>

(* ... and then stored as it was computed. *)
SkipEnd(p) ==
  /\ pc[p] = "store"
  /\ ptr' = tgt[p]
  /\ Goto(p, "idle")
  /\ UNCHANGED <<mutex, count, diskCount, slots, columnsOK, cursor,
                 pos, val, tgt, ops, faults, acked>>

(* file.GoTo(i) within the table. *)
GoTo(p) ==
  /\ p \in Readers
  /\ pc[p] = "idle"
  /\ ops[p] < MaxReads
  /\ MayBegin(p)
  /\ ops' = [ops EXCEPT ![p] = @ + 1]
  /\ ptr' \in 0..count
  /\ UNCHANGED <<mutex, count, diskCount, slots, columnsOK, cursor,
                 pc, pos, val, tgt, faults, acked>>

(***************************************************************************)
(* Faults of a file.                                                       *)
(***************************************************************************)
Fault == /\ Medium = "file"
         /\ faults < MaxFaults
         /\ faults' = faults + 1

(* A Seek or the Write of the header fails: WriteRow returns, the count in *)
(* memory stays.                                                           *)
HdrFail(p) ==
  /\ pc[p] \in {"hdrSeek", "hdrWrite", "rowSeek"}
  /\ Fault
  /\ Leave(p, "err")
  /\ UNCHANGED <<count, diskCount, slots, columnsOK, cursor, ptr,
                 pos, val, tgt, ops, acked>>

(* The Write of the record fails, before or after its first bytes. *)
RowFail(p) ==
  /\ pc[p] = "rowWrite"
  /\ Fault
  /\ \/ UNCHANGED <<slots, cursor>>
     \/ slots' = PutAt(slots, cursor, Torn) /\ cursor' = InRecord
  /\ Leave(p, "err")
  /\ UNCHANGED <<count, diskCount, columnsOK, ptr, pos, val, tgt, ops, acked>>

(* The process dies; the next one opens the file and reads its header and  *)
(* the rows the updaters work on.                                          *)
Crash ==
  /\ Fault
  /\ mutex' = NoOne
  /\ count' = diskCount
  /\ cursor' = InHeader
  /\ ptr' = 0
  /\ pc' = AtRest
  /\ UNCHANGED <<diskCount, slots, columnsOK, pos, val, tgt, ops, acked>>

WriteSteps(p) ==
  \/ Lock(p) \/ TakeSlot(p) \/ AppendSlot(p) \/ TableFull(p)
  \/ Validate(p) \/ FileTooLarge(p) \/ HdrSeek(p) \/ HdrWrite(p)
  \/ HdrMisplaced(p) \/ RowSeek(p) \/ RowWrite(p)
  \/ WriteRefused(p) \/ Return(p)

ReadSteps(p) ==
  \/ CheckBounds(p) \/ OutOfRange(p) \/ ReadSeek(p) \/ ReadRecord(p) \/ MakeRow(p)
  \/ SkipBegin(p) \/ SkipEnd(p)

Next ==
  \/ \E p \in Writers : \/ NewRow(p) \/ SetValue(p) \/ Write(p) \/ Add(p)
                        \/ WriteSteps(p) \/ HdrFail(p) \/ RowFail(p)
  \/ \E p \in Readers : NextBegin(p) \/ GoTo(p) \/ ReadSteps(p)
  \/ Crash

Spec == Init /\ [][Next]_vars

(* A goroutine inside a call is scheduled again and again, and a Go mutex  *)
(* hands itself to a waiter that has waited for 1 ms.                      *)
Fairness == /\ \A p \in Writers : WF_vars(WriteSteps(p)) /\ SF_vars(Lock(p))
            /\ \A p \in Readers : WF_vars(ReadSteps(p))

FairSpec == Spec /\ Fairness

(***************************************************************************)
(* Properties.                                                             *)
(***************************************************************************)

(* dbaseMutex does its work: whoever is inside WriteRow owns it, so there  *)
(* is never a second one, and it is free when there is none.               *)
MutexOK == \A p \in Procs : pc[p] \in Critical <=> mutex = p

(* Between calls the header in memory, the header on disk and the records  *)
(* on disk agree: RowsCount is the number of rows in the file.             *)
HeaderCountsRows ==
  mutex = NoOne => count = diskCount /\ diskCount = Len(slots)

(* A new row whose Write or Add returned nil is in the table for good: no  *)
(* later call, failure or crash takes it away or hides it.                 *)
AckedKept == \A v \in acked : \E i \in 1..diskCount : i <= Len(slots) /\ slots[i] = v

(* A record never lies behind what the header in memory and on disk counts,*)
(* so no record that was written is out of reach.                          *)
RowsWithinHeader == Len(slots) <= count /\ Len(slots) <= diskCount

(* Every record holds a row that was addressed to it: the first rows and   *)
(* their updates stay in their slots, new rows go behind them.             *)
RowsInTheirSlots ==
  \A i \in 1..Len(slots) : slots[i] \in Payload =>
    \/ slots[i].by = NoOne /\ slots[i].n = i
    \/ slots[i].by \in Appenders /\ i > InitRows
    \/ slots[i].by \in Updaters /\ pos[slots[i].by] = i - 1

(* Each I/O error or crash costs at most one record: rows the header counts*)
(* but that are missing, skipped or torn are no more than the faults.      *)
DamageBounded ==
  mutex = NoOne =>
    Cardinality({i \in 1..diskCount : i > Len(slots) \/ slots[i] \in {Zero, Torn}})
      <= faults

(* Row returns the row at the row pointer: the content is the record of    *)
(* the row that was asked for, and so is the position it carries.          *)
ReadHonest ==
  \A p \in Readers : pc[p] = "skip" /\ val[p] # Err =>
    /\ pos[p] = tgt[p]
    /\ pos[p] < Len(slots) /\ slots[pos[p] + 1] = val[p]

(* Every WriteRow that waits for the mutex returns in the end.             *)
WritesReturn == \A p \in Writers : pc[p] = "lock" ~> pc[p] \in {"idle", "held"}

(***************************************************************************)
(* The invariant behind the theorems.  It is about programs that have a    *)
(* lock of their own around each append and each read, and about programs  *)
(* with one appender and no readers; neither writes a new row twice        *)
(* (RowFileProofs).                                                        *)
(***************************************************************************)
Disciplined == /\ Reuse = FALSE
               /\ \/ OuterLock
                  \/ Readers = {} /\ \A p, q \in Appenders : p = q

Reserving == {"validate", "hdrSeek", "hdrWrite", "rowSeek", "rowWrite"}

Busy(p) == pc[p] \notin {"idle", "held"}

(* Of two goroutines inside calls one is an updater, and none is a reader. *)
AloneInv ==
  \A p, q \in Procs : p # q /\ Busy(p) /\ Busy(q) =>
    {p, q} \cap Updaters # {} /\ {p, q} \cap Readers = {}

(* The handle is where the step under way needs it, and the header is on   *)
(* disk before the record it counts.                                       *)
HandleInv ==
  \A p \in Writers :
    /\ pc[p] = "hdrWrite" => cursor = AtHeader
    /\ pc[p] = "rowWrite" => cursor = tgt[p]
    /\ pc[p] \in {"rowSeek", "rowWrite"} => diskCount = count

(* Rows are first, then those the header on disk counts, then those the    *)
(* header in memory counts.                                                *)
CountInv == InitRows <= Len(slots) /\ Len(slots) <= diskCount /\ diskCount <= count

(* Updaters stay on the first rows, an appender goes behind the last one.  *)
UpdaterInv ==
  \A p \in Updaters :
    /\ pos[p] < InitRows
    /\ pc[p] # "validate"
    /\ pc[p] \in Reserving => tgt[p] = pos[p]

AppenderInv ==
  \A p \in Appenders :
    /\ pc[p] # "held"
    /\ pc[p] \in {"ready", "lock", "reserve"} => pos[p] = count + 1
    /\ pc[p] = "validate" => diskCount < count
    /\ pc[p] \in Reserving => tgt[p] = count - 1 /\ Len(slots) < count

AckedInv == \A v \in acked : \E i \in (InitRows + 1)..Len(slots) : slots[i] = v

(* A goroutine writes rows of its own, and the header over no record.      *)
RowsInv ==
  /\ \A p \in Writers : pc[p] \in {"ready", "lock"} \cup Critical => val[p].by = p
  /\ \A i \in 1..Len(slots) : slots[i] # HdrBytes
  /\ RowsInTheirSlots

(* What a reader asked for, where the handle is for it, and what it got.   *)
ReadInv ==
  \A p \in Readers :
    /\ pc[p] \in {"check", "readSeek", "read", "row"} => tgt[p] = ptr
    /\ pc[p] = "read" => cursor = tgt[p]
    /\ pc[p] = "row" /\ val[p] # Err => tgt[p] < Len(slots) /\ slots[tgt[p] + 1] = val[p]
    /\ pc[p] = "skip" /\ val[p] # Err =>
         /\ pos[p] = tgt[p]
         /\ tgt[p] < Len(slots) /\ slots[tgt[p] + 1] = val[p]

(* Rows that are counted but missing, skipped or torn: one for each fault, *)
(* and the one that is being added.                                        *)
Missing == {i \in 1..count : i > Len(slots) \/ slots[i] \in {Zero, Torn}}

Adding == \E p \in Appenders : pc[p] \in Reserving

DamageInv == /\ Cardinality(Missing) <= faults + (IF Adding THEN 1 ELSE 0)
             /\ Medium = "bytes" => faults = 0

IInv == /\ TypeOK /\ MutexOK /\ AloneInv /\ HandleInv /\ CountInv
        /\ UpdaterInv /\ AppenderInv /\ AckedInv /\ RowsInv /\ ReadInv /\ DamageInv

(* Without faults: how far the counts are ahead of the records.            *)
ExactInv ==
  /\ Len(slots) = IF Adding THEN count - 1 ELSE count
  /\ diskCount = IF \E p \in Appenders : pc[p] \in {"validate", "hdrSeek", "hdrWrite"}
                    THEN count - 1 ELSE count

(***************************************************************************)
(* RowStore, implemented: a write takes effect when its record is written, *)
(* a read when the record is read; to ask for a row that is counted but    *)
(* not there is no read.                                                   *)
(***************************************************************************)
None   == NoOne
NoCall == [op |-> "none", at |-> 0, val |-> None, st |-> "none"]

WriteCall(p, st) ==
  [op  |-> IF p \in Updaters THEN "update" ELSE "append",
   at  |-> IF p \in Updaters THEN pos[p] + 1 ELSE 0,
   val |-> val[p], st |-> st]

ReadCall(at, v, st) == [op |-> "read", at |-> at, val |-> v, st |-> st]

CallOf(p) ==
  CASE pc[p] \in Critical \cup {"lock"}  -> WriteCall(p, "asked")
    [] pc[p] = "ret"                     -> WriteCall(p, "done")
    [] pc[p] = "err"                     -> WriteCall(p, "refused")
    [] pc[p] \in {"readSeek", "read"} /\ tgt[p] < Len(slots)
                                         -> ReadCall(tgt[p] + 1, None, "asked")
    [] pc[p] = "row" /\ val[p] # Err     -> ReadCall(tgt[p] + 1, val[p], "done")
    [] pc[p] \in {"skip", "store"} /\ val[p] # Err
                                         -> ReadCall(pos[p] + 1, val[p], "done")
    [] OTHER                             -> NoCall

Store == INSTANCE RowStore WITH
           Callers <- Procs, Payloads <- Payload, Start <- FirstRows,
           None <- None, rows <- slots, call <- [p \in Procs |-> CallOf(p)]

(* The code implements the sequence of rows its documentation describes.   *)
RefinesStore == Store!Spec

(* When faults strike, rows that were skipped or torn are damaged.         *)
Faulty == INSTANCE FaultyStore WITH
            Callers <- Procs, Payloads <- Payload, Start <- FirstRows,
            None <- None, Damaged <- Torn, faults <- faults,
            rows <- [i \in DOMAIN slots |-> IF slots[i] = Zero THEN Torn ELSE slots[i]],
            call <- [p \in Procs |-> CallOf(p)]

(* I/O errors, torn records and crashes cost the rows under way and leave  *)
(* every other row, and every call that has returned nil, as they were.    *)
RefinesFaulty == Faulty!FaultySpec
=============================================================================
