------------------------------ MODULE MemoFile ------------------------------
(***************************************************************************)
(* The memo (FPT) file of a table: File.WriteMemo and File.ReadMemo as     *)
(* goroutines reach them through Row.Write and File.Row.  A memo is written*)
(* into blocks of the memo file; the record keeps the number of the first  *)
(* one, its address.  The file header keeps the number of the next free    *)
(* block.  (io_unix.go; io_generic.go takes the same steps.)               *)
(*                                                                         *)
(* Goroutine w works on row w, which has one memo field.  The memo file is *)
(* a sequence of cells of 8 bytes, the size of a block header and of the   *)
(* used part of the file header; lengths and sizes are in cells.  WriteMemo*)
(* holds memoMutex, ReadMemo holds nothing; both move the one cursor of the*)
(* handle.  WriteRow holds dbaseMutex around all of it, but ToBytes is also*)
(* a call of its own that writes memos and no record.                      *)
(*                                                                         *)
(* An operator with an underscore in its name is the one after it with a   *)
(* bug: the properties are seen to notice it.                              *)
(***************************************************************************)
EXTENDS Integers, Sequences, FiniteSets

CONSTANTS
  NumRows,     (* rows, and goroutines                                     *)
  None,        (* nothing is known of a row's memo; the owner of a free mutex *)
  Garbled,     (* a read that returned bytes of something else             *)
  Err,         (* a read that returned an error                            *)
  Lengths,     (* lengths of the memos that are written                    *)
  Signs,       (* their kinds: 1 for text, 0 for binary                    *)
  FileHead,    (* length of the file header: 512 bytes                     *)
  BlockSize,   (* MemoHeader.BlockSize when the file is opened             *)
  FirstFree,   (* MemoHeader.NextFree when the file is opened              *)
  GrowInPlace, (* may a memo be replaced by one of more blocks?            *)
  ReadsOverlap,(* may reads run at the same time as other calls?           *)
  MaxOps,      (* bound: writes per goroutine                              *)
  MaxFaults    (* bound: I/O errors, partial writes, crashes               *)

Rows == 1..NumRows

(* The bounds and switches have the values the comments above give them. *)
ASSUME MemoAssumption ==
  /\ NumRows \in Nat /\ Lengths \subseteq Nat /\ Signs \subseteq {0, 1}
  /\ FileHead \in Nat \ {0} /\ BlockSize \in Nat /\ FirstFree \in Nat
  /\ GrowInPlace \in BOOLEAN /\ ReadsOverlap \in BOOLEAN
  /\ MaxOps \in Nat /\ MaxFaults \in Nat

Memo   == [by : 0..NumRows, n : 0..MaxOps, sign : {0, 1}, len : Lengths \cup {0}]
NoMemo == [by |-> 0, n |-> 0, sign |-> 0, len |-> 0]

(* Neither of these can be taken for a memo or a row. *)
ASSUME ValuesAssumption ==
  /\ None \notin Memo /\ None \notin Rows
  /\ {Garbled, Err} \cap Memo = {} /\ Cardinality({None, Garbled, Err}) = 3

(* Cells: the file header; a block header; a memo's data; zeros. *)
Header(n, s)  == [kind |-> "file", next |-> n, size |-> s]
BlockHead(m)  == [kind |-> "head", memo |-> m]
Data(m, i)    == [kind |-> "data", memo |-> m, i |-> i]
Zero          == [kind |-> "zero"]

Cells == [kind : {"file"}, next : Nat, size : Nat]
         \cup [kind : {"head"}, memo : Memo]
         \cup [kind : {"data"}, memo : Memo, i : Nat]
         \cup {Zero}

VARIABLES
  dbaseMutex,  (* file.dbaseMutex: who holds it                            *)
  memoMutex,   (* file.memoMutex: who holds it                             *)
  next,        (* file.memoHeader.NextFree                                 *)
  size,        (* file.memoHeader.BlockSize                                *)
  disk,        (* the memo file                                            *)
  cursor,      (* the offset of its handle                                 *)
  rec,         (* the address in the record of each row, 0 for none        *)
  memoPos,     (* field.memoPos of each goroutine's row, 0 for none        *)
  val,         (* field.value                                              *)
  pc,          (* the next step of each goroutine                          *)
  at,          (* the address in use: blockPosition, or the one to read    *)
  ops,         (* writes begun                                             *)
  faults,      (* faults so far                                            *)
  acked,       (* history: the memo of the last write, if it returned nil  *)
  extent       (* history: blocks reserved at each address, and by whom    *)

file  == <<dbaseMutex, memoMutex, next, size, disk, cursor, rec>>
local == <<memoPos, val, pc, at, ops>>
hist  == <<acked, extent>>
vars  == <<file, local, faults, hist>>

Critical == {"place", "hdrWrite", "hdrPad", "dataSeek", "dataWrite"}
Writing  == Critical \cup {"lockRow", "begin", "store", "ret"}
Reading  == {"readSeek", "readHead", "readData", "seen"}
AtRest   == {"idle", "gone"}

TypeOK ==
  /\ dbaseMutex \in Rows \cup {None} /\ memoMutex \in Rows \cup {None}
  /\ next \in Nat /\ size \in Nat
  /\ disk \in Seq(Cells) /\ disk # <<>>
  /\ cursor \in Nat
  /\ rec \in [Rows -> Nat] /\ memoPos \in [Rows -> Nat]
  /\ val \in [Rows -> Memo \cup {Garbled, Err}]
  /\ pc \in [Rows -> Writing \cup Reading \cup AtRest]
  /\ at \in [Rows -> Nat]
  /\ ops \in [Rows -> 0..MaxOps]
  /\ faults \in 0..MaxFaults
  /\ acked \in [Rows -> Memo \cup {None}]
  /\ DOMAIN extent \subseteq Nat
  /\ \A a \in DOMAIN extent : extent[a] \in [blocks : Nat, by : Rows]
  /\ \A w \in Rows : pc[w] \in Writing \cup {"readData"} => val[w] \in Memo

Larger(x, y) == IF x >= y THEN x ELSE y

(* A memo file that has no memo of these rows, as ReadMemoHeader finds it  *)
(* or NewTable leaves it.                                                  *)
Init ==
  /\ dbaseMutex = None /\ memoMutex = None
  /\ next = FirstFree /\ size = BlockSize
  /\ disk = [k \in 1..Larger(FileHead, FirstFree * BlockSize) |->
               IF k = 1 THEN Header(FirstFree, BlockSize) ELSE Zero]
  /\ cursor = 0
  /\ rec = [w \in Rows |-> 0] /\ memoPos = [w \in Rows |-> 0]
  /\ val = [w \in Rows |-> NoMemo]
  /\ pc = [w \in Rows |-> "idle"]
  /\ at = [w \in Rows |-> 0]
  /\ ops = [w \in Rows |-> 0]
  /\ faults = 0
  /\ acked = [w \in Rows |-> NoMemo]
  /\ extent = [a \in {} |-> 0]

Goto(w, label) == pc' = [pc EXCEPT ![w] = label]

(* What the file becomes when cells are written at an offset. *)
Overwrite(s, offset, cells) ==
  [k \in 1..Larger(Len(s), IF cells = <<>> THEN 0 ELSE offset + Len(cells)) |->
     IF offset < k /\ k <= offset + Len(cells) THEN cells[k - offset]
     ELSE IF k <= Len(s) THEN s[k] ELSE Zero]

(***************************************************************************)
(* The row of the goroutine: SetValue, then Write or ToBytes.              *)
(***************************************************************************)
Blocks_Down(len) == len \div size   (* a started block is forgotten *)

(* The blocks WriteMemo reserves for a memo. *)
Blocks(len) ==
  IF len > 0 /\ size > 0
    THEN (len \div size) + (IF len % size > 0 THEN 1 ELSE 0)
    ELSE 1

Fits(w, len) == memoPos[w] # 0 => Blocks(len) <= extent[memoPos[w]].blocks

MayWrite == ReadsOverlap \/ \A v \in Rows : pc[v] \notin Reading
MayRead(w) == ReadsOverlap \/ \A v \in Rows \ {w} : pc[v] \in AtRest

SetValue(w) ==
  /\ pc[w] = "idle"
  /\ ops[w] < MaxOps
  /\ MayWrite
  /\ ops' = [ops EXCEPT ![w] = @ + 1]
  /\ \E len \in Lengths, sign \in Signs :
       /\ GrowInPlace \/ Fits(w, len)
       /\ val' = [val EXCEPT ![w] =
                    IF len = 0 THEN NoMemo
                    ELSE [by |-> w, n |-> ops[w] + 1, sign |-> sign, len |-> len]]
  /\ acked' = [acked EXCEPT ![w] = None]
  /\ \E label \in {"lockRow", "begin"} : Goto(w, label)
  /\ UNCHANGED <<file, memoPos, at, faults, extent>>

(* WriteRow takes dbaseMutex before it calls ToBytes.                      *)
LockRow(w) ==
  /\ pc[w] = "lockRow"
  /\ dbaseMutex = None
  /\ dbaseMutex' = w
  /\ Goto(w, "begin")
  /\ UNCHANGED <<memoMutex, next, size, disk, cursor, rec, memoPos, val, at, ops,
                 faults, hist>>

(* Where WriteMemo returns to: WriteRow, or the end of a ToBytes.          *)
After(w) == IF dbaseMutex = w THEN "store" ELSE "ret"

(* WriteRow gives up.                                                      *)
Unlock(w) == dbaseMutex' = IF dbaseMutex = w THEN None ELSE dbaseMutex

(***************************************************************************)
(* WriteMemo and WriteMemoHeader                                           *)
(***************************************************************************)

(* Nothing to write: the record gets no address. *)
NoData(w) ==
  /\ pc[w] = "begin"
  /\ val[w].len = 0
  /\ at' = [at EXCEPT ![w] = 0]
  /\ Goto(w, After(w))
  /\ UNCHANGED <<file, memoPos, val, ops, faults, hist>>

Free_Always == TRUE
Free == memoMutex = None

Lock(w) ==
  /\ pc[w] = "begin"
  /\ val[w].len # 0
  /\ Free
  /\ memoMutex' = w
  /\ Goto(w, "place")
  /\ UNCHANGED <<dbaseMutex, next, size, disk, cursor, rec, memoPos, val, at, ops,
                 faults, hist>>

(* The way out of WriteMemo, on which memoMutex is given back. *)
Leave(w, label) ==
  /\ memoMutex' = None
  /\ Goto(w, label)

(* An address of zeros looks like no address. *)
IsNew(w) == memoPos[w] = 0

NextAfter_One(w) == IF IsNew(w) THEN next + 1 ELSE next
NextAfter(w) == IF IsNew(w) THEN next + Blocks(val[w].len) ELSE next

Address_New(w) == next
Address(w) == IF IsNew(w) THEN next ELSE memoPos[w]

(* The address is chosen; the file header is sought and counts the blocks. *)
Place(w) ==
  /\ pc[w] = "place"
  /\ at' = [at EXCEPT ![w] = Address(w)]
  /\ next' = NextAfter(w)
  /\ cursor' = 0
  /\ Goto(w, "hdrWrite")
  /\ UNCHANGED <<dbaseMutex, memoMutex, size, disk, rec, memoPos, val, ops, faults, hist>>

HeaderCell_Stale(w) == Header(at[w], size)   (* NextFree before the memo *)
HeaderCell(w) == Header(next, size)

(* The 8 bytes in use ... *)
HdrWrite(w) ==
  /\ pc[w] = "hdrWrite"
  /\ disk' = Overwrite(disk, cursor, <<HeaderCell(w)>>)
  /\ cursor' = cursor + 1
  /\ extent' = IF IsNew(w)
                 THEN [a \in DOMAIN extent \cup {at[w]} |->
                         IF a = at[w] THEN [blocks |-> Blocks(val[w].len), by |-> w]
                         ELSE extent[a]]
                 ELSE extent
  /\ Goto(w, "hdrPad")
  /\ UNCHANGED <<dbaseMutex, memoMutex, next, size, rec, memoPos, val, at, ops, faults,
                 acked>>

Padding_Long == [k \in 1..FileHead |-> Zero]
Padding == [k \in 1..(FileHead - 1) |-> Zero]

(* ... and zeros for the rest of the file header. *)
HdrPad(w) ==
  /\ pc[w] = "hdrPad"
  /\ disk' = Overwrite(disk, cursor, Padding)
  /\ cursor' = cursor + Len(Padding)
  /\ Goto(w, "dataSeek")
  /\ UNCHANGED <<dbaseMutex, memoMutex, next, size, rec, memoPos, val, at, ops, faults,
                 hist>>

Offset(a) == a * size

DataSeek(w) ==
  /\ pc[w] = "dataSeek"
  /\ cursor' = Offset(at[w])
  /\ Goto(w, "dataWrite")
  /\ UNCHANGED <<dbaseMutex, memoMutex, next, size, disk, rec, memoPos, val, at, ops,
                 faults, hist>>

(* Block header and data, with zeros up to one block. *)
Image(m) ==
  [k \in 1..Larger(1 + m.len, size) |->
     IF k = 1 THEN BlockHead(m) ELSE IF k <= 1 + m.len THEN Data(m, k - 1) ELSE Zero]

DataWrite(w) ==
  /\ pc[w] = "dataWrite"
  /\ disk' = Overwrite(disk, cursor, Image(val[w]))
  /\ cursor' = cursor + Len(Image(val[w]))
  /\ Leave(w, After(w))
  /\ UNCHANGED <<dbaseMutex, next, size, rec, memoPos, val, at, ops, faults, hist>>

Stored_Old(w) == memoPos[w]
Stored(w) == at[w]

(* WriteRow goes on to write the record, with the address in it.  The row  *)
(* object keeps the address it had.                                        *)
Store(w) ==
  /\ pc[w] = "store"
  /\ rec' = [rec EXCEPT ![w] = Stored(w)]
  /\ acked' = [acked EXCEPT ![w] = val[w]]
  /\ Unlock(w)
  /\ Goto(w, "ret")
  /\ UNCHANGED <<memoMutex, next, size, disk, cursor, memoPos, val, at, ops,
                 faults, extent>>

Return(w) ==
  /\ pc[w] \in {"ret", "seen"}
  /\ Goto(w, "idle")
  /\ UNCHANGED <<file, memoPos, val, at, ops, faults, hist>>

(***************************************************************************)
(* Row: the record is read, then the memo it points to (ReadMemo).         *)
(***************************************************************************)
ReadEmpty(w) ==
  /\ pc[w] \in AtRest
  /\ MayRead(w)
  /\ rec[w] = 0
  /\ val' = [val EXCEPT ![w] = NoMemo]
  /\ memoPos' = [memoPos EXCEPT ![w] = 0]
  /\ Goto(w, "seen")
  /\ UNCHANGED <<file, at, ops, faults, hist>>

ReadBegin(w) ==
  /\ pc[w] \in AtRest
  /\ MayRead(w)
  /\ rec[w] # 0
  /\ at' = [at EXCEPT ![w] = rec[w]]
  /\ Goto(w, "readSeek")
  /\ UNCHANGED <<file, memoPos, val, ops, faults, hist>>

ReadSeek(w) ==
  /\ pc[w] = "readSeek"
  /\ cursor' = Offset(at[w])
  /\ Goto(w, "readHead")
  /\ UNCHANGED <<dbaseMutex, memoMutex, next, size, disk, rec, memoPos, val, at, ops,
                 faults, hist>>

(* The block header, if that is what is at the cursor ... *)
ReadHead(w) ==
  /\ pc[w] = "readHead"
  /\ cursor < Len(disk)
  /\ disk[cursor + 1].kind = "head"
  /\ val' = [val EXCEPT ![w] = disk[cursor + 1].memo]
  /\ cursor' = cursor + 1
  /\ Goto(w, "readData")
  /\ UNCHANGED <<dbaseMutex, memoMutex, next, size, disk, rec, memoPos, at, ops,
                 faults, hist>>

(* The read returns a value, or an error and no row. *)
Result(w, v) ==
  /\ val' = [val EXCEPT ![w] = v]
  /\ memoPos' = IF v = Err THEN memoPos ELSE [memoPos EXCEPT ![w] = at[w]]
  /\ Goto(w, IF v = Err THEN "gone" ELSE "seen")

(* ... or the end of the file, zeros (a memo of length 0), something else. *)
ReadNoHead(w) ==
  /\ pc[w] = "readHead"
  /\ IF cursor >= Len(disk) THEN Result(w, Err) /\ cursor' = cursor
     ELSE /\ disk[cursor + 1].kind # "head"
          /\ IF disk[cursor + 1] = Zero
               THEN Result(w, NoMemo) /\ cursor' = cursor + 1
               ELSE /\ \E v \in {Garbled, Err} : Result(w, v)
                    /\ cursor' \in (cursor + 1)..Larger(cursor + 1, Len(disk))
  /\ UNCHANGED <<dbaseMutex, memoMutex, next, size, disk, rec, at, ops, faults, hist>>

(* Is the data of memo m at this offset, or some other bytes? *)
HasData(offset, m) ==
  \A i \in 1..m.len : offset + i <= Len(disk) /\ disk[offset + i] = Data(m, i)

(* As many bytes as the block header says. *)
ReadData(w) ==
  /\ pc[w] = "readData"
  /\ Result(w, IF cursor + val[w].len > Len(disk) THEN Err
               ELSE IF HasData(cursor, val[w]) THEN val[w] ELSE Garbled)
  /\ cursor' = IF cursor + val[w].len <= Len(disk) THEN cursor + val[w].len
               ELSE Larger(cursor, Len(disk))
  /\ UNCHANGED <<dbaseMutex, memoMutex, next, size, disk, rec, at, ops, faults, hist>>

(***************************************************************************)
(* Faults                                                                  *)
(***************************************************************************)
Fault == faults < MaxFaults /\ faults' = faults + 1

(* A Seek fails, before NextFree is raised or after; or the record cannot  *)
(* be written.                                                             *)
Fail(w) ==
  /\ pc[w] \in {"place", "dataSeek"}
  /\ Fault
  /\ Leave(w, "idle") /\ Unlock(w)
  /\ UNCHANGED <<next, size, disk, cursor, rec, memoPos, val, at, ops, hist>>

StoreFail(w) ==
  /\ pc[w] = "store"
  /\ Fault
  /\ Unlock(w)
  /\ Goto(w, "idle")
  /\ UNCHANGED <<memoMutex, next, size, disk, cursor, rec, memoPos, val, at, ops, hist>>

(* What the Write under way is to write. *)
Buffer(w) == CASE pc[w] = "hdrWrite"  -> <<HeaderCell(w)>>
               [] pc[w] = "hdrPad"    -> Padding
               [] pc[w] = "dataWrite" -> Image(val[w])

(* It fails, after it wrote a part of that. *)
WriteFail(w) ==
  /\ pc[w] \in {"hdrWrite", "hdrPad", "dataWrite"}
  /\ Fault
  /\ \E k \in 0..(Len(Buffer(w)) - 1) :
       /\ disk' = Overwrite(disk, cursor, SubSeq(Buffer(w), 1, k))
       /\ cursor' = cursor + k
  /\ Leave(w, "idle") /\ Unlock(w)
  /\ UNCHANGED <<next, size, rec, memoPos, val, at, ops, hist>>

(* What ReadMemoHeader takes the first 8 bytes for: a block header there is*)
(* read as a file header.                                                  *)
NextOnDisk == CASE disk[1].kind = "file" -> disk[1].next
                [] disk[1].kind = "head" -> disk[1].memo.sign
                [] OTHER                 -> 0
SizeOnDisk == CASE disk[1].kind = "file" -> disk[1].size
                [] disk[1].kind = "head" -> disk[1].memo.len
                [] OTHER                 -> 0

(* The process dies; the next one opens the file and must read the rows    *)
(* again.                                                                  *)
Crash ==
  /\ Fault
  /\ dbaseMutex' = None /\ memoMutex' = None
  /\ next' = NextOnDisk /\ size' = SizeOnDisk
  /\ cursor' = 1
  /\ pc' = [w \in Rows |-> "gone"]
  /\ UNCHANGED <<disk, rec, memoPos, val, at, ops, hist>>

WriteSteps(w) ==
  \/ SetValue(w) \/ LockRow(w) \/ NoData(w) \/ Lock(w) \/ Place(w) \/ HdrWrite(w)
  \/ HdrPad(w) \/ DataSeek(w) \/ DataWrite(w) \/ Store(w) \/ Return(w)

ReadSteps(w) ==
  \/ ReadEmpty(w) \/ ReadBegin(w) \/ ReadSeek(w) \/ ReadHead(w) \/ ReadNoHead(w)
  \/ ReadData(w)

Next ==
  \/ \E w \in Rows : \/ WriteSteps(w) \/ ReadSteps(w)
                     \/ Fail(w) \/ StoreFail(w) \/ WriteFail(w)
  \/ Crash

Spec == Init /\ [][Next]_vars

(***************************************************************************)
(* Properties.                                                             *)
(***************************************************************************)

(* The blocks at address a hold memo m: block header and all of its data.  *)
Holds(a, m) ==
  /\ a * size + 1 <= Len(disk) /\ disk[a * size + 1] = BlockHead(m)
  /\ HasData(a * size + 1, m)

Has(w, m) == IF rec[w] = 0 THEN m = NoMemo ELSE Holds(rec[w], m)

(* The memo that a row shows.                                              *)
Content(w) ==
  IF rec[w] = 0 THEN NoMemo
  ELSE IF /\ rec[w] * size < Len(disk)
          /\ disk[rec[w] * size + 1].kind = "head"
          /\ Holds(rec[w], disk[rec[w] * size + 1].memo)
         THEN disk[rec[w] * size + 1].memo ELSE Garbled

(* A memo that was written stays as it was until its own row is written    *)
(* again: no other WriteMemo, no failure of one and no crash touches it.   *)
MemosKept == \A w \in Rows : acked[w] # None => Has(w, acked[w])

(* A goroutine finds in its row the memo it wrote there last, whether it   *)
(* still has the row or has read it again.                                 *)
ReadsBack ==
  \A w \in Rows : pc[w] \in {"idle", "seen"} /\ acked[w] # None => val[w] = acked[w]

(* No block is given to two memos while a process has the file open.       *)
BlocksApart ==
  \A a, b \in DOMAIN extent : a < b => a + extent[a].blocks <= b

(* The header on disk is ahead of every block in use: the process after a  *)
(* crash does not give it away again.                                      *)
HeaderAhead ==
  /\ NextOnDisk <= next
  /\ \A a \in DOMAIN extent : a + extent[a].blocks <= NextOnDisk

(* memoMutex makes WriteMemo one critical section and dbaseMutex WriteRow; *)
(* they are left on every path.                                            *)
MutexOK ==
  \A w \in Rows :
    /\ pc[w] \in Critical <=> memoMutex = w
    /\ pc[w] = "store" => dbaseMutex = w
    /\ dbaseMutex = w => pc[w] \in Critical \cup {"begin", "store"}

(***************************************************************************)
(* The invariant behind the theorems.  It needs block sizes and lengths    *)
(* such that a memo and its 8 bytes of block header fit into the blocks    *)
(* counted for its length alone, a file header that reserves its own space,*)
(* memos that do not outgrow their blocks, and no reads during writes      *)
(* (MemoFileProofs).                                                       *)
(***************************************************************************)
Disciplined ==
  /\ BlockSize > 0 /\ FirstFree > 0 /\ FileHead <= FirstFree * BlockSize
  /\ \A len \in Lengths : len > 0 =>
       1 + len <= ((len \div BlockSize) + (IF len % BlockSize > 0 THEN 1 ELSE 0)) * BlockSize
  /\ ~GrowInPlace /\ ~ReadsOverlap

(* Reads are alone. *)
QuietInv ==
  \A v, w \in Rows : pc[v] \in Reading /\ v # w => pc[w] \in AtRest

(* The handle is where the step under way needs it. *)
CursorInv ==
  \A w \in Rows :
    /\ pc[w] = "hdrWrite"  => cursor = 0
    /\ pc[w] = "hdrPad"    => cursor = 1
    /\ pc[w] \in {"dataWrite", "readHead"} => cursor = at[w] * size
    /\ pc[w] = "readData"  => cursor = at[w] * size + 1

HeaderInv ==
  /\ size = BlockSize
  /\ Len(disk) >= 1
  /\ disk[1] \in [kind : {"file"}, next : Nat, size : {BlockSize}]
  /\ FirstFree <= disk[1].next /\ disk[1].next <= next

(* Reserved blocks are behind the file header, apart, and counted on disk. *)
ExtentInv ==
  \A a \in DOMAIN extent :
    /\ FirstFree <= a /\ extent[a].blocks >= 1 /\ a + extent[a].blocks <= disk[1].next
    /\ \A b \in DOMAIN extent : a < b => a + extent[a].blocks <= b

(* Memo m fits into the blocks at a, which belong to w. *)
Room(w, a, m) ==
  /\ a \in DOMAIN extent /\ extent[a].by = w
  /\ 1 + m.len <= extent[a].blocks * BlockSize

(* Every address in use belongs to the row that uses it; what is being     *)
(* written has room there, or is about to get it.                          *)
AddressInv ==
  \A w \in Rows :
    /\ rec[w] # 0 => rec[w] \in DOMAIN extent /\ extent[rec[w]].by = w
    /\ memoPos[w] # 0 => memoPos[w] \in DOMAIN extent /\ extent[memoPos[w]].by = w
    /\ pc[w] \in Critical => val[w].len \in Lengths \ {0}
    /\ pc[w] \in Critical \cup {"lockRow", "begin"} /\ val[w].len # 0 /\ ~IsNew(w)
         => Room(w, memoPos[w], val[w])
    /\ pc[w] \in {"hdrWrite", "hdrPad", "dataSeek", "dataWrite"} /\ ~IsNew(w)
         => at[w] = memoPos[w]
    /\ pc[w] = "hdrWrite" /\ IsNew(w)
         => disk[1].next <= at[w] /\ at[w] + Blocks(val[w].len) = next
    /\ pc[w] \in {"hdrPad", "dataSeek", "dataWrite"} => Room(w, at[w], val[w])
    /\ pc[w] \in {"readSeek", "readHead", "readData"} => at[w] = rec[w] /\ rec[w] # 0

(* Memos that were written, and the one that is to be recorded, are there. *)
ContentInv ==
  \A w \in Rows :
    /\ pc[w] \in Critical \cup {"lockRow", "begin", "store"} => acked[w] = None
    /\ pc[w] \in {"lockRow", "begin"} /\ val[w].len = 0 => val[w] = NoMemo
    /\ acked[w] # None => Has(w, acked[w])
    /\ acked[w] # None /\ rec[w] # 0 => Room(w, rec[w], acked[w])
    /\ pc[w] = "store" => IF at[w] = 0 THEN val[w] = NoMemo
                          ELSE Room(w, at[w], val[w]) /\ Holds(at[w], val[w])

(* What a reader has seen so far of a memo that is known. *)
ReadInv ==
  \A w \in Rows :
    acked[w] # None /\ pc[w] \in {"idle", "seen", "readData", "ret"} => val[w] = acked[w]

(* A record points to a block header, of a memo that has room in the       *)
(* blocks of the row; whoever reads the memo has seen it.                  *)
HeadInv ==
  \A w \in Rows :
    /\ rec[w] # 0 => /\ rec[w] * size < Len(disk)
                     /\ disk[rec[w] * size + 1].kind = "head"
                     /\ Room(w, rec[w], disk[rec[w] * size + 1].memo)
    /\ pc[w] = "readData" => disk[at[w] * size + 1] = BlockHead(val[w])

(* No more rows are damaged than there were faults.                        *)
DamageInv == Cardinality({w \in Rows : Content(w) = Garbled}) <= faults

IInv == /\ TypeOK /\ MutexOK /\ QuietInv /\ CursorInv /\ HeaderInv /\ ExtentInv
        /\ AddressInv /\ ContentInv /\ ReadInv /\ HeadInv /\ DamageInv

(***************************************************************************)
(* FaultyStore, implemented: the memos of the rows are a sequence of which *)
(* each write replaces one member.  A write takes effect with the record,  *)
(* or in place with the data; so does a ToBytes, refused if not in place.  *)
(***************************************************************************)
NoCall == [op |-> "none", at |-> 0, val |-> None, st |-> "none"]
Update(w, st)  == [op |-> "update", at |-> w, val |-> val[w], st |-> st]
Read(w, v, st) == [op |-> "read", at |-> w, val |-> v, st |-> st]

(* A write under way whose effect no row shows yet.                        *)
Asked == Critical \cup {"lockRow", "begin"}

CallOf(w) ==
  CASE pc[w] \in Asked -> Update(w, "asked")
    [] pc[w] = "store" -> Update(w, IF rec[w] = at[w] THEN "done" ELSE "asked")
    [] pc[w] = "ret"   -> Update(w, IF rec[w] = at[w] THEN "done" ELSE "refused")
    [] pc[w] \in {"readSeek", "readHead", "readData"} -> Read(w, None, "asked")
    [] pc[w] = "seen"  -> IF rec[w] = 0 THEN NoCall ELSE Read(w, val[w], "done")
    [] OTHER           -> NoCall

Memos == INSTANCE FaultyStore WITH
           Callers <- Rows, Payloads <- Memo, Start <- [w \in Rows |-> NoMemo],
           None <- None, Damaged <- Garbled, faults <- faults,
           rows <- [w \in Rows |-> Content(w)], call <- [w \in Rows |-> CallOf(w)]

(* A write changes the memo of its own row and a read returns it; a fault  *)
(* damages no memo but the one being written, and that only in place.      *)
RefinesMemos == Memos!FaultySpec
=============================================================================
