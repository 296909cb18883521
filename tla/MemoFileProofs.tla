--------------------------- MODULE MemoFileProofs ---------------------------
(* Theorems about MemoFile for every number of rows, size of block, length *)
(* of memo, and every fault.                                               *)
EXTENDS MemoFile, FiniteSetTheorems, TLAPS

(***************************************************************************)
(* Writing into the memo file.                                             *)
(***************************************************************************)

(* A write leaves a sequence of cells, as long as it was or up to the last *)
(* cell that was written.                                                  *)
LEMMA OverwriteType ==
  ASSUME NEW s \in Seq(Cells), NEW offset \in Nat, NEW cells \in Seq(Cells)
  PROVE  /\ Overwrite(s, offset, cells) \in Seq(Cells)
         /\ Len(Overwrite(s, offset, cells))
              = Larger(Len(s), IF cells = <<>> THEN 0 ELSE offset + Len(cells))
<1> DEFINE n == Larger(Len(s), IF cells = <<>> THEN 0 ELSE offset + Len(cells))
           cell(k) == IF offset < k /\ k <= offset + Len(cells) THEN cells[k - offset]
                      ELSE IF k <= Len(s) THEN s[k] ELSE Zero
           f == [k \in 1..n |-> cell(k)]
<1>1. n \in Nat
  BY DEF Larger
<1>2. Zero \in Cells
  BY DEF Cells
<1>3. ASSUME NEW k \in 1..n PROVE cell(k) \in Cells
  <2>1. CASE offset < k /\ k <= offset + Len(cells)
    <3>1. k - offset \in 1..Len(cells)
      BY <1>1, <2>1
    <3> QED
      BY <2>1, <3>1
  <2>2. CASE ~(offset < k /\ k <= offset + Len(cells)) /\ k <= Len(s)
    BY <1>1, <2>2
  <2>3. CASE ~(offset < k /\ k <= offset + Len(cells)) /\ ~(k <= Len(s))
    BY <1>2, <2>3
  <2> QED
    BY <2>1, <2>2, <2>3
<1>4. f \in [1..n -> Cells]
  BY <1>3
<1>5. Overwrite(s, offset, cells) = f
  BY DEF Overwrite
<1> HIDE DEF n, cell, f
<1>6. f \in Seq(Cells) /\ Len(f) = n
  BY <1>1, <1>4
<1> QED
  BY <1>5, <1>6 DEF n

(* It puts its cells where the handle is ...                               *)
LEMMA OverwriteInside ==
  ASSUME NEW s \in Seq(Cells), NEW offset \in Nat, NEW cells \in Seq(Cells),
         NEW i \in 1..Len(cells)
  PROVE  /\ offset + i <= Len(Overwrite(s, offset, cells))
         /\ Overwrite(s, offset, cells)[offset + i] = cells[i]
<1>1. cells # <<>>
  OBVIOUS
<1> DEFINE n == Larger(Len(s), offset + Len(cells))
<1>2. n \in Nat /\ offset + i \in 1..n
  BY DEF Larger
<1>3. Len(Overwrite(s, offset, cells)) = n
  BY <1>1, OverwriteType, Zenon
<1>4. Overwrite(s, offset, cells)
        = [k \in 1..n |-> IF offset < k /\ k <= offset + Len(cells) THEN cells[k - offset]
                          ELSE IF k <= Len(s) THEN s[k] ELSE Zero]
  BY <1>1, Zenon DEF Overwrite
<1>5. offset < offset + i /\ offset + i <= offset + Len(cells) /\ (offset + i) - offset = i
  OBVIOUS
<1> HIDE DEF n
<1> QED
  BY <1>2, <1>3, <1>4, <1>5

(* ... and changes no other cell.                                          *)
LEMMA OverwriteOutside ==
  ASSUME NEW s \in Seq(Cells), NEW offset \in Nat, NEW cells \in Seq(Cells),
         NEW k \in 1..Len(s), k <= offset \/ offset + Len(cells) < k
  PROVE  /\ k <= Len(Overwrite(s, offset, cells))
         /\ Overwrite(s, offset, cells)[k] = s[k]
<1> DEFINE n == Larger(Len(s), IF cells = <<>> THEN 0 ELSE offset + Len(cells))
<1>1. n \in Nat /\ k \in 1..n
  BY DEF Larger
<1>2. Len(Overwrite(s, offset, cells)) = n
  BY OverwriteType, Zenon
<1>3. Overwrite(s, offset, cells)
        = [j \in 1..n |-> IF offset < j /\ j <= offset + Len(cells) THEN cells[j - offset]
                          ELSE IF j <= Len(s) THEN s[j] ELSE Zero]
  BY Zenon DEF Overwrite
<1>4. ~(offset < k /\ k <= offset + Len(cells))
  OBVIOUS
<1> HIDE DEF n
<1> QED
  BY <1>1, <1>2, <1>3, <1>4

LEMMA MemoLen ==
  ASSUME NEW m \in Memo
  PROVE  m.len \in Lengths \cup {0} /\ m.len \in Nat /\ m.sign \in Nat
<1>1. m.len \in Lengths \cup {0} /\ m.sign \in {0, 1}
  BY DEF Memo
<1>2. \A x \in Lengths : x \in Nat
  BY MemoAssumption
<1>3. m.len \in Nat
  BY <1>1, <1>2
<1>4. m.sign \in Nat
  BY <1>1
<1> QED
  BY <1>1, <1>3, <1>4

(* What WriteMemo and WriteMemoHeader write are cells.                     *)
LEMMA ImageType ==
  ASSUME NEW m \in Memo, size \in Nat
  PROVE  Image(m) \in Seq(Cells) /\ Len(Image(m)) = Larger(1 + m.len, size)
<1>1. m.len \in Nat
  BY MemoLen
<1> DEFINE n == Larger(1 + m.len, size)
<1>2. n \in Nat
  BY <1>1 DEF Larger
<1>3. \A k \in 1..n : (IF k = 1 THEN BlockHead(m) ELSE IF k <= 1 + m.len
                         THEN Data(m, k - 1) ELSE Zero) \in Cells
  BY <1>1, <1>2 DEF Cells, BlockHead, Data
<1> QED
  BY <1>2, <1>3 DEF Image

LEMMA PaddingType == Padding \in Seq(Cells) /\ Len(Padding) = FileHead - 1
<1>1. Zero \in Cells
  BY DEF Cells
<1> QED
  BY <1>1, MemoAssumption DEF Padding

LEMMA HeaderCellType ==
  ASSUME TypeOK, NEW w \in Rows
  PROVE  HeaderCell(w) \in Cells
BY DEF TypeOK, HeaderCell, Header, Cells

(* A part of what is written is cells, too.                                *)
LEMMA PartType ==
  ASSUME NEW cells \in Seq(Cells), NEW k \in 0..Len(cells)
  PROVE  SubSeq(cells, 1, k) \in Seq(Cells) /\ Len(SubSeq(cells, 1, k)) = k
OBVIOUS

LEMMA BlocksType == ASSUME NEW len \in Nat, size \in Nat PROVE Blocks(len) \in Nat
BY DEF Blocks

(* What ReadMemoHeader reads are numbers.                                  *)
LEMMA OnDiskType ==
  ASSUME TypeOK PROVE NextOnDisk \in Nat /\ SizeOnDisk \in Nat
<1>1. disk[1] \in Cells
  BY DEF TypeOK
<1>2. CASE disk[1].kind = "file"
  <2>1. disk[1] \in [kind : {"file"}, next : Nat, size : Nat]
    BY <1>1, <1>2 DEF Cells, Zero
  <2> QED
    BY <1>2, <2>1 DEF NextOnDisk, SizeOnDisk
<1>3. CASE disk[1].kind = "head"
  <2>1. disk[1] \in [kind : {"head"}, memo : Memo]
    BY <1>1, <1>3 DEF Cells, Zero
  <2> QED
    BY <1>3, <2>1, MemoLen DEF NextOnDisk, SizeOnDisk
<1>4. CASE disk[1].kind \notin {"file", "head"}
  BY <1>4 DEF NextOnDisk, SizeOnDisk
<1> QED
  BY <1>2, <1>3, <1>4
(***************************************************************************)
(* Types.                                                                  *)
(***************************************************************************)
LEMMA CellsType ==
  ASSUME NEW n \in Nat, NEW f \in [1..n -> Cells]
  PROVE  f \in Seq(Cells) /\ Len(f) = n
OBVIOUS

LEMMA NoMemoType == NoMemo \in Memo
BY MemoAssumption DEF NoMemo, Memo

LEMMA InitType == Init => TypeOK
<1> SUFFICES ASSUME Init PROVE TypeOK
  OBVIOUS
<1> USE DEF Init
<1> DEFINE n == Larger(FileHead, FirstFree * BlockSize)
<1>1. n \in Nat \ {0}
  BY MemoAssumption DEF Larger
<1>2. \A k \in 1..n : (IF k = 1 THEN Header(FirstFree, BlockSize) ELSE Zero) \in Cells
  BY MemoAssumption DEF Cells, Header
<1>3. disk \in Seq(Cells) /\ disk # <<>>
  <2>1. disk = [k \in 1..n |-> IF k = 1 THEN Header(FirstFree, BlockSize) ELSE Zero]
    OBVIOUS
  <2> HIDE DEF n, Init
  <2>2. disk \in [1..n -> Cells]
    <3> DEFINE cell(k) == IF k = 1 THEN Header(FirstFree, BlockSize) ELSE Zero
    <3>1. disk = [k \in 1..n |-> cell(k)] /\ \A k \in 1..n : cell(k) \in Cells
      BY <1>2, <2>1
    <3> HIDE DEF cell
    <3> QED
      BY <3>1
  <2>3. disk \in Seq(Cells) /\ Len(disk) = n
    BY <1>1, <2>2, CellsType
  <2> QED
    BY <1>1, <2>3
<1>4. NoMemo \in Memo
  BY NoMemoType
<1> QED
  BY <1>3, <1>4, MemoAssumption DEF TypeOK, AtRest, Writing, Critical

(* A memo that is overwritten, and nothing else than the handle moves.     *)
LEMMA DiskType ==
  ASSUME TypeOK, NEW cells \in Seq(Cells), disk' = Overwrite(disk, cursor, cells)
  PROVE  disk' \in Seq(Cells) /\ disk' # <<>>
<1>1. Len(disk) >= 1
  BY DEF TypeOK
<1>2. disk' \in Seq(Cells)
  BY OverwriteType DEF TypeOK
<1> DEFINE end == IF cells = <<>> THEN 0 ELSE cursor + Len(cells)
<1>3. Len(disk') = Larger(Len(disk), end)
  BY OverwriteType, Zenon DEF TypeOK
<1>4. end \in Nat /\ Len(disk) \in Nat
  BY DEF TypeOK
<1>5. Len(disk') >= Len(disk)
  <2> HIDE DEF end
  <2> QED
    BY <1>3, <1>4 DEF Larger
<1> QED
  BY <1>1, <1>2, <1>5

LEMMA ResultType ==
  ASSUME TypeOK, NEW w \in Rows, NEW v \in Memo \cup {Garbled, Err}, Result(w, v)
  PROVE  /\ val' \in [Rows -> Memo \cup {Garbled, Err}]
         /\ memoPos' \in [Rows -> Nat]
         /\ pc' \in [Rows -> Writing \cup Reading \cup AtRest]
         /\ \A u \in Rows : pc'[u] \in Writing \cup {"readData"} => val'[u] \in Memo
BY DEF TypeOK, Result, Goto, Writing, Critical, Reading, AtRest

(* What SetValue changes.                                                  *)
LEMMA SetValueFrame ==
  ASSUME NEW w \in Rows, SetValue(w)
  PROVE  /\ ops[w] < MaxOps /\ ops' = [ops EXCEPT ![w] = @ + 1]
         /\ acked' = [acked EXCEPT ![w] = None]
         /\ UNCHANGED <<file, memoPos, at, faults, extent>>
         /\ \E label \in {"lockRow", "begin"} : pc' = [pc EXCEPT ![w] = label]
         /\ \E len \in Lengths, sign \in Signs :
              val' = [val EXCEPT ![w] =
                        IF len = 0 THEN NoMemo
                        ELSE [by |-> w, n |-> ops[w] + 1, sign |-> sign, len |-> len]]
BY Zenon DEF SetValue, Goto

LEMMA NextType == TypeOK /\ [Next]_vars => TypeOK'
<1> SUFFICES ASSUME TypeOK, [Next]_vars PROVE TypeOK'
  OBVIOUS
<1> USE DEF TypeOK, file, local, hist
<1>0. MaxOps \in Nat /\ MaxFaults \in Nat /\ FileHead \in Nat /\ Signs \subseteq {0, 1}
      /\ NumRows \in Nat
  BY MemoAssumption
<1>1. ASSUME NEW w \in Rows, SetValue(w) PROVE TypeOK'
  <2>1. ops[w] < MaxOps /\ ops' = [ops EXCEPT ![w] = @ + 1]
        /\ acked' = [acked EXCEPT ![w] = None]
        /\ UNCHANGED <<file, memoPos, at, faults, extent>>
    BY <1>1, SetValueFrame, Zenon
  <2>2. ops[w] + 1 \in 0..MaxOps
    BY <1>0, <2>1, SMTT(30)
  <2>3. PICK len \in Lengths, sign \in Signs :
          val' = [val EXCEPT ![w] =
                    IF len = 0 THEN NoMemo
                    ELSE [by |-> w, n |-> ops[w] + 1, sign |-> sign, len |-> len]]
    BY <1>1, SetValueFrame, Zenon
  <2>4. [by |-> w, n |-> ops[w] + 1, sign |-> sign, len |-> len] \in Memo
    BY <2>2, <1>0 DEF Memo, Rows
  <2>5. PICK m \in Memo : val' = [val EXCEPT ![w] = m]
    BY <2>3, <2>4, NoMemoType
  <2>6. PICK label \in {"lockRow", "begin"} : pc' = [pc EXCEPT ![w] = label]
    BY <1>1, SetValueFrame, Zenon
  <2> QED
    BY <2>1, <2>2, <2>5, <2>6 DEF Writing, Critical, Reading
<1>22. ASSUME NEW w \in Rows, LockRow(w) PROVE TypeOK'
  BY <1>22 DEF LockRow, Goto, Writing, Critical, Reading
<1>2. ASSUME NEW w \in Rows, NoData(w) PROVE TypeOK'
  <2>1. PICK label \in {"store", "ret"} : pc' = [pc EXCEPT ![w] = label]
    BY <1>2 DEF NoData, Goto, After
  <2>2. pc[w] = "begin" /\ at' = [at EXCEPT ![w] = 0]
        /\ UNCHANGED <<file, memoPos, val, ops, faults, hist>>
    BY <1>2 DEF NoData
  <2> QED
    BY <2>1, <2>2 DEF Writing, Critical, Reading
<1>3. ASSUME NEW w \in Rows, Lock(w) PROVE TypeOK'
  BY <1>3 DEF Lock, Free, Goto, Writing, Critical, Reading
<1>4. ASSUME NEW w \in Rows, Place(w) PROVE TypeOK'
  <2>1. val[w].len \in Nat
    BY <1>4, MemoLen DEF Place, Writing, Critical
  <2>2. Blocks(val[w].len) \in Nat /\ next \in Nat
    BY <2>1, BlocksType
  <2>4. NextAfter(w) \in Nat
    BY <2>2 DEF NextAfter
  <2>3. Address(w) \in Nat
    BY DEF Address
  <2> QED
    BY <1>4, <2>4, <2>3 DEF Place, Goto, Writing, Critical, Reading
<1>5. ASSUME NEW w \in Rows, HdrWrite(w) PROVE TypeOK'
  <2>1. Blocks(val[w].len) \in Nat
    BY <1>5, MemoLen, BlocksType DEF HdrWrite, Writing, Critical
  <2>2. <<HeaderCell(w)>> \in Seq(Cells)
    BY HeaderCellType
  <2>3. disk' \in Seq(Cells) /\ disk' # <<>>
    BY <1>5, <2>2, DiskType DEF HdrWrite
  <2>4. /\ DOMAIN extent' \subseteq Nat
        /\ \A a \in DOMAIN extent' : extent'[a] \in [blocks : Nat, by : Rows]
    <3>1. extent' = IF IsNew(w)
                      THEN [a \in DOMAIN extent \cup {at[w]} |->
                              IF a = at[w] THEN [blocks |-> Blocks(val[w].len), by |-> w]
                              ELSE extent[a]]
                      ELSE extent
      BY <1>5 DEF HdrWrite
    <3>2. /\ at[w] \in Nat /\ DOMAIN extent \subseteq Nat
          /\ \A a \in DOMAIN extent : extent[a] \in [blocks : Nat, by : Rows]
      OBVIOUS
    <3> HIDE DEF TypeOK
    <3> QED
      BY <2>1, <3>1, <3>2
  <2>5. /\ cursor' \in Nat /\ pc' = [pc EXCEPT ![w] = "hdrPad"] /\ val[w] \in Memo
        /\ UNCHANGED <<dbaseMutex, memoMutex, next, size, rec, memoPos, val, at, ops, faults,
                       acked>>
    BY <1>5, SMTT(30) DEF HdrWrite, Goto, Writing, Critical
  <2> QED
    BY <2>3, <2>4, <2>5 DEF Goto, Writing, Critical, Reading
<1>6. ASSUME NEW w \in Rows, HdrPad(w) PROVE TypeOK'
  <2>1. Padding \in Seq(Cells) /\ Len(Padding) \in Nat
    BY PaddingType
  <2>2. disk' \in Seq(Cells) /\ disk' # <<>>
    BY <1>6, <2>1, DiskType DEF HdrPad
  <2>3. /\ pc[w] = "hdrPad" /\ pc' = [pc EXCEPT ![w] = "dataSeek"] /\ cursor' \in Nat
        /\ UNCHANGED <<dbaseMutex, memoMutex, next, size, rec, memoPos, val, at, ops, faults,
                       hist>>
    BY <1>6, <2>1 DEF HdrPad, Goto
  <2> QED
    BY <2>2, <2>3 DEF Writing, Critical, Reading
<1>7. ASSUME NEW w \in Rows, DataSeek(w) PROVE TypeOK'
  <2>1. Offset(at[w]) \in Nat
    BY SMTT(30) DEF Offset
  <2> QED
    BY <1>7, <2>1 DEF DataSeek, Goto, Writing, Critical, Reading
<1>8. ASSUME NEW w \in Rows, DataWrite(w) PROVE TypeOK'
  <2>1. Image(val[w]) \in Seq(Cells) /\ Len(Image(val[w])) \in Nat
    BY <1>8, ImageType DEF DataWrite, Writing, Critical
  <2>2. disk' \in Seq(Cells) /\ disk' # <<>>
    BY <1>8, <2>1, DiskType DEF DataWrite
  <2>3. PICK label \in {"store", "ret"} : pc' = [pc EXCEPT ![w] = label]
    BY <1>8 DEF DataWrite, Leave, Goto, After
  <2>4. /\ pc[w] = "dataWrite" /\ memoMutex' = None /\ cursor' \in Nat
        /\ UNCHANGED <<dbaseMutex, next, size, rec, memoPos, val, at, ops, faults, hist>>
    BY <1>8, <2>1 DEF DataWrite, Leave
  <2> QED
    BY <2>2, <2>3, <2>4 DEF Writing, Critical, Reading
<1>9. ASSUME NEW w \in Rows, Store(w) PROVE TypeOK'
  BY <1>9 DEF Store, Stored, Unlock, Goto, Writing, Critical, Reading
<1>10. ASSUME NEW w \in Rows, Return(w) PROVE TypeOK'
  BY <1>10 DEF Return, AtRest, Goto, Writing, Critical, Reading
<1>11. ASSUME NEW w \in Rows, ReadEmpty(w) PROVE TypeOK'
  BY <1>11, NoMemoType DEF ReadEmpty, AtRest, Goto, Writing, Critical, Reading
<1>12. ASSUME NEW w \in Rows, ReadBegin(w) PROVE TypeOK'
  BY <1>12 DEF ReadBegin, AtRest, Goto, Writing, Critical, Reading
<1>13. ASSUME NEW w \in Rows, ReadSeek(w) PROVE TypeOK'
  <2>1. Offset(at[w]) \in Nat
    BY SMTT(30) DEF Offset
  <2> QED
    BY <1>13, <2>1 DEF ReadSeek, Goto, Writing, Critical, Reading
<1>14. ASSUME NEW w \in Rows, ReadHead(w) PROVE TypeOK'
  <2>1. disk[cursor + 1] \in Cells
    BY <1>14 DEF ReadHead
  <2>2. disk[cursor + 1] \in [kind : {"head"}, memo : Memo]
    BY <1>14, <2>1 DEF ReadHead, Cells, Zero
  <2>3. disk[cursor + 1].memo \in Memo
    BY <2>2
  <2>4. /\ cursor' \in Nat /\ pc' = [pc EXCEPT ![w] = "readData"]
        /\ val' = [val EXCEPT ![w] = disk[cursor + 1].memo]
        /\ UNCHANGED <<dbaseMutex, memoMutex, next, size, disk, rec, memoPos, at, ops, faults,
                       hist>>
    BY <1>14 DEF ReadHead, Goto
  <2> QED
    BY <2>3, <2>4 DEF Goto, Writing, Critical, Reading
<1>15. ASSUME NEW w \in Rows, ReadNoHead(w) PROVE TypeOK'
  <2>1. PICK v \in Memo \cup {Garbled, Err} : Result(w, v)
    BY <1>15, NoMemoType DEF ReadNoHead
  <2>2. cursor' \in Nat
    BY <1>15 DEF ReadNoHead, Larger
  <2> QED
    BY <1>15, <2>1, <2>2, ResultType DEF ReadNoHead
<1>16. ASSUME NEW w \in Rows, ReadData(w) PROVE TypeOK'
  <2>1. val[w] \in Memo
    BY <1>16 DEF ReadData
  <2>2. PICK v \in Memo \cup {Garbled, Err} : Result(w, v)
    BY <1>16, <2>1 DEF ReadData
  <2>3. cursor' \in Nat
    BY <1>16, <2>1, MemoLen DEF ReadData, Larger
  <2> QED
    BY <1>16, <2>2, <2>3, ResultType, SMTT(30) DEF ReadData
<1>17. ASSUME NEW w \in Rows, Fail(w) PROVE TypeOK'
  BY <1>17, <1>0, SMTT(30) DEF Fail, Fault, Leave, Unlock, AtRest, Goto, Writing, Critical, Reading
<1>18. ASSUME NEW w \in Rows, StoreFail(w) PROVE TypeOK'
  BY <1>18, <1>0 DEF StoreFail, Fault, Unlock, AtRest, Goto, Writing, Critical, Reading
<1>19. ASSUME NEW w \in Rows, WriteFail(w) PROVE TypeOK'
  <2>1. Buffer(w) \in Seq(Cells)
    <3>1. CASE pc[w] = "hdrWrite"
      BY <3>1, HeaderCellType, SMTT(30) DEF Buffer
    <3>2. CASE pc[w] = "hdrPad"
      BY <3>2, PaddingType DEF Buffer
    <3>3. CASE pc[w] = "dataWrite"
      BY <3>3, ImageType DEF Buffer, Writing, Critical
    <3> QED
      BY <1>19, <3>1, <3>2, <3>3 DEF WriteFail
  <2>2. PICK k \in 0..(Len(Buffer(w)) - 1) :
          /\ disk' = Overwrite(disk, cursor, SubSeq(Buffer(w), 1, k))
          /\ cursor' = cursor + k
    BY <1>19 DEF WriteFail
  <2>3. SubSeq(Buffer(w), 1, k) \in Seq(Cells)
    BY <2>1, PartType
  <2>4. disk' \in Seq(Cells) /\ disk' # <<>>
    BY <2>2, <2>3, DiskType
  <2> QED
    <3>1. /\ pc' = [pc EXCEPT ![w] = "idle"] /\ memoMutex' = None
          /\ dbaseMutex' \in {None, dbaseMutex}
          /\ faults < MaxFaults /\ faults' = faults + 1
          /\ UNCHANGED <<next, size, rec, memoPos, val, at, ops, hist>>
      BY <1>19 DEF WriteFail, Fault, Leave, Unlock, Goto
    <3>2. faults' \in 0..MaxFaults
      BY <1>0, <3>1
    <3>3. k \in Nat /\ cursor \in Nat
      BY <2>1, <2>2
    <3>4. cursor' \in Nat
      BY <2>2, <3>3
    <3> QED
      BY <2>4, <3>1, <3>2, <3>4 DEF AtRest, Writing, Critical, Reading
<1>20. ASSUME Crash PROVE TypeOK'
  <2>1. NextOnDisk \in Nat /\ SizeOnDisk \in Nat
    BY OnDiskType
  <2>2. /\ dbaseMutex' = None /\ memoMutex' = None /\ next' = NextOnDisk /\ size' = SizeOnDisk
        /\ cursor' = 1 /\ pc' = [w \in Rows |-> "gone"]
        /\ faults < MaxFaults /\ faults' = faults + 1
        /\ UNCHANGED <<disk, rec, memoPos, val, at, ops, hist>>
    BY <1>20 DEF Crash, Fault
  <2>3. faults' \in 0..MaxFaults
    BY <1>0, <2>2
  <2> QED
    BY <2>1, <2>2, <2>3 DEF AtRest, Writing, Critical, Reading
<1>21. CASE UNCHANGED vars
  BY <1>21 DEF vars
<1> QED
  BY <1>1, <1>2, <1>3, <1>4, <1>5, <1>6, <1>7, <1>8, <1>9, <1>10, <1>11, <1>12, <1>13,
     <1>14, <1>15, <1>16, <1>17, <1>18, <1>19, <1>20, <1>21, <1>22 DEF Next, WriteSteps, ReadSteps

(* Every variable keeps its type, whatever the sizes and whatever fails.   *)
THEOREM TypeCorrect == Spec => []TypeOK
BY InitType, NextType, PTL DEF Spec
(***************************************************************************)
(* One WriteMemo at a time.                                                *)
(***************************************************************************)
LEMMA MutexGoto ==
  ASSUME TypeOK, MutexOK, NEW w \in Rows, NEW label, Goto(w, label),
         UNCHANGED <<memoMutex, dbaseMutex>>, pc[w] \in Critical <=> label \in Critical,
         label = "store" => dbaseMutex = w,
         dbaseMutex = w => label \in Critical \cup {"begin", "store"}
  PROVE  MutexOK'
BY DEF TypeOK, MutexOK, Goto

LEMMA MutexLeave ==
  ASSUME TypeOK, MutexOK, NEW w \in Rows, NEW label, Leave(w, label),
         pc[w] \in Critical, label \notin Critical,
         \/ dbaseMutex' = dbaseMutex /\ label = After(w)
         \/ Unlock(w) /\ label = "idle"
  PROVE  MutexOK'
BY ValuesAssumption DEF TypeOK, MutexOK, Leave, Goto, After, Unlock

LEMMA MutexStep == TypeOK /\ MutexOK /\ [Next]_vars => MutexOK'
<1> SUFFICES ASSUME TypeOK, MutexOK, [Next]_vars PROVE MutexOK'
  OBVIOUS
<1>1. ASSUME NEW w \in Rows,
             \/ SetValue(w) \/ Return(w)
             \/ ReadEmpty(w) \/ ReadBegin(w) \/ ReadSeek(w) \/ ReadHead(w)
      PROVE  MutexOK'
  <2>1. PICK label \in {"lockRow", "begin", "idle", "seen", "readSeek", "readHead", "readData"} :
          Goto(w, label)
    BY <1>1 DEF SetValue, Return, ReadEmpty, ReadBegin, ReadSeek, ReadHead
  <2>2. UNCHANGED <<memoMutex, dbaseMutex>> /\ pc[w] \notin Critical \cup {"begin", "store"}
    BY <1>1 DEF SetValue, Return, ReadEmpty, ReadBegin, ReadSeek, ReadHead, file, Critical,
                AtRest
  <2>3. dbaseMutex # w
    BY <2>2 DEF MutexOK
  <2> QED
    BY <2>1, <2>2, <2>3, MutexGoto DEF Critical
<1>8. ASSUME NEW w \in Rows, LockRow(w) PROVE MutexOK'
  BY <1>8, ValuesAssumption DEF LockRow, Goto, Critical, TypeOK, MutexOK
<1>9. ASSUME NEW w \in Rows, NoData(w) PROVE MutexOK'
  <2>1. UNCHANGED <<memoMutex, dbaseMutex>> /\ pc[w] \notin Critical /\ Goto(w, After(w))
    BY <1>9 DEF NoData, file, Critical
  <2>2. After(w) \notin Critical /\ (After(w) = "store" <=> dbaseMutex = w)
    BY DEF After, Critical
  <2> QED
    BY <2>1, <2>2, MutexGoto
<1>10. ASSUME NEW w \in Rows, Store(w) \/ StoreFail(w) PROVE MutexOK'
  <2>1. PICK label \in {"ret", "idle"} : Goto(w, label)
    BY <1>10 DEF Store, StoreFail
  <2>2. memoMutex' = memoMutex /\ pc[w] = "store" /\ Unlock(w)
    BY <1>10 DEF Store, StoreFail
  <2> QED
    BY <2>1, <2>2, ValuesAssumption DEF Goto, Unlock, Critical, TypeOK, MutexOK
<1>2. ASSUME NEW w \in Rows, ReadNoHead(w) \/ ReadData(w) PROVE MutexOK'
  <2>1. PICK label \in {"seen", "gone"} : Goto(w, label)
    BY <1>2 DEF ReadNoHead, ReadData, Result
  <2>2. UNCHANGED <<memoMutex, dbaseMutex>> /\ pc[w] \notin Critical /\ dbaseMutex # w
    BY <1>2 DEF ReadNoHead, ReadData, Critical, MutexOK
  <2> QED
    BY <2>1, <2>2, MutexGoto DEF Critical
<1>3. ASSUME NEW w \in Rows, Lock(w) PROVE MutexOK'
  BY <1>3, ValuesAssumption, SMTT(30) DEF Lock, Free, Goto, Critical, TypeOK, MutexOK
<1>4. ASSUME NEW w \in Rows, Place(w) \/ HdrWrite(w) \/ HdrPad(w) \/ DataSeek(w)
      PROVE  MutexOK'
  <2>1. PICK label \in Critical : Goto(w, label)
    BY <1>4 DEF Place, HdrWrite, HdrPad, DataSeek, Critical
  <2>2. UNCHANGED <<memoMutex, dbaseMutex>> /\ pc[w] \in Critical
    BY <1>4 DEF Place, HdrWrite, HdrPad, DataSeek, Critical
  <2>3. label # "store"
    BY <2>1 DEF Critical
  <2> QED
    BY <2>1, <2>2, <2>3, MutexGoto
<1>5. ASSUME NEW w \in Rows, DataWrite(w) \/ Fail(w) \/ WriteFail(w) PROVE MutexOK'
  <2>1. PICK label \in {"store", "ret", "idle"} :
          /\ Leave(w, label)
          /\ \/ dbaseMutex' = dbaseMutex /\ label = After(w)
             \/ Unlock(w) /\ label = "idle"
    BY <1>5 DEF DataWrite, Fail, WriteFail, After
  <2>2. pc[w] \in Critical
    BY <1>5 DEF DataWrite, Fail, WriteFail, Critical
  <2> QED
    BY <2>1, <2>2, MutexLeave DEF Critical
<1>6. ASSUME Crash PROVE MutexOK'
  BY <1>6, ValuesAssumption DEF Crash, MutexOK, Critical
<1>7. CASE UNCHANGED vars
  BY <1>7 DEF vars, file, local, MutexOK
<1> QED
  BY <1>1, <1>2, <1>3, <1>4, <1>5, <1>6, <1>7, <1>8, <1>9, <1>10
     DEF Next, WriteSteps, ReadSteps

(* WriteMemo and WriteRow are critical sections, and both mutexes are      *)
(* always given back, whatever else the program does and whatever fails.   *)
THEOREM MutualExclusion == Spec => []MutexOK
<1>1. Init => MutexOK
  BY ValuesAssumption DEF Init, MutexOK, Critical
<1> QED
  BY <1>1, InitType, NextType, MutexStep, PTL DEF Spec

(***************************************************************************)
(* Blocks.                                                                 *)
(***************************************************************************)
LEMMA Scaled ==
  ASSUME NEW a \in Nat, NEW n \in Nat, NEW b \in Nat, NEW s \in Nat, a + n <= b
  PROVE  a * s + n * s <= b * s
<1>1. PICK d \in Nat : b = a + n + d
  <2>1. b - (a + n) \in Nat /\ b = a + n + (b - (a + n))
    OBVIOUS
  <2> QED
    BY <2>1
<1>2. b * s = a * s + n * s + d * s
  BY <1>1
<1>3. d * s \in Nat /\ a * s \in Nat /\ n * s \in Nat
  OBVIOUS
<1> QED
  BY <1>2, <1>3

LEMMA Within ==
  \A p, q, n \in Nat : 1 + n <= q => \A k \in (p + 1)..(p + 1 + n) : k \in (p + 1)..(p + q)
OBVIOUS

LEMMA Apart ==
  \A p, q, c, n, k \in Nat : c + q <= p /\ n <= q /\ p < k => c + n < k
OBVIOUS

LEMMA Product == \A a, b \in Nat : a * b \in Nat
OBVIOUS

(* The blocks counted for a memo hold it, with its block header.           *)
LEMMA BlocksFit ==
  ASSUME Disciplined, size = BlockSize, NEW len \in Lengths \ {0}
  PROVE  Blocks(len) \in Nat \ {0} /\ 1 + len <= Blocks(len) * BlockSize
<1>1. len \in Nat /\ len > 0 /\ BlockSize \in Nat /\ BlockSize > 0
  BY MemoAssumption DEF Disciplined
<1>2. Blocks(len) = (len \div BlockSize) + (IF len % BlockSize > 0 THEN 1 ELSE 0)
  BY <1>1 DEF Blocks
<1>3. Blocks(len) \in Nat
  BY <1>1, BlocksType
<1>4. 1 + len <= Blocks(len) * BlockSize
  BY <1>1, <1>2 DEF Disciplined
<1>5. Blocks(len) # 0
  BY <1>1, <1>4
<1> QED
  BY <1>3, <1>4, <1>5

(* Nobody else writes or reads meanwhile.                                  *)
LEMMA Alone ==
  ASSUME MutexOK, QuietInv, NEW w \in Rows, pc[w] \in Critical \cup Reading,
         NEW u \in Rows, u # w
  PROVE  pc[u] \notin Critical /\ pc[u] \notin Reading
<1>1. CASE pc[w] \in Reading
  BY <1>1 DEF QuietInv, AtRest, Critical, Reading
<1>2. CASE pc[w] \in Critical
  <2>1. pc[u] \notin Critical
    BY <1>2 DEF MutexOK
  <2>2. pc[u] \notin Reading
    BY <1>2 DEF QuietInv, AtRest, Critical
  <2> QED
    BY <2>1, <2>2
<1> QED
  BY <1>1, <1>2

(***************************************************************************)
(* The invariant, part by part.                                            *)
(***************************************************************************)

(* A goroutine that is reading is alone: no call begins until it is done.  *)
LEMMA QuietStep ==
  ASSUME Disciplined, TypeOK, QuietInv, [Next]_vars
  PROVE  QuietInv'
<1>0. ~ReadsOverlap
  BY DEF Disciplined
<1> USE DEF TypeOK, QuietInv, Goto, AtRest, Reading
<1>1. ASSUME NEW w \in Rows, SetValue(w) PROVE QuietInv'
  <2>1. PICK label \in {"lockRow", "begin"} : pc' = [pc EXCEPT ![w] = label]
    BY <1>1 DEF SetValue
  <2>2. \A v \in Rows : pc[v] \notin Reading
    BY <1>0, <1>1 DEF SetValue, MayWrite
  <2> QED
    BY <2>1, <2>2
<1>2. ASSUME NEW w \in Rows, ReadEmpty(w) \/ ReadBegin(w) PROVE QuietInv'
  <2>1. PICK label \in {"seen", "readSeek"} : pc' = [pc EXCEPT ![w] = label]
    BY <1>2 DEF ReadEmpty, ReadBegin
  <2>2. \A v \in Rows \ {w} : pc[v] \in AtRest
    BY <1>0, <1>2 DEF ReadEmpty, ReadBegin, MayRead
  <2> QED
    BY <2>1, <2>2, SMTT(30)
<1>3. ASSUME NEW w \in Rows, ReadSeek(w) \/ ReadHead(w) PROVE QuietInv'
  <2>1. PICK label \in {"readHead", "readData"} : pc' = [pc EXCEPT ![w] = label]
    BY <1>3 DEF ReadSeek, ReadHead
  <2>2. pc[w] \in Reading
    BY <1>3 DEF ReadSeek, ReadHead
  <2> QED
    BY <2>1, <2>2, SMTT(30)
<1>4. ASSUME NEW w \in Rows, ReadNoHead(w) \/ ReadData(w) PROVE QuietInv'
  <2>1. PICK label \in {"seen", "gone"} : pc' = [pc EXCEPT ![w] = label]
    BY <1>4 DEF ReadNoHead, ReadData, Result
  <2>2. pc[w] \in Reading
    BY <1>4 DEF ReadNoHead, ReadData
  <2> QED
    BY <2>1, <2>2
<1>5. ASSUME NEW w \in Rows, Return(w) PROVE QuietInv'
  BY <1>5 DEF Return
<1>6. ASSUME NEW w \in Rows,
             \/ LockRow(w) \/ NoData(w) \/ Lock(w) \/ Place(w) \/ HdrWrite(w) \/ HdrPad(w)
             \/ DataSeek(w) \/ DataWrite(w) \/ Store(w)
             \/ Fail(w) \/ StoreFail(w) \/ WriteFail(w)
      PROVE  QuietInv'
  <2>1. PICK label \in {"begin", "place", "hdrWrite", "hdrPad", "dataSeek", "dataWrite",
                        "store", "ret", "idle"} : pc' = [pc EXCEPT ![w] = label]
    BY <1>6 DEF LockRow, NoData, Lock, Place, HdrWrite, HdrPad, DataSeek, DataWrite, Store,
                Fail, StoreFail, WriteFail, Leave, After
  <2>2. pc[w] \notin AtRest
    BY <1>6 DEF LockRow, NoData, Lock, Place, HdrWrite, HdrPad, DataSeek, DataWrite, Store,
                Fail, StoreFail, WriteFail
  <2> QED
    BY <2>1, <2>2
<1>7. ASSUME Crash PROVE QuietInv'
  BY <1>7 DEF Crash
<1>8. CASE UNCHANGED vars
  BY <1>8 DEF vars, local
<1> QED
  BY <1>1, <1>2, <1>3, <1>4, <1>5, <1>6, <1>7, <1>8 DEF Next, WriteSteps, ReadSteps

(* Whoever moves the handle is the only one that relies on it.             *)
LEMMA CursorStep ==
  ASSUME TypeOK, MutexOK, QuietInv, CursorInv, [Next]_vars
  PROVE  CursorInv'
<1> DEFINE Relying == {"hdrWrite", "hdrPad", "dataWrite", "readHead", "readData"}
<1>m. ASSUME NEW w \in Rows, NEW label, pc[w] \in Critical \cup Reading, Goto(w, label),
             /\ label = "hdrWrite"  => cursor' = 0
             /\ label = "hdrPad"    => cursor' = 1
             /\ label \in {"dataWrite", "readHead"} => cursor' = at'[w] * size'
             /\ label = "readData"  => cursor' = at'[w] * size' + 1
      PROVE  CursorInv'
  <2>1. pc'[w] = label /\ \A u \in Rows \ {w} : pc'[u] = pc[u]
    BY <1>m DEF Goto, TypeOK
  <2>2. \A u \in Rows \ {w} : pc[u] \notin Critical \cup Reading
    BY <1>m, Alone
  <2> QED
    BY <1>m, <2>1, <2>2 DEF CursorInv, Critical, Reading
<1>1. ASSUME NEW w \in Rows,
             \/ SetValue(w) \/ LockRow(w) \/ NoData(w) \/ Lock(w) \/ Store(w) \/ Return(w)
             \/ ReadEmpty(w) \/ ReadBegin(w) \/ StoreFail(w)
      PROVE  CursorInv'
  <2>1. UNCHANGED <<cursor, size>> /\ \A u \in Rows \ {w} : pc'[u] = pc[u] /\ at'[u] = at[u]
    BY <1>1 DEF SetValue, LockRow, NoData, After, Lock, Store, Return, ReadEmpty,
                ReadBegin, StoreFail,
                Goto, file, TypeOK
  <2>2. pc'[w] \notin Relying
    BY <1>1 DEF SetValue, LockRow, NoData, After, Lock, Store, Return, ReadEmpty,
                ReadBegin, StoreFail,
                Goto, TypeOK
  <2> QED
    BY <2>1, <2>2 DEF CursorInv
<1>2. ASSUME NEW w \in Rows, Place(w) PROVE CursorInv'
  BY <1>2, <1>m DEF Place, Critical
<1>3. ASSUME NEW w \in Rows, HdrWrite(w) PROVE CursorInv'
  <2>1. cursor' = 1
    BY <1>3 DEF HdrWrite, CursorInv
  <2> QED
    BY <1>3, <2>1, <1>m DEF HdrWrite, Critical
<1>4. ASSUME NEW w \in Rows, HdrPad(w) PROVE CursorInv'
  BY <1>4, <1>m DEF HdrPad, Critical
<1>5. ASSUME NEW w \in Rows, DataSeek(w) PROVE CursorInv'
  BY <1>5, <1>m DEF DataSeek, Offset, Critical
<1>6. ASSUME NEW w \in Rows, DataWrite(w) \/ Fail(w) \/ WriteFail(w) PROVE CursorInv'
  <2>1. PICK label \in {"store", "ret", "idle"} : Goto(w, label)
    BY <1>6 DEF DataWrite, Fail, WriteFail, Leave, After
  <2>2. pc[w] \in Critical
    BY <1>6 DEF DataWrite, Fail, WriteFail, Critical
  <2> QED
    BY <2>1, <2>2, <1>m
<1>7. ASSUME NEW w \in Rows, ReadSeek(w) PROVE CursorInv'
  BY <1>7, <1>m DEF ReadSeek, Offset, Reading
<1>8. ASSUME NEW w \in Rows, ReadHead(w) PROVE CursorInv'
  <2>1. cursor' = at'[w] * size' + 1
    BY <1>8 DEF ReadHead, CursorInv
  <2> QED
    BY <1>8, <2>1, <1>m DEF ReadHead, Reading
<1>9. ASSUME NEW w \in Rows, ReadNoHead(w) \/ ReadData(w) PROVE CursorInv'
  <2>1. PICK label \in {"seen", "gone"} : Goto(w, label)
    BY <1>9 DEF ReadNoHead, ReadData, Result
  <2>2. pc[w] \in Reading
    BY <1>9 DEF ReadNoHead, ReadData, Reading
  <2> QED
    BY <2>1, <2>2, <1>m
<1>10. ASSUME Crash PROVE CursorInv'
  BY <1>10 DEF Crash, CursorInv
<1>11. CASE UNCHANGED vars
  BY <1>11 DEF vars, file, local, CursorInv
<1> QED
  BY <1>1, <1>2, <1>3, <1>4, <1>5, <1>6, <1>7, <1>8, <1>9, <1>10, <1>11
     DEF Next, WriteSteps, ReadSteps

(* Blocks are behind the file header.                                      *)
LEMMA BehindHeader ==
  ASSUME Disciplined, TypeOK, HeaderInv, ExtentInv, NEW a \in DOMAIN extent
  PROVE  a \in Nat /\ FileHead <= a * size
<1>1. a \in Nat /\ FirstFree <= a
  BY DEF TypeOK, ExtentInv
<1>2. FirstFree \in Nat /\ BlockSize \in Nat /\ size = BlockSize /\ FileHead \in Nat
  BY MemoAssumption DEF HeaderInv
<1>3. FirstFree * BlockSize + 0 * BlockSize <= a * BlockSize
  <2>1. FirstFree + 0 <= a
    BY <1>1, <1>2
  <2> QED
    BY <1>1, <1>2, <2>1, Scaled
<1> QED
  BY <1>1, <1>2, <1>3 DEF Disciplined

(* What a step of WriteMemo writes stays within the file header, or within *)
(* the blocks of its own memo; only WriteMemoHeader writes the first cell. *)
LEMMA WriteArea ==
  ASSUME Disciplined, IInv, NEW w \in Rows,
         HdrWrite(w) \/ HdrPad(w) \/ DataWrite(w) \/ WriteFail(w)
  PROVE  \E cells \in Seq(Cells) :
           /\ disk' = Overwrite(disk, cursor, cells)
           /\ \/ cursor + Len(cells) <= FileHead
              \/ /\ pc[w] = "dataWrite"
                 /\ Len(cells) <= extent[at[w]].blocks * BlockSize
           /\ HdrWrite(w) \/ disk'[1] = disk[1]
<1> USE DEF IInv
<1>0. FileHead \in Nat \ {0} /\ BlockSize \in Nat /\ size = BlockSize
      /\ disk \in Seq(Cells) /\ Len(disk) >= 1 /\ cursor \in Nat
  BY MemoAssumption DEF HeaderInv, TypeOK
<1>1. ASSUME NEW cells \in Seq(Cells), disk' = Overwrite(disk, cursor, cells),
             cursor >= 1 \/ cells = <<>>
      PROVE  disk'[1] = disk[1]
  <2>1. 1 \in 1..Len(disk) /\ (1 <= cursor \/ cursor + Len(cells) < 1 \/ cells = <<>>)
    BY <1>0, <1>1
  <2>2. CASE 1 <= cursor
    BY <1>0, <1>1, <2>1, <2>2, OverwriteOutside
  <2>3. CASE cells = <<>> /\ cursor = 0
    <3>1. cursor + Len(cells) < 1
      BY <2>3
    <3> QED
      BY <1>0, <1>1, <2>1, <3>1, OverwriteOutside
  <2> QED
    BY <1>0, <1>1, <2>2, <2>3
<1>2. /\ pc[w] \in {"hdrWrite", "hdrPad", "dataWrite"}
      /\ pc[w] = "hdrWrite" => cursor = 0
      /\ pc[w] = "hdrPad" => cursor = 1
      /\ pc[w] = "dataWrite" => cursor = at[w] * size
  BY DEF HdrWrite, HdrPad, DataWrite, WriteFail, CursorInv
<1>3. ASSUME pc[w] = "dataWrite"
      PROVE  /\ Image(val[w]) \in Seq(Cells)
             /\ Len(Image(val[w])) <= extent[at[w]].blocks * BlockSize
             /\ cursor >= 1
  <2>1. Room(w, at[w], val[w]) /\ val[w] \in Memo
    BY <1>3 DEF AddressInv, TypeOK, Writing, Critical
  <2>2. extent[at[w]].blocks \in Nat /\ extent[at[w]].blocks >= 1
    BY <2>1 DEF Room, ExtentInv, TypeOK
  <2>3. 1 * BlockSize + 0 * BlockSize <= extent[at[w]].blocks * BlockSize
    BY <1>0, <2>2, Scaled
  <2>4. BlockSize <= extent[at[w]].blocks * BlockSize
    BY <1>0, <2>3
  <2>5. 1 + val[w].len <= extent[at[w]].blocks * BlockSize
    BY <2>1 DEF Room
  <2>6. Image(val[w]) \in Seq(Cells) /\ Len(Image(val[w])) = Larger(1 + val[w].len, size)
    BY <1>0, <2>1, ImageType
  <2>7. FileHead <= at[w] * size
    BY <2>1, BehindHeader DEF Room
  <2>8. at[w] * size \in Nat
    BY <1>0 DEF TypeOK
  <2> QED
    BY <1>0, <1>2, <1>3, <2>4, <2>5, <2>6, <2>7, <2>8, SMTT(30) DEF Larger
<1>4. CASE HdrWrite(w)
  <2>1. <<HeaderCell(w)>> \in Seq(Cells) /\ Len(<<HeaderCell(w)>>) = 1
    BY HeaderCellType
  <2>2. cursor + Len(<<HeaderCell(w)>>) <= FileHead
    BY <1>0, <1>2, <1>4, <2>1 DEF HdrWrite
  <2> QED
    BY <1>4, <2>1, <2>2 DEF HdrWrite
<1>5. CASE HdrPad(w)
  <2>1. Padding \in Seq(Cells) /\ Len(Padding) = FileHead - 1
    BY PaddingType
  <2>2. cursor = 1 /\ cursor + Len(Padding) <= FileHead
    BY <1>0, <1>2, <1>5, <2>1 DEF HdrPad
  <2>3. disk'[1] = disk[1]
    BY <1>1, <1>5, <2>1, <2>2 DEF HdrPad
  <2> QED
    BY <1>5, <2>1, <2>2, <2>3 DEF HdrPad
<1>6. CASE DataWrite(w)
  <2>1. pc[w] = "dataWrite" /\ disk' = Overwrite(disk, cursor, Image(val[w]))
    BY <1>6 DEF DataWrite
  <2> QED
    BY <1>1, <1>3, <2>1
<1>7. CASE WriteFail(w)
  <2>1. PICK k \in 0..(Len(Buffer(w)) - 1) :
          disk' = Overwrite(disk, cursor, SubSeq(Buffer(w), 1, k))
    BY <1>7 DEF WriteFail
  <2>2. CASE pc[w] = "hdrWrite"
    <3>1. Buffer(w) = <<HeaderCell(w)>> /\ k = 0 /\ cursor = 0
      BY <1>2, <2>1, <2>2 DEF Buffer
    <3>2. SubSeq(Buffer(w), 1, k) = <<>>
      BY <3>1
    <3>3. <<>> \in Seq(Cells) /\ Len(<<>>) = 0
      OBVIOUS
    <3>4. disk' = Overwrite(disk, cursor, <<>>)
      BY <2>1, <3>2
    <3>5. disk'[1] = disk[1]
      BY <1>1, <3>3, <3>4
    <3>6. cursor + Len(<<>>) <= FileHead
      BY <1>0, <3>1, <3>3
    <3> QED
      BY <3>3, <3>4, <3>5, <3>6
  <2>3. CASE pc[w] = "hdrPad"
    <3>1. Buffer(w) = Padding /\ cursor = 1
      BY <1>2, <2>3 DEF Buffer
    <3>2. Padding \in Seq(Cells) /\ Len(Padding) = FileHead - 1
      BY PaddingType
    <3>3. k \in 0..Len(Padding) /\ k <= FileHead - 1
      BY <1>0, <2>1, <3>1, <3>2
    <3>4. disk' = Overwrite(disk, cursor, SubSeq(Padding, 1, k))
      BY <2>1, <3>1
    <3>5. SubSeq(Padding, 1, k) \in Seq(Cells) /\ Len(SubSeq(Padding, 1, k)) = k
      BY <3>2, <3>3, PartType
    <3>6. cursor + Len(SubSeq(Padding, 1, k)) <= FileHead /\ cursor >= 1
      BY <1>0, <3>1, <3>3, <3>5
    <3>7. disk'[1] = disk[1]
      BY <1>1, <3>4, <3>5, <3>6
    <3> QED
      BY <3>4, <3>5, <3>6, <3>7
  <2>4. CASE pc[w] = "dataWrite"
    <3> DEFINE img == Image(val[w])
    <3>1. Buffer(w) = img
      BY <2>4 DEF Buffer
    <3>2. img \in Seq(Cells) /\ Len(img) <= extent[at[w]].blocks * BlockSize /\ cursor >= 1
      BY <1>3, <2>4
    <3>n. extent[at[w]].blocks * BlockSize \in Int
      <4>1. Room(w, at[w], val[w])
        BY <2>4 DEF AddressInv
      <4>2. extent[at[w]].blocks \in Nat
        BY <4>1 DEF Room, TypeOK
      <4> QED
        BY <1>0, <4>2
    <3> HIDE DEF img
    <3>3. k \in 0..Len(img) /\ disk' = Overwrite(disk, cursor, SubSeq(img, 1, k))
      BY <2>1, <3>1, <3>2
    <3>4. SubSeq(img, 1, k) \in Seq(Cells) /\ Len(SubSeq(img, 1, k)) = k
      BY <3>2, <3>3, PartType
    <3>5. disk'[1] = disk[1]
      BY <1>1, <3>2, <3>3, <3>4
    <3>6. Len(SubSeq(img, 1, k)) <= extent[at[w]].blocks * BlockSize
      BY <3>2, <3>3, <3>4, <3>n
    <3> QED
      BY <2>4, <3>3, <3>4, <3>5, <3>6
  <2> QED
    BY <1>2, <2>2, <2>3, <2>4
<1> QED
  BY <1>4, <1>5, <1>6, <1>7

(* Steps that leave the memo file alone.                                   *)
Elsewhere(w) ==
  \/ SetValue(w) \/ LockRow(w) \/ NoData(w) \/ Lock(w) \/ DataSeek(w) \/ Store(w)
  \/ Return(w) \/ ReadEmpty(w) \/ ReadBegin(w) \/ ReadSeek(w) \/ ReadHead(w) \/ ReadNoHead(w)
  \/ ReadData(w) \/ Fail(w) \/ StoreFail(w)

LEMMA ElsewhereFrame ==
  ASSUME NEW w \in Rows, Elsewhere(w)
  PROVE  UNCHANGED <<disk, size, next, extent>>
BY DEF Elsewhere, SetValue, LockRow, NoData, Lock, DataSeek, Store, Return, ReadEmpty, ReadBegin,
       ReadSeek, ReadHead, ReadNoHead, ReadData, Fail, StoreFail, file, hist

LEMMA NextCases ==
  ASSUME [Next]_vars
  PROVE  \/ \E w \in Rows : \/ Elsewhere(w) \/ Place(w) \/ HdrWrite(w) \/ HdrPad(w)
                            \/ DataWrite(w) \/ WriteFail(w)
         \/ Crash \/ UNCHANGED vars
BY DEF Next, WriteSteps, ReadSteps, Elsewhere

(* What is written over the first cell is the header in memory.            *)
LEMMA HeaderWritten ==
  ASSUME TypeOK, CursorInv, NEW w \in Rows, HdrWrite(w)
  PROVE  disk'[1] = Header(next, size)
<1>1. cursor = 0 /\ disk' = Overwrite(disk, cursor, <<HeaderCell(w)>>)
  BY DEF HdrWrite, CursorInv
<1>2. <<HeaderCell(w)>> \in Seq(Cells) /\ Len(<<HeaderCell(w)>>) = 1
      /\ <<HeaderCell(w)>>[1] = HeaderCell(w)
  BY HeaderCellType
<1>3. disk \in Seq(Cells) /\ 1 \in 1..Len(<<HeaderCell(w)>>) /\ cursor \in Nat
  BY <1>2 DEF TypeOK
<1>4. disk'[cursor + 1] = <<HeaderCell(w)>>[1]
  BY <1>1, <1>2, <1>3, OverwriteInside
<1> QED
  BY <1>1, <1>2, <1>4 DEF HeaderCell

(* What a new memo is about to get: blocks that nobody has.                *)
LEMMA NewBlocks ==
  ASSUME Disciplined, IInv, NEW w \in Rows, pc[w] \in {"place", "hdrWrite"}
  PROVE  /\ Blocks(val[w].len) \in Nat \ {0}
         /\ 1 + val[w].len <= Blocks(val[w].len) * BlockSize
<1>1. val[w].len \in Lengths \ {0} /\ size = BlockSize
  BY DEF IInv, AddressInv, HeaderInv, Critical
<1> QED
  BY <1>1, BlocksFit

LEMMA HeaderStep ==
  ASSUME Disciplined, IInv, TypeOK', [Next]_vars
  PROVE  HeaderInv'
<1> USE DEF HeaderInv
<1>0. HeaderInv /\ TypeOK /\ CursorInv
  BY DEF IInv
<1>1. Len(disk') >= 1
  BY DEF TypeOK
<1>2. disk[1].next \in Nat /\ next \in Nat /\ FirstFree \in Nat
  BY <1>0, MemoAssumption DEF TypeOK
<1>3. ASSUME NEW w \in Rows, Elsewhere(w) PROVE HeaderInv'
  BY <1>0, <1>3, ElsewhereFrame
<1>4. ASSUME NEW w \in Rows, Place(w) PROVE HeaderInv'
  <2>1. Blocks(val[w].len) \in Nat
    BY <1>4, NewBlocks DEF Place
  <2>2. next' >= next /\ next' \in Nat
    BY <1>2, <1>4, <2>1 DEF Place, NextAfter
  <2> QED
    BY <1>0, <1>2, <1>4, <2>2 DEF Place
<1>5. ASSUME NEW w \in Rows, HdrWrite(w) PROVE HeaderInv'
  <2>1. disk'[1] = [kind |-> "file", next |-> next, size |-> size]
    BY <1>0, <1>5, HeaderWritten DEF Header
  <2>2. UNCHANGED <<next, size>>
    BY <1>5 DEF HdrWrite
  <2> QED
    BY <1>0, <1>1, <1>2, <2>1, <2>2
<1>6. ASSUME NEW w \in Rows, HdrPad(w) \/ DataWrite(w) \/ WriteFail(w) PROVE HeaderInv'
  <2>1. ~HdrWrite(w)
    BY <1>6 DEF HdrWrite, HdrPad, DataWrite, WriteFail, Goto, Leave, TypeOK
  <2>2. disk'[1] = disk[1]
    BY <1>6, <2>1, WriteArea
  <2>3. UNCHANGED <<next, size>>
    BY <1>6 DEF HdrPad, DataWrite, WriteFail
  <2> QED
    BY <1>0, <1>1, <2>2, <2>3
<1>7. ASSUME Crash PROVE HeaderInv'
  BY <1>0, <1>2, <1>7 DEF Crash, NextOnDisk, SizeOnDisk
<1>8. CASE UNCHANGED vars
  BY <1>0, <1>8 DEF vars, file
<1> QED
  BY <1>3, <1>4, <1>5, <1>6, <1>7, <1>8, NextCases

(* A new memo is put behind the blocks that are counted on disk.           *)
LEMMA Reserved ==
  ASSUME Disciplined, IInv, NEW w \in Rows, HdrWrite(w), IsNew(w)
  PROVE  /\ at[w] \notin DOMAIN extent
         /\ disk[1].next <= at[w] /\ at[w] + Blocks(val[w].len) = next
         /\ extent'[at[w]] = [blocks |-> Blocks(val[w].len), by |-> w]
         /\ DOMAIN extent' = DOMAIN extent \cup {at[w]}
         /\ \A a \in DOMAIN extent : extent'[a] = extent[a]
<1>1. disk[1].next <= at[w] /\ at[w] + Blocks(val[w].len) = next
  BY DEF IInv, AddressInv, HdrWrite
<1>2. \A a \in DOMAIN extent : a \in Nat /\ extent[a].blocks \in Nat
                               /\ extent[a].blocks >= 1 /\ a + extent[a].blocks <= disk[1].next
  BY DEF IInv, ExtentInv, TypeOK
<1>3. disk[1].next \in Nat /\ at[w] \in Nat
  BY DEF IInv, HeaderInv, TypeOK
<1>4. at[w] \notin DOMAIN extent
  <2> SUFFICES ASSUME at[w] \in DOMAIN extent PROVE FALSE
    OBVIOUS
  <2>1. /\ extent[at[w]].blocks \in Nat /\ extent[at[w]].blocks >= 1
        /\ at[w] + extent[at[w]].blocks <= disk[1].next
    BY <1>2
  <2> QED
    BY <1>1, <1>3, <2>1
<1>5. extent' = [a \in DOMAIN extent \cup {at[w]} |->
                   IF a = at[w] THEN [blocks |-> Blocks(val[w].len), by |-> w]
                   ELSE extent[a]]
  BY DEF HdrWrite
<1> QED
  BY <1>1, <1>4, <1>5

LEMMA ExtentStep ==
  ASSUME Disciplined, IInv, [Next]_vars
  PROVE  ExtentInv'
<1>0. ExtentInv /\ HeaderInv /\ CursorInv /\ TypeOK
  BY DEF IInv
<1>1. disk[1].next \in Nat /\ disk[1].next <= next /\ next \in Nat /\ FirstFree \in Nat
      /\ FirstFree <= disk[1].next
  BY <1>0, MemoAssumption DEF HeaderInv, TypeOK
<1>2. \A a \in DOMAIN extent : a \in Nat /\ extent[a].blocks \in Nat
  BY <1>0 DEF TypeOK
<1>3. ASSUME UNCHANGED extent, disk'[1].next = disk[1].next PROVE ExtentInv'
  BY <1>0, <1>3 DEF ExtentInv
<1>4. ASSUME NEW w \in Rows, Elsewhere(w) PROVE ExtentInv'
  BY <1>3, <1>4, ElsewhereFrame
<1>5. ASSUME NEW w \in Rows, Place(w) PROVE ExtentInv'
  BY <1>3, <1>5 DEF Place, hist
<1>6. ASSUME NEW w \in Rows, HdrWrite(w) PROVE ExtentInv'
  <2>1. disk'[1].next = next
    BY <1>0, <1>6, HeaderWritten DEF Header
  <2>2. CASE ~IsNew(w)
    <3>1. UNCHANGED extent
      BY <1>6, <2>2 DEF HdrWrite
    <3> QED
      BY <1>0, <1>1, <1>2, <2>1, <3>1 DEF ExtentInv
  <2>3. CASE IsNew(w)
    <3>1. /\ disk[1].next <= at[w] /\ at[w] + Blocks(val[w].len) = next
          /\ extent'[at[w]] = [blocks |-> Blocks(val[w].len), by |-> w]
          /\ DOMAIN extent' = DOMAIN extent \cup {at[w]}
          /\ \A a \in DOMAIN extent : extent'[a] = extent[a]
          /\ at[w] \notin DOMAIN extent
      BY <1>6, <2>3, Reserved
    <3>2. Blocks(val[w].len) \in Nat \ {0} /\ at[w] \in Nat
      BY <1>0, <1>6, NewBlocks DEF HdrWrite, TypeOK
    <3>3. extent'[at[w]].blocks = Blocks(val[w].len)
      BY <3>1
    <3>4. ASSUME NEW a \in DOMAIN extent
          PROVE  /\ FirstFree <= a /\ extent'[a].blocks >= 1 /\ a < at[w]
                 /\ a + extent'[a].blocks <= at[w]
                 /\ a + extent'[a].blocks <= disk'[1].next
                 /\ \A b \in DOMAIN extent : a < b => a + extent'[a].blocks <= b
      <4>1. /\ FirstFree <= a /\ extent[a].blocks >= 1
            /\ a + extent[a].blocks <= disk[1].next
            /\ \A b \in DOMAIN extent : a < b => a + extent[a].blocks <= b
        BY <1>0 DEF ExtentInv
      <4>2. extent'[a] = extent[a] /\ a \in Nat /\ extent[a].blocks \in Nat
        BY <1>2, <3>1
      <4> QED
        BY <1>1, <2>1, <3>1, <3>2, <4>1, <4>2
    <3>5. /\ FirstFree <= at[w] /\ extent'[at[w]].blocks >= 1
          /\ at[w] + extent'[at[w]].blocks <= disk'[1].next
      BY <1>1, <2>1, <3>1, <3>2, <3>3
    <3>6. \A b \in DOMAIN extent' : ~(at[w] < b)
      BY <1>2, <3>1, <3>2, <3>4
    <3> QED
      BY <3>1, <3>4, <3>5, <3>6 DEF ExtentInv
  <2> QED
    BY <2>2, <2>3
<1>7. ASSUME NEW w \in Rows, HdrPad(w) \/ DataWrite(w) \/ WriteFail(w) PROVE ExtentInv'
  <2>1. ~HdrWrite(w)
    BY <1>0, <1>7 DEF HdrWrite, HdrPad, DataWrite, WriteFail, Goto, Leave, TypeOK
  <2>2. disk'[1] = disk[1]
    BY <1>7, <2>1, WriteArea
  <2>3. UNCHANGED extent
    BY <1>7 DEF HdrPad, DataWrite, WriteFail, hist
  <2> QED
    BY <1>3, <2>2, <2>3
<1>8. ASSUME Crash PROVE ExtentInv'
  BY <1>3, <1>8 DEF Crash, hist
<1>9. CASE UNCHANGED vars
  BY <1>3, <1>9 DEF vars, file, hist
<1> QED
  BY <1>4, <1>5, <1>6, <1>7, <1>8, <1>9, NextCases

(* A step of one goroutine.                                                *)
Step(w) == \/ Elsewhere(w) \/ Place(w) \/ HdrWrite(w) \/ HdrPad(w)
           \/ DataWrite(w) \/ WriteFail(w)

(* What it does to the others: nothing of theirs changes.                  *)
LEMMA OthersFrame ==
  ASSUME TypeOK, NEW w \in Rows, Step(w), NEW u \in Rows, u # w
  PROVE  /\ pc'[u] = pc[u] /\ val'[u] = val[u] /\ at'[u] = at[u]
         /\ memoPos'[u] = memoPos[u] /\ rec'[u] = rec[u] /\ acked'[u] = acked[u]
<1> USE DEF TypeOK, Goto, Leave, file, hist
<1>1. CASE SetValue(w) \/ LockRow(w) \/ NoData(w) \/ Lock(w) \/ DataSeek(w) \/ Store(w) \/ Return(w)
  BY <1>1 DEF SetValue, LockRow, NoData, Lock, DataSeek, Store, Return
<1>2. CASE ReadEmpty(w) \/ ReadBegin(w) \/ ReadSeek(w) \/ ReadHead(w)
  BY <1>2 DEF ReadEmpty, ReadBegin, ReadSeek, ReadHead
<1>3. CASE ReadNoHead(w) \/ ReadData(w)
  <2>1. PICK v : Result(w, v)
    BY <1>3 DEF ReadNoHead, ReadData
  <2>2. UNCHANGED <<at, rec, acked>>
    BY <1>3 DEF ReadNoHead, ReadData
  <2> QED
    BY <2>1, <2>2 DEF Result
<1>4. CASE Fail(w) \/ StoreFail(w) \/ Place(w) \/ HdrPad(w) \/ DataWrite(w) \/ WriteFail(w)
  BY <1>4 DEF Fail, StoreFail, Place, HdrPad, DataWrite, WriteFail
<1>5. CASE HdrWrite(w)
  BY <1>5 DEF HdrWrite
<1> QED
  BY <1>1, <1>2, <1>3, <1>4, <1>5 DEF Step, Elsewhere

(* Blocks that were reserved stay reserved.                                *)
LEMMA ExtentsKept ==
  ASSUME Disciplined, IInv, NEW w \in Rows, Step(w)
  PROVE  \A a \in DOMAIN extent : a \in DOMAIN extent' /\ extent'[a] = extent[a]
<1>1. CASE HdrWrite(w) /\ IsNew(w)
  BY <1>1, Reserved
<1>2. CASE ~(HdrWrite(w) /\ IsNew(w))
  <2>1. UNCHANGED extent
    BY <1>2, ElsewhereFrame DEF Step, Place, HdrWrite, HdrPad, DataWrite, WriteFail, hist
  <2> QED
    BY <2>1
<1> QED
  BY <1>1, <1>2

LEMMA RoomKept ==
  ASSUME Disciplined, IInv, NEW w \in Rows, Step(w), NEW u, NEW a, NEW m, Room(u, a, m)
  PROVE  Room(u, a, m)'
BY ExtentsKept DEF Room

(* AddressInv for one row.                                                 *)
AddressRow(w) ==
  /\ rec[w] # 0 => rec[w] \in DOMAIN extent /\ extent[rec[w]].by = w
  /\ memoPos[w] # 0 => memoPos[w] \in DOMAIN extent /\ extent[memoPos[w]].by = w
  /\ pc[w] \in Critical => val[w].len \in Lengths \ {0}
  /\ pc[w] \in Critical \cup {"lockRow", "begin"} /\ val[w].len # 0 /\ ~IsNew(w)
       => Room(w, memoPos[w], val[w])
  /\ pc[w] \in {"hdrWrite", "hdrPad", "dataSeek", "dataWrite"} /\ ~IsNew(w)
       => at[w] = memoPos[w]
  /\ pc[w] = "hdrWrite" /\ IsNew(w)
       => disk[1].next <= at[w] /\ at[w] + Blocks(val[w].len) = next
  /\ pc[w] \in {"hdrPad", "dataSeek", "dataWrite"} => Room(w, at[w], val[w])
  /\ pc[w] \in {"readSeek", "readHead", "readData"} => at[w] = rec[w] /\ rec[w] # 0

LEMMA AddressRows == AddressInv <=> \A w \in Rows : AddressRow(w)
BY DEF AddressInv, AddressRow

LEMMA OthersAddress ==
  ASSUME Disciplined, IInv, NEW w \in Rows, Step(w), NEW u \in Rows, u # w
  PROVE  AddressRow(u)'
<1>1. AddressRow(u) /\ TypeOK
  BY AddressRows DEF IInv
<1>2. /\ pc'[u] = pc[u] /\ val'[u] = val[u] /\ at'[u] = at[u]
      /\ memoPos'[u] = memoPos[u] /\ rec'[u] = rec[u]
  BY <1>1, OthersFrame
<1>3. \A a \in DOMAIN extent : a \in DOMAIN extent' /\ extent'[a] = extent[a]
  BY ExtentsKept
<1>4. pc[u] \in Critical => UNCHANGED <<disk, size, next>>
  <2> SUFFICES ASSUME pc[u] \in Critical PROVE Elsewhere(w)
    BY ElsewhereFrame
  <2>1. pc[w] \notin Critical
    BY Alone DEF IInv
  <2> QED
    BY <2>1 DEF Step, Place, HdrWrite, HdrPad, DataWrite, WriteFail, Critical
<1>5. ASSUME NEW a, Room(u, a, val[u]) PROVE Room(u, a, val[u])'
  BY <1>3, <1>5, <1>2 DEF Room
<1>6. pc[u] = "hdrWrite" /\ IsNew(u)
        => disk'[1].next <= at[u] /\ at[u] + Blocks(val[u].len)' = next'
  <2> SUFFICES ASSUME pc[u] = "hdrWrite", IsNew(u)
               PROVE  disk'[1].next <= at[u] /\ at[u] + Blocks(val[u].len)' = next'
    OBVIOUS
  <2>1. UNCHANGED <<disk, size, next>>
    BY <1>4 DEF Critical
  <2>2. Blocks(val[u].len)' = Blocks(val[u].len)
    BY <1>2, <2>1 DEF Blocks
  <2> QED
    BY <1>1, <2>1, <2>2 DEF AddressRow
<1> QED
  BY <1>1, <1>2, <1>3, <1>5, <1>6 DEF AddressRow, IsNew, Room

LEMMA AddressStep ==
  ASSUME Disciplined, IInv, [Next]_vars
  PROVE  AddressInv'
<1>t. TypeOK
  BY DEF IInv
<1>w. ASSUME NEW w \in Rows, Step(w), AddressRow(w)' PROVE AddressInv'
  <2>1. \A u \in Rows : AddressRow(u)'
    BY <1>w, OthersAddress
  <2> QED
    BY <2>1 DEF AddressInv, AddressRow
<1>r. ASSUME NEW w \in Rows PROVE AddressRow(w)
  BY AddressRows DEF IInv
<1>1. ASSUME NEW w \in Rows, SetValue(w) PROVE AddressRow(w)'
  <2>1. PICK len \in Lengths, sign \in Signs :
          /\ Fits(w, len)
          /\ val' = [val EXCEPT ![w] =
                       IF len = 0 THEN NoMemo
                       ELSE [by |-> w, n |-> ops[w] + 1, sign |-> sign, len |-> len]]
    BY <1>1 DEF SetValue, Disciplined
  <2>2. pc'[w] \in {"lockRow", "begin"} /\ UNCHANGED <<rec, memoPos, extent, size, next, disk>>
    BY <1>1, <1>t DEF SetValue, Goto, file, TypeOK
  <2>3. val'[w].len = len
    BY <1>t, <2>1 DEF NoMemo, TypeOK
  <2>4. ASSUME len # 0, memoPos[w] # 0 PROVE 1 + len <= extent[memoPos[w]].blocks * BlockSize
    <3>1. size = BlockSize /\ BlockSize \in Nat
      BY MemoAssumption DEF IInv, HeaderInv
    <3>2. Blocks(len) \in Nat /\ 1 + len <= Blocks(len) * BlockSize /\ len \in Nat
      BY <2>4, <3>1, BlocksFit, MemoAssumption
    <3>3. Blocks(len) <= extent[memoPos[w]].blocks
      BY <2>1, <2>4 DEF Fits
    <3>4. extent[memoPos[w]].blocks \in Nat
      BY <1>r, <1>t, <2>4 DEF AddressRow, TypeOK
    <3>5. Blocks(len) * BlockSize + 0 * BlockSize <= extent[memoPos[w]].blocks * BlockSize
      BY <3>1, <3>2, <3>3, <3>4, Scaled
    <3>6. Blocks(len) * BlockSize \in Nat /\ extent[memoPos[w]].blocks * BlockSize \in Nat
      BY <3>1, <3>2, <3>4
    <3>7. 0 * BlockSize = 0
      BY <3>1
    <3>8. Blocks(len) * BlockSize <= extent[memoPos[w]].blocks * BlockSize
      BY <3>5, <3>6, <3>7
    <3> QED
      BY <3>2, <3>6, <3>8
  <2> QED
    BY <1>r, <2>2, <2>3, <2>4 DEF AddressRow, IsNew, Room, Critical
<1>2. ASSUME NEW w \in Rows, NoData(w) \/ Return(w) \/ StoreFail(w) \/ Fail(w)
                             \/ DataWrite(w) \/ WriteFail(w)
      PROVE  AddressRow(w)'
  <2>1. pc'[w] \in {"store", "ret", "idle"}
    BY <1>2, <1>t DEF NoData, After, Return, StoreFail, Fail, DataWrite, WriteFail, Goto,
                      Leave, TypeOK
  <2>2. UNCHANGED <<rec, memoPos, extent>>
    BY <1>2 DEF NoData, Return, StoreFail, Fail, DataWrite, WriteFail, file, hist
  <2> QED
    BY <1>r, <2>1, <2>2 DEF AddressRow, Critical
<1>14. ASSUME NEW w \in Rows, LockRow(w) PROVE AddressRow(w)'
  <2>1. pc'[w] = "begin" /\ pc[w] = "lockRow" /\ UNCHANGED <<rec, memoPos, extent, val>>
    BY <1>14, <1>t DEF LockRow, Goto, TypeOK, hist
  <2> QED
    BY <1>r, <2>1 DEF AddressRow, IsNew, Room, Critical
<1>3. ASSUME NEW w \in Rows, Lock(w) PROVE AddressRow(w)'
  <2>1. val[w].len \in Lengths \ {0}
    BY <1>3, <1>t, MemoLen DEF Lock, TypeOK, Writing
  <2>2. pc'[w] = "place" /\ pc[w] = "begin" /\ UNCHANGED <<rec, memoPos, extent, val>>
    BY <1>3, <1>t DEF Lock, Goto, TypeOK, hist
  <2> QED
    BY <1>r, <2>1, <2>2 DEF AddressRow, IsNew, Room
<1>4. ASSUME NEW w \in Rows, Place(w) PROVE AddressRow(w)'
  <2>1. /\ pc'[w] = "hdrWrite" /\ pc[w] = "place" /\ at'[w] = Address(w)
        /\ next' = NextAfter(w) /\ UNCHANGED <<rec, memoPos, extent, val, size, disk>>
    BY <1>4, <1>t DEF Place, Goto, TypeOK, hist
  <2>2. disk[1].next <= next
    BY DEF IInv, HeaderInv
  <2>3. Blocks(val[w].len)' = Blocks(val[w].len)
    BY <2>1 DEF Blocks
  <2> QED
    BY <1>r, <2>1, <2>2, <2>3 DEF AddressRow, IsNew, Room, Address, NextAfter, Critical
<1>5. ASSUME NEW w \in Rows, HdrWrite(w) PROVE AddressRow(w)'
  <2>1. /\ pc'[w] = "hdrPad" /\ pc[w] = "hdrWrite"
        /\ UNCHANGED <<rec, memoPos, val, at, size>>
    BY <1>5, <1>t DEF HdrWrite, Goto, TypeOK
  <2>2. \A a \in DOMAIN extent : a \in DOMAIN extent' /\ extent'[a] = extent[a]
    BY <1>5, ExtentsKept DEF Step
  <2>3. Room(w, at[w], val[w])'
    <3>1. CASE IsNew(w)
      <4>1. /\ extent'[at[w]] = [blocks |-> Blocks(val[w].len), by |-> w]
            /\ at[w] \in DOMAIN extent'
        BY <1>5, <3>1, Reserved
      <4>2. 1 + val[w].len <= Blocks(val[w].len) * BlockSize
        BY <2>1, NewBlocks
      <4> QED
        BY <2>1, <4>1, <4>2 DEF Room
    <3>2. CASE ~IsNew(w)
      <4>1. val[w].len # 0
        BY <1>r, <2>1 DEF AddressRow, Critical
      <4>2. at[w] = memoPos[w] /\ Room(w, memoPos[w], val[w])
        BY <1>r, <2>1, <3>2, <4>1 DEF AddressRow, Critical
      <4> QED
        BY <2>1, <2>2, <4>2 DEF Room
    <3> QED
      BY <3>1, <3>2
  <2> QED
    BY <1>r, <2>1, <2>2, <2>3 DEF AddressRow, IsNew, Room, Critical
<1>6. ASSUME NEW w \in Rows, HdrPad(w) \/ DataSeek(w) PROVE AddressRow(w)'
  <2>1. /\ pc'[w] \in {"dataSeek", "dataWrite"} /\ pc[w] \in {"hdrPad", "dataSeek"}
        /\ UNCHANGED <<rec, memoPos, val, at, size, extent>>
    BY <1>6, <1>t DEF HdrPad, DataSeek, Goto, TypeOK, hist
  <2> QED
    BY <1>r, <2>1 DEF AddressRow, IsNew, Room, Critical
<1>7. ASSUME NEW w \in Rows, Store(w) PROVE AddressRow(w)'
  <2>1. at[w] # 0 => Room(w, at[w], val[w])
    BY <1>7 DEF Store, IInv, ContentInv
  <2>2. pc'[w] = "ret" /\ rec'[w] = at[w] /\ UNCHANGED <<memoPos, extent>>
    BY <1>7, <1>t DEF Store, Stored, Goto, TypeOK
  <2> QED
    BY <1>r, <2>1, <2>2 DEF AddressRow, Room, Critical
<1>8. ASSUME NEW w \in Rows, ReadEmpty(w) PROVE AddressRow(w)'
  <2>1. pc'[w] = "seen" /\ memoPos'[w] = 0 /\ UNCHANGED <<rec, extent>>
    BY <1>8, <1>t DEF ReadEmpty, Goto, TypeOK, file, hist
  <2> QED
    BY <1>r, <2>1 DEF AddressRow, Critical
<1>9. ASSUME NEW w \in Rows, ReadBegin(w) PROVE AddressRow(w)'
  <2>1. pc'[w] = "readSeek" /\ at'[w] = rec[w] /\ rec[w] # 0 /\ UNCHANGED <<rec, memoPos, extent>>
    BY <1>9, <1>t DEF ReadBegin, Goto, TypeOK, file, hist
  <2> QED
    BY <1>r, <2>1 DEF AddressRow, Critical
<1>10. ASSUME NEW w \in Rows, ReadSeek(w) \/ ReadHead(w) PROVE AddressRow(w)'
  <2>1. /\ pc'[w] \in {"readHead", "readData"} /\ pc[w] \in {"readSeek", "readHead"}
        /\ UNCHANGED <<rec, memoPos, extent, at>>
    BY <1>10, <1>t DEF ReadSeek, ReadHead, Goto, TypeOK, hist
  <2> QED
    BY <1>r, <2>1 DEF AddressRow, Critical
<1>11. ASSUME NEW w \in Rows, ReadNoHead(w) \/ ReadData(w) PROVE AddressRow(w)'
  <2>1. PICK v : Result(w, v)
    BY <1>11 DEF ReadNoHead, ReadData
  <2>2. pc[w] \in {"readHead", "readData"} /\ UNCHANGED <<rec, extent, at>>
    BY <1>11 DEF ReadNoHead, ReadData, hist
  <2>3. pc'[w] \in {"seen", "gone"} /\ memoPos'[w] \in {memoPos[w], rec[w]}
    BY <1>r, <1>t, <2>1, <2>2 DEF Result, Goto, AddressRow, TypeOK
  <2> QED
    BY <1>r, <2>2, <2>3 DEF AddressRow, Critical
<1>12. ASSUME Crash PROVE AddressInv'
  <2>1. \A w \in Rows : pc'[w] = "gone"
    BY <1>12 DEF Crash
  <2>2. UNCHANGED <<rec, memoPos, extent>>
    BY <1>12 DEF Crash, hist
  <2>3. \A w \in Rows : AddressRow(w)'
    BY <1>r, <2>1, <2>2 DEF AddressRow, Critical
  <2> QED
    BY <2>3 DEF AddressInv, AddressRow
<1>13. CASE UNCHANGED vars
  BY <1>13 DEF vars, file, local, hist, IInv, AddressInv, Room, Blocks, IsNew
<1> QED
  BY <1>w, <1>1, <1>2, <1>3, <1>4, <1>5, <1>6, <1>7, <1>8, <1>9, <1>10, <1>11, <1>12, <1>13, <1>14,
     NextCases DEF Step, Elsewhere

(* Cells that a write adds to the file without being given are zeros.      *)
LEMMA OverwriteGap ==
  ASSUME NEW s \in Seq(Cells), NEW offset \in Nat, NEW cells \in Seq(Cells), NEW k \in Nat,
         Len(s) < k, k <= Len(Overwrite(s, offset, cells)), k <= offset \/ offset + Len(cells) < k
  PROVE  Overwrite(s, offset, cells)[k] = Zero
<1> DEFINE n == Larger(Len(s), IF cells = <<>> THEN 0 ELSE offset + Len(cells))
<1>1. Len(Overwrite(s, offset, cells)) = n
  BY OverwriteType, Zenon
<1>2. Overwrite(s, offset, cells)
        = [j \in 1..n |-> IF offset < j /\ j <= offset + Len(cells) THEN cells[j - offset]
                          ELSE IF j <= Len(s) THEN s[j] ELSE Zero]
  BY Zenon DEF Overwrite
<1>3. n \in Nat
  BY DEF Larger
<1> HIDE DEF n
<1>4. k \in 1..n /\ ~(offset < k /\ k <= offset + Len(cells)) /\ ~(k <= Len(s))
  BY <1>1, <1>3
<1> QED
  BY <1>2, <1>4

(* No step touches the blocks of a memo but the one that writes it.        *)
LEMMA BlocksKept ==
  ASSUME Disciplined, IInv, NEW w \in Rows, Step(w), NEW a \in DOMAIN extent,
         pc[w] = "dataWrite" => at[w] # a,
         NEW k \in (a * size + 1)..(a * size + extent[a].blocks * size)
  PROVE  IF k <= Len(disk) THEN k <= Len(disk') /\ disk'[k] = disk[k]
         ELSE k <= Len(disk') => disk'[k] = Zero
<1>0. /\ TypeOK /\ ExtentInv /\ HeaderInv /\ CursorInv /\ size = BlockSize
      /\ BlockSize \in Nat /\ FileHead \in Nat /\ cursor \in Nat /\ size \in Nat
      /\ disk \in Seq(Cells)
  BY MemoAssumption DEF IInv, HeaderInv, TypeOK
<1>1. a \in Nat /\ FileHead <= a * size /\ extent[a].blocks \in Nat
  BY <1>0, BehindHeader DEF TypeOK
<1>2. a * size \in Nat /\ extent[a].blocks * size \in Nat
  BY <1>0, <1>1, Product, Zenon
<1>k. k \in Nat /\ a * size < k /\ k <= a * size + extent[a].blocks * size
  BY <1>2
<1>3. CASE Elsewhere(w) \/ Place(w)
  <2>1. UNCHANGED disk
    BY <1>3, ElsewhereFrame DEF Place
  <2> QED
    BY <2>1
<1>4. CASE HdrWrite(w) \/ HdrPad(w) \/ DataWrite(w) \/ WriteFail(w)
  <2>1. PICK cells \in Seq(Cells) :
          /\ disk' = Overwrite(disk, cursor, cells)
          /\ \/ cursor + Len(cells) <= FileHead
             \/ pc[w] = "dataWrite" /\ Len(cells) <= extent[at[w]].blocks * BlockSize
    BY <1>4, WriteArea
  <2>3. Len(cells) \in Nat
    OBVIOUS
  <2>4. k <= cursor \/ cursor + Len(cells) < k
    <3>1. CASE cursor + Len(cells) <= FileHead
      BY <1>0, <1>1, <1>2, <1>k, <2>3, <3>1
    <3>2. CASE pc[w] = "dataWrite" /\ Len(cells) <= extent[at[w]].blocks * BlockSize
      <4>1. Room(w, at[w], val[w]) /\ cursor = at[w] * size
        BY <1>0, <3>2 DEF IInv, AddressInv, CursorInv
      <4>2. at[w] \in DOMAIN extent /\ at[w] \in Nat /\ extent[at[w]].blocks \in Nat
        BY <1>0, <4>1 DEF Room, TypeOK
      <4>3. extent[at[w]].blocks * size \in Nat /\ Len(cells) <= extent[at[w]].blocks * size
        BY <1>0, <3>2, <4>2, Product, Zenon
      <4>4. CASE a < at[w]
        <5>1. a + extent[a].blocks <= at[w]
          BY <1>0, <4>2, <4>4 DEF ExtentInv
        <5>2. a * size + extent[a].blocks * size <= cursor
          BY <1>0, <1>1, <4>1, <4>2, <5>1, Scaled
        <5> QED
          BY <1>0, <1>2, <1>k, <5>2
      <4>5. CASE at[w] < a
        <5>1. at[w] + extent[at[w]].blocks <= a
          BY <1>0, <4>2, <4>5 DEF ExtentInv
        <5>2. cursor + extent[at[w]].blocks * size <= a * size
          BY <1>0, <1>1, <4>1, <4>2, <5>1, Scaled
        <5> QED
          BY <1>0, <1>2, <1>k, <2>3, <4>3, <5>2, Apart
      <4> QED
        BY <1>1, <3>2, <4>2, <4>4, <4>5
    <3> QED
      BY <2>1, <3>1, <3>2
  <2>5. CASE k <= Len(disk)
    <3>1. k \in 1..Len(disk)
      BY <1>k, <1>2, <2>5
    <3>2. /\ k <= Len(Overwrite(disk, cursor, cells))
          /\ Overwrite(disk, cursor, cells)[k] = disk[k]
      BY <1>0, <2>4, <3>1, OverwriteOutside, Zenon
    <3> QED
      BY <2>1, <2>5, <3>2
  <2>6. CASE ~(k <= Len(disk)) /\ k <= Len(disk')
    <3>1. k <= Len(Overwrite(disk, cursor, cells)) /\ Len(disk) < k
      BY <1>k, <2>1, <2>6, <1>0
    <3>2. Overwrite(disk, cursor, cells)[k] = Zero
      BY <1>0, <1>k, <2>4, <3>1, OverwriteGap
    <3> QED
      BY <2>1, <2>6, <3>2
  <2> QED
    BY <2>5, <2>6
<1> QED
  BY <1>3, <1>4 DEF Step

LEMMA SizeKept ==
  ASSUME NEW w \in Rows, Step(w) PROVE size' = size
BY ElsewhereFrame DEF Step, Place, HdrWrite, HdrPad, DataWrite, WriteFail

(* So a memo that has room in other blocks is there after the step if and  *)
(* only if it was before.                                                  *)
LEMMA SameMemo ==
  ASSUME Disciplined, IInv, NEW w \in Rows, Step(w), NEW u, NEW a, NEW m \in Memo,
         Room(u, a, m), pc[w] = "dataWrite" => at[w] # a
  PROVE  Holds(a, m)' <=> Holds(a, m)
<1>0. /\ TypeOK /\ size \in Nat /\ size = BlockSize /\ m.len \in Nat /\ size' = size
      /\ disk \in Seq(Cells) /\ Len(disk) \in Nat
  <2>1. TypeOK /\ size = BlockSize
    BY DEF IInv, HeaderInv
  <2>2. size \in Nat /\ disk \in Seq(Cells)
    BY <2>1 DEF TypeOK
  <2>3. m.len \in Nat
    BY MemoLen
  <2> QED
    BY <2>1, <2>2, <2>3, SizeKept
<1>1. /\ a \in DOMAIN extent /\ a \in Nat /\ extent[a].blocks \in Nat
      /\ 1 + m.len <= extent[a].blocks * size
  BY <1>0 DEF Room, TypeOK
<1>2. a * size \in Nat /\ extent[a].blocks * size \in Nat
  BY <1>0, <1>1, Product, Zenon
<1> DEFINE p == a * size
<1>3. ASSUME NEW k \in (p + 1)..(p + 1 + m.len), NEW c, c # Zero
      PROVE  k <= Len(disk') /\ disk'[k] = c <=> k <= Len(disk) /\ disk[k] = c
  <2>1. k \in (a * size + 1)..(a * size + extent[a].blocks * size)
    BY <1>0, <1>1, <1>2, Within, Zenon
  <2>2. IF k <= Len(disk) THEN k <= Len(disk') /\ disk'[k] = disk[k]
        ELSE k <= Len(disk') => disk'[k] = Zero
    BY <1>1, <2>1, BlocksKept
  <2> QED
    BY <1>3, <2>2
<1>p. p \in Nat
  BY <1>2
<1> HIDE DEF p
<1>4. p + 1 <= Len(disk') /\ disk'[p + 1] = BlockHead(m)
        <=> p + 1 <= Len(disk) /\ disk[p + 1] = BlockHead(m)
  <2>1. p + 1 \in (p + 1)..(p + 1 + m.len)
    BY <1>0, <1>p
  <2>2. BlockHead(m) # Zero
    BY DEF BlockHead, Zero
  <2> QED
    BY <1>3, <2>1, <2>2
<1>5. ASSUME NEW i \in 1..m.len
      PROVE  p + 1 + i <= Len(disk') /\ disk'[p + 1 + i] = Data(m, i)
               <=> p + 1 + i <= Len(disk) /\ disk[p + 1 + i] = Data(m, i)
  <2>1. p + 1 + i \in (p + 1)..(p + 1 + m.len)
    BY <1>0, <1>p
  <2>2. Data(m, i) # Zero
    BY DEF Data, Zero
  <2> QED
    BY <1>3, <2>1, <2>2
<1>6. Holds(a, m) <=> /\ p + 1 <= Len(disk) /\ disk[p + 1] = BlockHead(m)
                      /\ \A i \in 1..m.len : p + 1 + i <= Len(disk) /\ disk[p + 1 + i] = Data(m, i)
  BY DEF Holds, HasData, p
<1>7. Holds(a, m)' <=> /\ p + 1 <= Len(disk') /\ disk'[p + 1] = BlockHead(m)
                       /\ \A i \in 1..m.len :
                            p + 1 + i <= Len(disk') /\ disk'[p + 1 + i] = Data(m, i)
  BY <1>0 DEF Holds, HasData, p, BlockHead, Data
<1> QED
  BY <1>4, <1>5, <1>6, <1>7

(* No step of another row does anything to a memo.                         *)
LEMMA Undisturbed ==
  ASSUME Disciplined, IInv, NEW w \in Rows, Step(w),
         NEW u \in Rows, u # w, NEW a, NEW m \in Memo, Room(u, a, m), Holds(a, m)
  PROVE  Holds(a, m)'
<1>1. pc[w] = "dataWrite" => at[w] # a
  BY DEF IInv, AddressInv, Room
<1> QED
  BY <1>1, SameMemo

(* A memo is where it was put.                                             *)
LEMMA ImageHeld ==
  ASSUME TypeOK, CursorInv, NEW w \in Rows, DataWrite(w)
  PROVE  Holds(at[w], val[w])'
<1> DEFINE m == val[w]
           img == Image(m)
<1>1. /\ pc[w] = "dataWrite" /\ cursor = at[w] * size /\ cursor \in Nat
      /\ disk' = Overwrite(disk, cursor, img) /\ disk \in Seq(Cells)
      /\ UNCHANGED <<at, val, size>>
  BY DEF DataWrite, CursorInv, TypeOK
<1>2. m \in Memo /\ m.len \in Nat /\ size \in Nat
  BY <1>1, MemoLen DEF TypeOK, Writing, Critical
<1>3. img \in Seq(Cells) /\ Len(img) = Larger(1 + m.len, size)
  BY <1>2, ImageType
<1>4. 1 + m.len <= Len(img) /\ Len(img) \in Nat
  BY <1>2, <1>3 DEF Larger
<1>5. img[1] = BlockHead(m) /\ \A i \in 1..m.len : img[1 + i] = Data(m, i)
  <2>1. img = [k \in 1..Larger(1 + m.len, size) |->
                 IF k = 1 THEN BlockHead(m) ELSE IF k <= 1 + m.len THEN Data(m, k - 1) ELSE Zero]
    BY DEF Image
  <2> HIDE DEF img, m
  <2>2. 1 \in 1..Larger(1 + m.len, size)
    BY <1>2, <1>3, <1>4
  <2>3. img[1] = BlockHead(m)
    BY <2>1, <2>2
  <2>4. ASSUME NEW i \in 1..m.len PROVE img[1 + i] = Data(m, i)
    <3>1. 1 + i \in 1..Larger(1 + m.len, size) /\ 1 + i # 1 /\ 1 + i <= 1 + m.len
          /\ (1 + i) - 1 = i
      BY <1>2, <1>3, <1>4
    <3> QED
      BY <2>1, <3>1
  <2> QED
    BY <2>3, <2>4
<1> HIDE DEF img
<1>6. \A k \in 1..Len(img) : cursor + k <= Len(disk') /\ disk'[cursor + k] = img[k]
  BY <1>1, <1>3, OverwriteInside
<1>7. cursor + 1 <= Len(disk') /\ disk'[cursor + 1] = BlockHead(m)
  BY <1>2, <1>4, <1>5, <1>6
<1>8. ASSUME NEW i \in 1..m.len
      PROVE  cursor + 1 + i <= Len(disk') /\ disk'[cursor + 1 + i] = Data(m, i)
  <2>1. 1 + i \in 1..Len(img) /\ cursor + (1 + i) = cursor + 1 + i
    BY <1>1, <1>2, <1>4, SMTT(30)
  <2> QED
    BY <1>5, <1>6, <2>1
<1> QED
  BY <1>1, <1>7, <1>8 DEF Holds, HasData, BlockHead, Data

(* ContentInv for one row.                                                 *)
ContentRow(w) ==
  /\ pc[w] \in Critical \cup {"lockRow", "begin", "store"} => acked[w] = None
  /\ pc[w] \in {"lockRow", "begin"} /\ val[w].len = 0 => val[w] = NoMemo
  /\ acked[w] # None => Has(w, acked[w])
  /\ acked[w] # None /\ rec[w] # 0 => Room(w, rec[w], acked[w])
  /\ pc[w] = "store" => IF at[w] = 0 THEN val[w] = NoMemo
                        ELSE Room(w, at[w], val[w]) /\ Holds(at[w], val[w])

LEMMA ContentRows == ContentInv <=> \A w \in Rows : ContentRow(w)
BY DEF ContentInv, ContentRow

LEMMA OthersContent ==
  ASSUME Disciplined, IInv, NEW w \in Rows, Step(w), NEW u \in Rows, u # w
  PROVE  ContentRow(u)'
<1>0. TypeOK /\ ContentRow(u)
  BY ContentRows DEF IInv
<1>1. /\ pc'[u] = pc[u] /\ val'[u] = val[u] /\ at'[u] = at[u]
      /\ rec'[u] = rec[u] /\ acked'[u] = acked[u]
  BY <1>0, OthersFrame
<1>2. ASSUME NEW a, NEW m \in Memo, Room(u, a, m), Holds(a, m)
      PROVE  Room(u, a, m)' /\ Holds(a, m)'
  BY <1>2, Undisturbed, RoomKept
<1>3. acked[u] # None => acked[u] \in Memo
  BY <1>0 DEF TypeOK
<1>4. acked[u] # None /\ rec[u] # 0
        => Room(u, rec[u], acked[u])' /\ Holds(rec[u], acked[u])'
  <2> SUFFICES ASSUME acked[u] # None, rec[u] # 0
               PROVE  Room(u, rec[u], acked[u])' /\ Holds(rec[u], acked[u])'
    OBVIOUS
  <2>1. Room(u, rec[u], acked[u]) /\ Holds(rec[u], acked[u]) /\ acked[u] \in Memo
    BY <1>0, <1>3 DEF ContentRow, Has
  <2>2. ASSUME NEW a, NEW m \in Memo, a = rec[u], m = acked[u]
        PROVE  Room(u, a, m)' /\ Holds(a, m)'
    BY <1>2, <2>1, <2>2
  <2>3. ASSUME NEW a, NEW m, a = rec[u], m = acked[u], Room(u, a, m)', Holds(a, m)'
        PROVE  Room(u, rec[u], acked[u])' /\ Holds(rec[u], acked[u])'
    BY <1>1, <2>3 DEF Room, Holds, HasData
  <2> QED
    BY <2>1, <2>2, <2>3
<1>5. pc[u] = "store" => IF at[u] = 0 THEN val[u] = NoMemo
                         ELSE Room(u, at[u], val[u])' /\ Holds(at[u], val[u])'
  <2> SUFFICES ASSUME pc[u] = "store", at[u] # 0
               PROVE  Room(u, at[u], val[u])' /\ Holds(at[u], val[u])'
    BY <1>0 DEF ContentRow
  <2>1. Room(u, at[u], val[u]) /\ Holds(at[u], val[u]) /\ val[u] \in Memo
    BY <1>0 DEF ContentRow, TypeOK, Writing
  <2>2. ASSUME NEW a, NEW m \in Memo, a = at[u], m = val[u]
        PROVE  Room(u, a, m)' /\ Holds(a, m)'
    BY <1>2, <2>1, <2>2
  <2>3. ASSUME NEW a, NEW m, a = at[u], m = val[u], Room(u, a, m)', Holds(a, m)'
        PROVE  Room(u, at[u], val[u])' /\ Holds(at[u], val[u])'
    BY <1>1, <2>3 DEF Room, Holds, HasData
  <2> QED
    BY <2>1, <2>2, <2>3
<1> QED
  BY <1>0, <1>1, <1>4, <1>5 DEF ContentRow, Has, Room, Holds, HasData

(* Steps after which a row is settled: the memo file, the record and what  *)
(* is known of its memo are as before.                                     *)
LEMMA SettledContent ==
  ASSUME NEW w \in Rows, ContentRow(w), pc'[w] \notin Critical \cup {"lockRow", "begin", "store"},
         size' = size, UNCHANGED <<disk, rec, acked, extent>>
  PROVE  ContentRow(w)'
<1>1. Holds(rec[w], acked[w])' <=> Holds(rec[w], acked[w])
  BY DEF Holds, HasData
<1>2. Room(w, rec[w], acked[w])' <=> Room(w, rec[w], acked[w])
  BY DEF Room
<1> QED
  BY <1>1, <1>2 DEF ContentRow, Has, Holds, HasData, Room, Critical

(* Nothing is known of the memo while it is being written.                 *)
LEMMA UnknownContent ==
  ASSUME NEW w \in Rows, acked'[w] = None, pc'[w] # "store",
         pc'[w] \in {"lockRow", "begin"} /\ val'[w].len = 0 => val'[w] = NoMemo
  PROVE  ContentRow(w)'
BY DEF ContentRow, NoMemo

LEMMA ContentStep ==
  ASSUME Disciplined, IInv, [Next]_vars
  PROVE  ContentInv'
<1>t. TypeOK
  BY DEF IInv
<1>r. ASSUME NEW w \in Rows PROVE ContentRow(w)
  BY ContentRows DEF IInv
<1>w. ASSUME NEW w \in Rows, Step(w), ContentRow(w)' PROVE ContentInv'
  <2>1. \A u \in Rows : ContentRow(u)'
    BY <1>w, OthersContent
  <2> QED
    BY <2>1 DEF ContentInv, ContentRow
<1>1. ASSUME NEW w \in Rows, SetValue(w) PROVE ContentRow(w)'
  <2>1. acked'[w] = None /\ pc'[w] \in {"lockRow", "begin"}
    BY <1>1, <1>t DEF SetValue, Goto, TypeOK
  <2>2. val'[w].len = 0 => val'[w] = NoMemo
    BY <1>1, <1>t DEF SetValue, TypeOK
  <2> QED
    BY <2>1, <2>2, UnknownContent
<1>2. ASSUME NEW w \in Rows, NoData(w) PROVE ContentRow(w)'
  <2>1. /\ pc'[w] \in {"store", "ret"} /\ at'[w] = 0 /\ val'[w] = NoMemo
        /\ acked'[w] = None
    BY <1>2, <1>r, <1>t DEF NoData, After, Goto, TypeOK, hist, ContentRow
  <2> QED
    BY <2>1 DEF ContentRow
<1>10. ASSUME NEW w \in Rows, LockRow(w) PROVE ContentRow(w)'
  <2>1. pc[w] = "lockRow" /\ UNCHANGED <<val, acked>> /\ pc'[w] = "begin"
    BY <1>10, <1>t DEF LockRow, Goto, TypeOK, hist
  <2>2. acked[w] = None /\ (val[w].len = 0 => val[w] = NoMemo)
    BY <1>r, <2>1 DEF ContentRow
  <2> QED
    BY <2>1, <2>2, UnknownContent
<1>3. ASSUME NEW w \in Rows,
             \/ Lock(w) \/ Place(w) \/ HdrWrite(w) \/ HdrPad(w) \/ DataSeek(w)
             \/ Fail(w) \/ WriteFail(w)
      PROVE  ContentRow(w)'
  <2>1. pc'[w] \in Critical \cup {"idle"} /\ pc'[w] \notin {"lockRow", "begin", "store"}
    BY <1>3, <1>t DEF Lock, Place, HdrWrite, HdrPad, DataSeek, Fail, WriteFail, Goto, Leave,
                      Critical, TypeOK
  <2>2. pc[w] \in Critical \cup {"begin"} /\ acked' = acked
    BY <1>3 DEF Lock, Place, HdrWrite, HdrPad, DataSeek, Fail, WriteFail, hist, Critical
  <2>3. acked'[w] = None
    BY <1>r, <2>2 DEF ContentRow
  <2> QED
    BY <2>1, <2>3, UnknownContent
<1>4. ASSUME NEW w \in Rows, DataWrite(w) PROVE ContentRow(w)'
  <2>1. Holds(at[w], val[w])'
    BY <1>4, ImageHeld DEF IInv
  <2>2. /\ pc'[w] \in {"store", "ret"} /\ pc[w] = "dataWrite" /\ acked' = acked
        /\ UNCHANGED <<at, val, extent>>
    BY <1>4, <1>t DEF DataWrite, Leave, After, Goto, TypeOK, hist
  <2>3. acked'[w] = None
    BY <1>r, <2>2 DEF ContentRow, Critical
  <2>4. Room(w, at[w], val[w])'
    BY <2>2 DEF IInv, AddressInv, Room
  <2> QED
    <3>1. at'[w] # 0
      <4>1. Room(w, at[w], val[w])
        BY <2>2 DEF IInv, AddressInv
      <4>2. FirstFree <= at[w] /\ FirstFree > 0 /\ FirstFree \in Nat
        BY <4>1, MemoAssumption DEF IInv, ExtentInv, Room, Disciplined
      <4> QED
        BY <2>2, <4>2
    <3> QED
      BY <2>1, <2>2, <2>3, <2>4, <3>1 DEF ContentRow
<1>5. ASSUME NEW w \in Rows, Store(w) PROVE ContentRow(w)'
  <2>1. /\ pc[w] = "store" /\ pc'[w] = "ret" /\ rec'[w] = at[w] /\ acked'[w] = val[w]
        /\ UNCHANGED <<disk, size, extent>>
    BY <1>5, <1>t DEF Store, Stored, Goto, TypeOK
  <2>2. IF at[w] = 0 THEN val[w] = NoMemo ELSE Room(w, at[w], val[w]) /\ Holds(at[w], val[w])
    BY <1>r, <2>1 DEF ContentRow
  <2>3. CASE at[w] = 0
    BY <2>1, <2>2, <2>3 DEF ContentRow, Has, Critical
  <2>4. CASE at[w] # 0
    <3>1. Room(w, rec[w], acked[w])'
      BY <2>1, <2>2, <2>4 DEF Room
    <3>2. Holds(rec[w], acked[w])'
      BY <2>1, <2>2, <2>4 DEF Holds, HasData
    <3>3. Has(w, acked[w])'
      BY <2>1, <2>4, <3>2 DEF Has, Holds, HasData
    <3> QED
      BY <2>1, <3>1, <3>3 DEF ContentRow, Critical
  <2> QED
    BY <2>3, <2>4
<1>6. ASSUME NEW w \in Rows, Return(w) \/ StoreFail(w) \/ ReadEmpty(w) \/ ReadBegin(w)
                             \/ ReadSeek(w) \/ ReadHead(w)
      PROVE  ContentRow(w)'
  <2>1. pc'[w] \notin Critical \cup {"lockRow", "begin", "store"}
    BY <1>6, <1>t DEF Return, StoreFail, ReadEmpty, ReadBegin, ReadSeek, ReadHead, Goto,
                      Critical, TypeOK
  <2>2. UNCHANGED <<disk, size, rec, acked, extent>>
    BY <1>6 DEF Return, StoreFail, ReadEmpty, ReadBegin, ReadSeek, ReadHead, file, hist
  <2> QED
    BY <1>r, <2>1, <2>2, SettledContent
<1>7. ASSUME NEW w \in Rows, ReadNoHead(w) \/ ReadData(w) PROVE ContentRow(w)'
  <2>1. PICK v : Result(w, v)
    BY <1>7 DEF ReadNoHead, ReadData
  <2>2. pc'[w] \notin Critical \cup {"lockRow", "begin", "store"}
    BY <1>t, <2>1 DEF Result, Goto, Critical, TypeOK
  <2>3. UNCHANGED <<disk, size, rec, acked, extent>>
    BY <1>7 DEF ReadNoHead, ReadData, hist
  <2> QED
    BY <1>r, <2>2, <2>3, SettledContent
<1>8. ASSUME Crash PROVE ContentInv'
  <2>1. size' = size
    BY <1>8 DEF Crash, SizeOnDisk, IInv, HeaderInv
  <2>2. UNCHANGED <<disk, rec, acked, extent>> /\ \A w \in Rows : pc'[w] = "gone"
    BY <1>8 DEF Crash, hist
  <2>3. \A w \in Rows : ContentRow(w)'
    BY <1>r, <2>1, <2>2, SettledContent DEF Critical
  <2> QED
    BY <2>3 DEF ContentInv, ContentRow
<1>9. CASE UNCHANGED vars
  BY <1>9 DEF vars, file, local, hist, IInv, ContentInv, Has, Holds, HasData, Room
<1> QED
  BY <1>w, <1>1, <1>2, <1>3, <1>4, <1>5, <1>6, <1>7, <1>8, <1>9, <1>10, NextCases
     DEF Step, Elsewhere

(* A read that is alone sees the memo its record points to.                *)
LEMMA ReadStep ==
  ASSUME Disciplined, IInv, [Next]_vars
  PROVE  ReadInv'
<1>t. TypeOK /\ ReadInv /\ CursorInv /\ ContentInv /\ AddressInv
  BY DEF IInv
<1> DEFINE ReadRow(w) ==
      acked[w] # None /\ pc[w] \in {"idle", "seen", "readData", "ret"} => val[w] = acked[w]
<1>w. ASSUME NEW w \in Rows, Step(w),
             acked'[w] # None /\ pc'[w] \in {"idle", "seen", "readData", "ret"}
               => val'[w] = acked'[w]
      PROVE  ReadInv'
  <2>1. ASSUME NEW u \in Rows, u # w
        PROVE  acked'[u] # None /\ pc'[u] \in {"idle", "seen", "readData", "ret"}
                 => val'[u] = acked'[u]
    <3>1. pc'[u] = pc[u] /\ val'[u] = val[u] /\ acked'[u] = acked[u]
      BY <1>t, <1>w, <2>1, OthersFrame
    <3> QED
      BY <1>t, <3>1 DEF ReadInv
  <2> QED
    BY <1>w, <2>1 DEF ReadInv
<1>1. ASSUME NEW w \in Rows, SetValue(w) PROVE ReadInv'
  <2>1. acked'[w] = None
    BY <1>1, <1>t DEF SetValue, TypeOK
  <2> QED
    BY <1>1, <1>w, <2>1 DEF Step, Elsewhere
<1>2. ASSUME NEW w \in Rows,
             \/ LockRow(w) \/ NoData(w) \/ Lock(w) \/ Place(w) \/ HdrWrite(w) \/ HdrPad(w)
             \/ DataSeek(w) \/ DataWrite(w) \/ Fail(w) \/ StoreFail(w) \/ WriteFail(w)
      PROVE  ReadInv'
  <2>1. pc[w] \in Critical \cup {"lockRow", "begin", "store"} /\ acked' = acked
    BY <1>2 DEF LockRow, NoData, Lock, Place, HdrWrite, HdrPad, DataSeek, DataWrite, Fail,
                StoreFail, WriteFail, hist, Critical
  <2>2. acked'[w] = None
    BY <1>t, <2>1 DEF ContentInv
  <2> QED
    BY <1>2, <1>w, <2>2 DEF Step, Elsewhere
<1>3. ASSUME NEW w \in Rows, Store(w) PROVE ReadInv'
  <2>1. acked'[w] = val[w] /\ val' = val
    BY <1>3, <1>t DEF Store, TypeOK
  <2> QED
    BY <1>3, <1>w, <2>1 DEF Step, Elsewhere
<1>4. ASSUME NEW w \in Rows, Return(w) PROVE ReadInv'
  <2>1. pc[w] \in {"ret", "seen"} /\ UNCHANGED <<val, acked>>
    BY <1>4 DEF Return, hist
  <2> QED
    BY <1>4, <1>t, <1>w, <2>1 DEF Step, Elsewhere, ReadInv
<1>5. ASSUME NEW w \in Rows, ReadEmpty(w) PROVE ReadInv'
  <2>1. val'[w] = NoMemo /\ rec[w] = 0 /\ acked' = acked
    BY <1>5, <1>t DEF ReadEmpty, TypeOK, hist
  <2>2. acked[w] # None => acked[w] = NoMemo
    BY <1>t, <2>1 DEF ContentInv, Has
  <2> QED
    BY <1>5, <1>w, <2>1, <2>2 DEF Step, Elsewhere
<1>6. ASSUME NEW w \in Rows, ReadBegin(w) \/ ReadSeek(w) PROVE ReadInv'
  <2>1. pc'[w] \in {"readSeek", "readHead"}
    BY <1>6, <1>t DEF ReadBegin, ReadSeek, Goto, TypeOK
  <2> QED
    BY <1>6, <1>w, <2>1 DEF Step, Elsewhere
<1>7. ASSUME NEW w \in Rows, pc[w] = "readHead", acked[w] # None
      PROVE  /\ cursor + 1 <= Len(disk) /\ disk[cursor + 1] = BlockHead(acked[w])
             /\ cursor \in Nat /\ Len(disk) \in Nat
  <2>1. at[w] = rec[w] /\ rec[w] # 0 /\ cursor = at[w] * size
    BY <1>t, <1>7 DEF AddressInv, CursorInv
  <2>2. Holds(rec[w], acked[w])
    BY <1>t, <1>7, <2>1 DEF ContentInv, Has
  <2> QED
    BY <1>t, <2>1, <2>2 DEF Holds, TypeOK
<1>8. ASSUME NEW w \in Rows, ReadHead(w) PROVE ReadInv'
  <2>1. pc[w] = "readHead" /\ val'[w] = disk[cursor + 1].memo /\ acked' = acked
    BY <1>8, <1>t DEF ReadHead, TypeOK, hist
  <2>2. ASSUME acked[w] # None PROVE disk[cursor + 1].memo = acked[w]
    <3>1. disk[cursor + 1] = BlockHead(acked[w])
      BY <1>7, <2>1, <2>2
    <3> QED
      BY <3>1 DEF BlockHead
  <2> QED
    BY <1>8, <1>w, <2>1, <2>2 DEF Step, Elsewhere
<1>9. ASSUME NEW w \in Rows, ReadNoHead(w) PROVE ReadInv'
  <2>1. pc[w] = "readHead" /\ acked' = acked
    BY <1>9 DEF ReadNoHead, hist
  <2>2. acked[w] = None
    <3> SUFFICES ASSUME acked[w] # None PROVE FALSE
      OBVIOUS
    <3>1. /\ cursor + 1 <= Len(disk) /\ disk[cursor + 1] = BlockHead(acked[w])
          /\ cursor \in Nat /\ Len(disk) \in Nat
      BY <1>7, <2>1
    <3>2. ~(cursor >= Len(disk))
      BY <3>1
    <3>3. disk[cursor + 1].kind = "head"
      BY <3>1 DEF BlockHead
    <3> QED
      BY <1>9, <3>2, <3>3 DEF ReadNoHead
  <2> QED
    BY <1>9, <1>w, <2>1, <2>2 DEF Step, Elsewhere
<1>10. ASSUME NEW w \in Rows, ReadData(w) PROVE ReadInv'
  <2>1. pc[w] = "readData" /\ acked' = acked
    BY <1>10 DEF ReadData, hist
  <2>2. ASSUME acked[w] # None PROVE val'[w] = acked'[w]
    <3>1. at[w] = rec[w] /\ rec[w] # 0 /\ cursor = at[w] * size + 1 /\ val[w] = acked[w]
      BY <1>t, <2>1, <2>2 DEF AddressInv, CursorInv, ReadInv
    <3>2. Holds(rec[w], val[w]) /\ val[w] \in Memo
      BY <1>t, <2>1, <2>2, <3>1 DEF ContentInv, Has, TypeOK
    <3>3. HasData(cursor, val[w]) /\ cursor <= Len(disk)
      BY <3>1, <3>2 DEF Holds
    <3>4. val[w].len \in Nat /\ cursor \in Nat /\ Len(disk) \in Nat
      BY <1>t, <3>2, MemoLen DEF TypeOK
    <3>5. ~(cursor + val[w].len > Len(disk))
      <4>1. CASE val[w].len = 0
        BY <3>3, <3>4, <4>1
      <4>2. CASE val[w].len # 0
        <5>1. val[w].len \in 1..val[w].len
          BY <3>4, <4>2
        <5>2. cursor + val[w].len <= Len(disk)
          BY <3>3, <5>1 DEF HasData
        <5> QED
          BY <3>4, <5>2
      <4> QED
        BY <4>1, <4>2
    <3>6. Result(w, val[w])
      BY <1>10, <3>3, <3>5 DEF ReadData
    <3> QED
      BY <1>t, <2>1, <3>1, <3>6 DEF Result, TypeOK
  <2> QED
    BY <1>10, <1>w, <2>1, <2>2 DEF Step, Elsewhere
<1>11. ASSUME Crash PROVE ReadInv'
  <2>1. \A w \in Rows : pc'[w] = "gone"
    BY <1>11 DEF Crash
  <2> QED
    BY <2>1 DEF ReadInv
<1>12. CASE UNCHANGED vars
  BY <1>12, <1>t DEF vars, local, hist, ReadInv
<1> QED
  BY <1>1, <1>2, <1>3, <1>4, <1>5, <1>6, <1>8, <1>9, <1>10, <1>11, <1>12, NextCases
     DEF Elsewhere

(***************************************************************************)
(* The theorems.                                                           *)
(***************************************************************************)
(***************************************************************************)
(* What the rows show.                                                     *)
(***************************************************************************)
LEMMA HeadCell ==
  ASSUME NEW c \in Cells, c.kind = "head" PROVE c.memo \in Memo /\ c = BlockHead(c.memo)
BY DEF Cells, BlockHead, Zero

(* There is a block header at a, of a memo that fits into the blocks of u. *)
Heads(u, a) ==
  /\ a * size < Len(disk) /\ disk[a * size + 1].kind = "head"
  /\ Room(u, a, disk[a * size + 1].memo)

LEMMA HeadsMemo ==
  ASSUME TypeOK, NEW u, NEW a, Heads(u, a)
  PROVE  /\ disk[a * size + 1].memo \in Memo
         /\ disk[a * size + 1] = BlockHead(disk[a * size + 1].memo)
<1>1. disk \in Seq(Cells) /\ a \in Nat /\ size \in Nat /\ a * size < Len(disk)
  BY DEF TypeOK, Heads, Room
<1>2. a * size \in Nat
  BY <1>1
<1>3. a * size + 1 \in 1..Len(disk)
  BY <1>1, <1>2
<1>4. disk[a * size + 1] \in Cells
  BY <1>1, <1>3
<1> QED
  BY <1>4, HeadCell DEF Heads

LEMMA HeldHeads ==
  ASSUME TypeOK, NEW u, NEW a, NEW m, Room(u, a, m), Holds(a, m)
  PROVE  Heads(u, a) /\ disk[a * size + 1] = BlockHead(m)
<1>1. disk \in Seq(Cells) /\ a \in Nat /\ size \in Nat
  BY DEF TypeOK, Room
<1>2. a * size \in Nat
  BY <1>1, Product, Zenon
<1>3. a * size + 1 <= Len(disk) /\ disk[a * size + 1] = BlockHead(m)
  BY DEF Holds
<1>4. BlockHead(m).memo = m /\ BlockHead(m).kind = "head"
  BY DEF BlockHead
<1>5. a * size < Len(disk)
  BY <1>1, <1>2, <1>3
<1> QED
  BY <1>3, <1>4, <1>5 DEF Heads

LEMMA StepType ==
  ASSUME TypeOK, NEW w \in Rows, Step(w) PROVE TypeOK'
<1>1. Next
  BY DEF Next, Step, Elsewhere, WriteSteps, ReadSteps
<1> QED
  BY <1>1, NextType

LEMMA HeadsKept ==
  ASSUME Disciplined, IInv, NEW w \in Rows, Step(w), NEW u, NEW a, Heads(u, a),
         pc[w] = "dataWrite" => at[w] # a
  PROVE  Heads(u, a)' /\ disk'[a * size' + 1] = disk[a * size + 1]
<1> DEFINE m == disk[a * size + 1].memo
<1>1. /\ TypeOK /\ size \in Nat /\ size = BlockSize /\ size' = size /\ disk \in Seq(Cells)
      /\ Room(u, a, m) /\ a * size < Len(disk) /\ disk[a * size + 1].kind = "head"
  BY SizeKept DEF IInv, TypeOK, HeaderInv, Heads
<1>2. m \in Memo /\ m.len \in Nat
  <2>1. m \in Memo
    BY <1>1, HeadsMemo
  <2> HIDE DEF m
  <2> QED
    BY <2>1, MemoLen
<1>3. /\ a \in DOMAIN extent /\ a \in Nat /\ extent[a].blocks \in Nat
      /\ 1 + m.len <= extent[a].blocks * size
  BY <1>1 DEF Room, TypeOK
<1>4. a * size \in Nat /\ extent[a].blocks * size \in Nat
  BY <1>1, <1>3, Product, Zenon
<1>r. a \in DOMAIN extent' /\ extent'[a] = extent[a]
  BY <1>3, ExtentsKept
<1>b. extent[a].by = u /\ 1 + disk[a * size + 1].memo.len <= extent[a].blocks * BlockSize
  BY <1>1 DEF Room
<1> HIDE DEF m
<1>5. a * size + 1 \in (a * size + 1)..(a * size + extent[a].blocks * size)
  BY <1>2, <1>3, <1>4
<1>6. a * size + 1 <= Len(disk) /\ Len(disk) \in Nat
  BY <1>1, <1>4
<1>7. a * size + 1 <= Len(disk') /\ disk'[a * size + 1] = disk[a * size + 1]
  BY <1>3, <1>5, <1>6, BlocksKept
<1>8. a * size < Len(disk')
  <2>1. Len(disk') \in Nat
    BY <1>1, StepType DEF TypeOK
  <2> QED
    BY <1>4, <1>7, <2>1
<1>9. Room(u, a, disk[a * size + 1].memo)'
  BY <1>1, <1>3, <1>b, <1>r, <1>7 DEF Room
<1> QED
  BY <1>1, <1>7, <1>8, <1>9 DEF Heads

(* A memo that could not be written to its end has left its block header,  *)
(* or nothing.                                                             *)
LEMMA TornWrite ==
  ASSUME IInv, NEW w \in Rows, WriteFail(w), pc[w] = "dataWrite"
  PROVE  \/ disk' = disk
         \/ at[w] * size + 1 <= Len(disk') /\ disk'[at[w] * size + 1] = BlockHead(val[w])
<1> DEFINE img == Image(val[w])
<1>1. /\ disk \in Seq(Cells) /\ size \in Nat /\ at[w] \in Nat /\ cursor = at[w] * size
      /\ cursor \in Nat /\ val[w] \in Memo
  BY DEF IInv, TypeOK, CursorInv, Writing, Critical
<1>2. img \in Seq(Cells) /\ Len(img) = Larger(1 + val[w].len, size)
  BY <1>1, ImageType
<1>3. PICK k \in 0..(Len(img) - 1) : disk' = Overwrite(disk, cursor, SubSeq(img, 1, k))
  BY DEF WriteFail, Buffer
<1>4. CASE k = 0
  <2>1. SubSeq(img, 1, k) = <<>>
    BY <1>2, <1>4
  <2>2. Overwrite(disk, cursor, <<>>) = disk
    BY <1>1 DEF Overwrite, Larger
  <2> QED
    BY <1>3, <2>1, <2>2
<1>5. CASE k # 0
  <2> DEFINE part == SubSeq(img, 1, k)
  <2>1. k \in 1..Len(img)
    BY <1>2, <1>5
  <2>2. img[1] = BlockHead(val[w])
    <3>1. 1 \in 1..Larger(1 + val[w].len, size)
      BY <1>2, <2>1
    <3> QED
      BY <3>1 DEF Image
  <2> HIDE DEF img
  <2>3. part \in Seq(Cells) /\ Len(part) = k /\ part[1] = img[1]
    BY <1>2, <2>1
  <2> HIDE DEF part
  <2>4. 1 \in 1..Len(part)
    BY <2>1, <2>3
  <2>5. /\ cursor + 1 <= Len(Overwrite(disk, cursor, part))
        /\ Overwrite(disk, cursor, part)[cursor + 1] = part[1]
    BY <1>1, <2>3, <2>4, OverwriteInside
  <2> QED
    BY <1>1, <1>3, <2>2, <2>3, <2>5 DEF part
<1> QED
  BY <1>4, <1>5

(* Which records and readers a step changes.                               *)
LEMMA RecordFrame ==
  ASSUME TypeOK, NEW w \in Rows, Step(w)
  PROVE  /\ rec' = IF Store(w) THEN [rec EXCEPT ![w] = at[w]] ELSE rec
         /\ pc'[w] = "readData" => ReadHead(w)
         /\ pc[w] = "dataWrite" => DataWrite(w) \/ WriteFail(w)
<1> USE DEF TypeOK, Goto, Leave, file, hist
<1>1. CASE SetValue(w) \/ LockRow(w) \/ NoData(w) \/ Lock(w) \/ DataSeek(w) \/ Return(w)
  BY <1>1 DEF SetValue, LockRow, NoData, Lock, DataSeek, Return, After, Store
<1>2. CASE ReadEmpty(w) \/ ReadBegin(w) \/ ReadSeek(w) \/ ReadHead(w)
  BY <1>2 DEF ReadEmpty, ReadBegin, ReadSeek, ReadHead, Store, AtRest
<1>3. CASE ReadNoHead(w) \/ ReadData(w)
  <2>1. PICK v : Result(w, v)
    BY <1>3 DEF ReadNoHead, ReadData
  <2> QED
    BY <1>3, <2>1 DEF Result, ReadNoHead, ReadData, Store
<1>4. CASE Fail(w) \/ StoreFail(w) \/ Place(w) \/ HdrPad(w) \/ DataWrite(w) \/ WriteFail(w)
  <2>1. rec' = rec /\ pc'[w] # "readData"
    BY <1>4 DEF Fail, StoreFail, Place, HdrPad, DataWrite, WriteFail, After
  <2>2. ~Store(w)
    BY <1>4 DEF Fail, StoreFail, Place, HdrPad, DataWrite, WriteFail, After, Store
  <2>3. pc[w] = "dataWrite" => DataWrite(w) \/ WriteFail(w)
    BY <1>4 DEF Fail, StoreFail, Place, HdrPad
  <2> QED
    BY <2>1, <2>2, <2>3
<1>5. CASE HdrWrite(w)
  BY <1>5 DEF HdrWrite, Store
<1>6. CASE Store(w)
  BY <1>6 DEF Store, Stored
<1> QED
  BY <1>1, <1>2, <1>3, <1>4, <1>5, <1>6 DEF Step, Elsewhere

LEMMA HeadRows ==
  HeadInv <=> \A w \in Rows : /\ rec[w] # 0 => Heads(w, rec[w])
                              /\ pc[w] = "readData" => disk[at[w] * size + 1] = BlockHead(val[w])
BY DEF HeadInv, Heads

(* The writer of row w never writes into the blocks of another row.        *)
LEMMA OtherBlocks ==
  ASSUME IInv, NEW w \in Rows, NEW u \in Rows, u # w, rec[u] # 0
  PROVE  pc[w] = "dataWrite" => at[w] # rec[u]
BY DEF IInv, AddressInv, Room

(* What the record of the row being written points to after the step.      *)
LEMMA OwnHead ==
  ASSUME Disciplined, IInv, NEW w \in Rows, Step(w)
  PROVE  rec'[w] # 0 => Heads(w, rec[w])'
<1>0. TypeOK /\ TypeOK' /\ CursorInv /\ size' = size
  BY StepType, SizeKept DEF IInv
<1>1. rec[w] # 0 => Heads(w, rec[w])
  BY HeadRows DEF IInv
<1>2. CASE Store(w)
  <2>1. /\ pc[w] = "store" /\ rec'[w] = at[w] /\ UNCHANGED <<disk, size, extent>>
    BY <1>0, <1>2 DEF Store, Stored, TypeOK
  <2>2. at[w] # 0 => Room(w, at[w], val[w]) /\ Holds(at[w], val[w])
    BY <2>1 DEF IInv, ContentInv
  <2>3. at[w] # 0 => Heads(w, at[w])
    BY <1>0, <2>2, HeldHeads
  <2>4. \A a : Heads(w, a)' <=> Heads(w, a)
    BY <2>1 DEF Heads, Room
  <2> QED
    BY <2>1, <2>3, <2>4 DEF Heads, Room
<1>3. CASE ~Store(w) /\ ~(pc[w] = "dataWrite" /\ at[w] = rec[w])
  <2>1. rec' = rec
    BY <1>0, <1>3, RecordFrame
  <2>2. ASSUME NEW a, a = rec[w], a # 0 PROVE Heads(w, a)'
    BY <1>1, <1>3, <2>2, HeadsKept
  <2> QED
    BY <2>1, <2>2 DEF Heads, Room
<1>4. CASE pc[w] = "dataWrite" /\ at[w] = rec[w] /\ rec[w] # 0
  <2>1. ~Store(w) /\ (DataWrite(w) \/ WriteFail(w)) /\ rec' = rec
    BY <1>0, <1>4, RecordFrame DEF Store
  <2>2. Room(w, at[w], val[w]) /\ UNCHANGED <<at, val, extent>>
    BY <1>4, <2>1 DEF IInv, AddressInv, DataWrite, WriteFail, hist
  <2>3. \/ disk' = disk
        \/ at[w] * size + 1 <= Len(disk') /\ disk'[at[w] * size + 1] = BlockHead(val[w])
    <3>1. CASE DataWrite(w)
      BY <1>0, <2>2, <3>1, ImageHeld DEF Holds, BlockHead
    <3>2. CASE WriteFail(w)
      BY <1>4, <3>2, TornWrite
    <3> QED
      BY <2>1, <3>1, <3>2
  <2>4. CASE disk' = disk
    BY <1>0, <1>1, <1>4, <2>1, <2>2, <2>4 DEF Heads, Room
  <2>5. CASE at[w] * size + 1 <= Len(disk') /\ disk'[at[w] * size + 1] = BlockHead(val[w])
    <3>1. at[w] * size \in Nat /\ Len(disk') \in Nat
      <4>1. at[w] \in Nat /\ size \in Nat /\ disk' \in Seq(Cells)
        BY <1>0 DEF TypeOK
      <4> QED
        BY <4>1, Product
    <3>2. at[w] * size < Len(disk')
      BY <2>5, <3>1
    <3>3. BlockHead(val[w]).kind = "head" /\ BlockHead(val[w]).memo = val[w]
      BY DEF BlockHead
    <3> QED
      BY <1>0, <1>4, <2>1, <2>2, <2>5, <3>2, <3>3 DEF Heads, Room
  <2> QED
    BY <2>3, <2>4, <2>5
<1> QED
  BY <1>0, <1>2, <1>3, <1>4, RecordFrame

LEMMA HeadStep ==
  ASSUME Disciplined, IInv, [Next]_vars PROVE HeadInv'
<1>0. TypeOK /\ CursorInv /\ HeadInv
  BY DEF IInv
<1> DEFINE HeadRow(w) == /\ rec[w] # 0 => Heads(w, rec[w])
                         /\ pc[w] = "readData" => disk[at[w] * size + 1] = BlockHead(val[w])
<1>r. \A w \in Rows : HeadRow(w)
  BY <1>0, HeadRows
<1>q. (\A w \in Rows : HeadRow(w))' => HeadInv'
  BY DEF HeadInv, Heads
<1>1. ASSUME NEW w \in Rows, Step(w) PROVE HeadInv'
  <2>0. size' = size
    BY <1>1, SizeKept
  <2>1. ASSUME NEW u \in Rows, u # w PROVE HeadRow(u)'
    <3>1. pc'[u] = pc[u] /\ rec'[u] = rec[u] /\ at'[u] = at[u] /\ val'[u] = val[u]
      BY <1>0, <1>1, <2>1, OthersFrame
    <3>2. rec[u] # 0 => Heads(u, rec[u])'
      <4>1. ASSUME NEW a, a = rec[u], a # 0 PROVE Heads(u, a)'
        <5>1. Heads(u, a) /\ (pc[w] = "dataWrite" => at[w] # a)
          BY <1>r, <2>1, <4>1, OtherBlocks
        <5> QED
          BY <1>1, <5>1, HeadsKept
      <4> QED
        BY <3>1, <4>1 DEF Heads, Room
    <3>3. pc[u] = "readData" => disk' = disk
      <4> SUFFICES ASSUME pc[u] = "readData" PROVE disk' = disk
        OBVIOUS
      <4>1. pc[w] \notin Critical
        BY <2>1, Alone DEF IInv, Reading
      <4>2. Elsewhere(w)
        BY <1>1, <4>1 DEF Step, Place, HdrWrite, HdrPad, DataWrite, WriteFail, Critical
      <4> QED
        BY <4>2, ElsewhereFrame
    <3> QED
      BY <1>r, <2>0, <3>1, <3>2, <3>3 DEF BlockHead
  <2>2. rec'[w] # 0 => Heads(w, rec[w])'
    BY <1>1, OwnHead
  <2>3. pc'[w] = "readData" => disk'[at'[w] * size' + 1] = BlockHead(val'[w])
    <3> SUFFICES ASSUME pc'[w] = "readData" PROVE disk'[at'[w] * size' + 1] = BlockHead(val'[w])
      OBVIOUS
    <3>1. ReadHead(w)
      BY <1>0, <1>1, RecordFrame
    <3>2. /\ cursor = at[w] * size /\ at[w] = rec[w] /\ rec[w] # 0
          /\ UNCHANGED <<disk, at, size>> /\ val'[w] = disk[cursor + 1].memo
      BY <1>0, <3>1 DEF ReadHead, CursorInv, TypeOK, IInv, AddressInv
    <3>3. disk[at[w] * size + 1] = BlockHead(disk[at[w] * size + 1].memo)
      BY <1>0, <1>r, <3>2, HeadsMemo
    <3> QED
      BY <3>2, <3>3
  <2>4. HeadRow(w)'
    BY <2>2, <2>3 DEF BlockHead
  <2> QED
    BY <1>q, <2>1, <2>4
<1>2. CASE Crash
  <2>1. size' = size
    BY <1>2 DEF Crash, SizeOnDisk, IInv, HeaderInv
  <2>2. UNCHANGED <<disk, rec, extent>> /\ \A w \in Rows : pc'[w] # "readData"
    BY <1>2 DEF Crash, hist
  <2> QED
    BY <1>r, <1>q, <2>1, <2>2 DEF Heads, Room
<1>3. CASE UNCHANGED vars
  BY <1>r, <1>q, <1>3 DEF vars, file, local, hist, Heads, Room, BlockHead
<1> QED
  BY <1>1, <1>2, <1>3, NextCases DEF Step

(* What a row shows is the memo its block header tells of, or its damage.  *)
LEMMA ContentOf ==
  ASSUME NEW w \in Rows, rec[w] # 0 => Heads(w, rec[w])
  PROVE  Content(w) = IF rec[w] = 0 THEN NoMemo
                      ELSE IF Holds(rec[w], disk[rec[w] * size + 1].memo)
                             THEN disk[rec[w] * size + 1].memo ELSE Garbled
BY DEF Content, Heads

LEMMA ContentType ==
  ASSUME TypeOK, HeadInv, NEW w \in Rows PROVE Content(w) \in Memo \cup {Garbled}
<1>1. rec[w] # 0 => Heads(w, rec[w])
  BY HeadRows
<1>2. rec[w] # 0 => disk[rec[w] * size + 1].memo \in Memo
  BY <1>1, HeadsMemo
<1> QED
  BY <1>1, <1>2, ContentOf, NoMemoType

LEMMA ContentHeld ==
  ASSUME TypeOK, NEW w \in Rows, NEW m \in Memo, rec[w] # 0,
         Room(w, rec[w], m), Holds(rec[w], m)
  PROVE  Content(w) = m
<1>1. Heads(w, rec[w]) /\ disk[rec[w] * size + 1] = BlockHead(m)
  BY HeldHeads
<1>2. BlockHead(m).memo = m
  BY DEF BlockHead
<1> QED
  BY <1>1, <1>2, ContentOf

LEMMA ContentTorn ==
  ASSUME NEW w \in Rows, NEW m, rec[w] # 0, Heads(w, rec[w]),
         disk[rec[w] * size + 1] = BlockHead(m)
  PROVE  Content(w) \in {m, Garbled}
<1>1. BlockHead(m).memo = m
  BY DEF BlockHead
<1> QED
  BY <1>1, ContentOf

(* A row shows what it showed if the step does not write its blocks.       *)
LEMMA ContentKept ==
  ASSUME Disciplined, IInv, NEW w \in Rows, Step(w), NEW u \in Rows, rec'[u] = rec[u],
         rec[u] # 0 => (pc[w] = "dataWrite" => at[w] # rec[u])
  PROVE  Content(u)' = Content(u)
<1>1. CASE rec[u] = 0
  BY <1>1 DEF Content, NoMemo
<1>2. CASE rec[u] # 0
  <2>1. TypeOK /\ Heads(u, rec[u]) /\ size' = size
    BY <1>2, HeadRows, SizeKept DEF IInv
  <2> DEFINE a == rec[u]
             m == disk[a * size + 1].memo
  <2>2. ASSUME NEW b, b = a
        PROVE  Heads(u, b)' /\ disk'[b * size' + 1] = disk[b * size + 1]
    BY <1>2, <2>1, <2>2, HeadsKept
  <2>3. ASSUME NEW b, b = a, NEW n \in Memo, n = m PROVE Holds(b, n)' <=> Holds(b, n)
    <3>1. Room(u, b, n)
      BY <2>1, <2>3 DEF Heads
    <3> QED
      BY <1>2, <2>3, <3>1, SameMemo
  <2>4. m \in Memo
    BY <2>1, HeadsMemo
  <2>5. Heads(u, rec[u])' /\ disk'[rec'[u] * size' + 1].memo = m
    <3>1. ASSUME NEW b, b = rec[u], Heads(u, b)' PROVE Heads(u, rec[u])'
      BY <3>1 DEF Heads, Room
    <3> QED
      BY <2>2, <3>1
  <2>6. Holds(rec[u], disk[rec[u] * size + 1].memo)' <=> Holds(rec[u], m)
    <3>1. ASSUME NEW b, b = rec[u], NEW n, n = m
          PROVE  Holds(b, n)' <=> Holds(rec[u], disk[rec[u] * size + 1].memo)'
      BY <2>5, <3>1 DEF Holds, HasData
    <3> QED
      BY <2>3, <2>4, <3>1
  <2>7. Content(u) = IF Holds(rec[u], m) THEN m ELSE Garbled
    BY <1>2, <2>1, ContentOf
  <2>8. Content(u)' = IF Holds(rec[u], disk[rec[u] * size + 1].memo)' THEN m ELSE Garbled
    BY <1>2, <2>5 DEF Content, Heads
  <2> QED
    BY <2>6, <2>7, <2>8
<1> QED
  BY <1>1, <1>2

LEMMA ShownNext ==
  TypeOK' => \A w \in Rows, m \in Memo :
               /\ rec'[w] # 0 /\ Room(w, rec[w], m)' /\ Holds(rec[w], m)' => Content(w)' = m
               /\ rec'[w] # 0 /\ Heads(w, rec[w])' /\ disk'[rec'[w] * size' + 1] = BlockHead(m)
                    => Content(w)' \in {m, Garbled}
<1>1. TypeOK => \A w \in Rows, m \in Memo :
                  /\ rec[w] # 0 /\ Room(w, rec[w], m) /\ Holds(rec[w], m) => Content(w) = m
                  /\ rec[w] # 0 /\ Heads(w, rec[w]) /\ disk[rec[w] * size + 1] = BlockHead(m)
                       => Content(w) \in {m, Garbled}
  BY ContentHeld, ContentTorn
<1>2. (TypeOK => \A w \in Rows, m \in Memo :
                  /\ rec[w] # 0 /\ Room(w, rec[w], m) /\ Holds(rec[w], m) => Content(w) = m
                  /\ rec[w] # 0 /\ Heads(w, rec[w]) /\ disk[rec[w] * size + 1] = BlockHead(m)
                       => Content(w) \in {m, Garbled})'
  BY <1>1, PTL
<1> QED
  BY <1>2 DEF BlockHead

LEMMA OthersShow ==
  ASSUME Disciplined, IInv, NEW w \in Rows, Step(w), NEW u \in Rows, u # w
  PROVE  Content(u)' = Content(u)
BY OthersFrame, OtherBlocks, ContentKept DEF IInv

(* Storing the address shows the memo, ...                                 *)
LEMMA StoreShows ==
  ASSUME Disciplined, IInv, NEW w \in Rows, Store(w)
  PROVE  Content(w)' = val[w]
<1>1. /\ pc[w] = "store" /\ rec'[w] = at[w] /\ UNCHANGED <<disk, size, extent>> /\ TypeOK /\ TypeOK'
      /\ val[w] \in Memo
  BY StepType DEF Store, Stored, IInv, TypeOK, Step, Elsewhere, Writing
<1>2. IF at[w] = 0 THEN val[w] = NoMemo ELSE Room(w, at[w], val[w]) /\ Holds(at[w], val[w])
  BY <1>1 DEF IInv, ContentInv
<1>3. CASE at[w] = 0
  BY <1>1, <1>2, <1>3 DEF Content, NoMemo
<1>4. CASE at[w] # 0
  <2>1. ASSUME NEW m, m = val[w] PROVE Room(w, rec[w], m)' /\ Holds(rec[w], m)'
    BY <1>1, <1>2, <1>4, <2>1 DEF Room, Holds, HasData, BlockHead, Data
  <2> QED
    BY <1>1, <1>4, <2>1, ShownNext
<1> QED
  BY <1>3, <1>4

(* ... and so does writing it over the memo the record points to.          *)
LEMMA DataWriteShows ==
  ASSUME Disciplined, IInv, NEW w \in Rows, DataWrite(w)
  PROVE  Content(w)' = IF rec[w] = at[w] THEN val[w] ELSE Content(w)
<1>1. /\ pc[w] = "dataWrite" /\ UNCHANGED <<rec, at, val, size, extent>> /\ TypeOK /\ TypeOK'
      /\ CursorInv /\ val[w] \in Memo /\ Room(w, at[w], val[w])
  BY StepType DEF DataWrite, IInv, TypeOK, Step, Writing, Critical, AddressInv, hist
<1>2. at[w] # 0
  BY <1>1, MemoAssumption DEF IInv, ExtentInv, Room, Disciplined
<1>3. CASE rec[w] = at[w]
  <2>1. Holds(at[w], val[w])'
    BY <1>1, ImageHeld
  <2>2. ASSUME NEW m, m = val[w] PROVE Room(w, rec[w], m)' /\ Holds(rec[w], m)'
    BY <1>1, <1>3, <2>1, <2>2 DEF Room, Holds, HasData, BlockHead, Data
  <2> QED
    BY <1>1, <1>2, <1>3, <2>2, ShownNext
<1>4. CASE rec[w] # at[w]
  BY <1>1, <1>4, ContentKept DEF Step
<1> QED
  BY <1>3, <1>4

(* A failure of that shows the old memo, the new one, or damage; any other *)
(* failure changes nothing, ...                                            *)
LEMMA WriteFailShows ==
  ASSUME Disciplined, IInv, NEW w \in Rows, WriteFail(w)
  PROVE  Content(w)' \in {Content(w), val[w], Garbled}
<1>1. /\ UNCHANGED <<rec, at, val, size, extent>> /\ TypeOK /\ TypeOK' /\ Step(w)
  BY StepType DEF WriteFail, IInv, Step, hist
<1>2. CASE pc[w] = "dataWrite" /\ rec[w] = at[w] /\ rec[w] # 0
  <2>1. val[w] \in Memo
    BY <1>1, <1>2 DEF TypeOK, Writing, Critical
  <2>2. Heads(w, rec[w])'
    BY <1>1, <1>2, OwnHead
  <2>3. CASE disk' = disk
    BY <1>1, <2>3 DEF Content, Holds, HasData, NoMemo, BlockHead, Data
  <2>4. CASE disk'[at[w] * size + 1] = BlockHead(val[w])
    BY <1>1, <1>2, <2>1, <2>2, <2>4, ShownNext
  <2> QED
    BY <1>2, <2>3, <2>4, TornWrite DEF IInv
<1>3. CASE rec[w] # 0 => (pc[w] = "dataWrite" => at[w] # rec[w])
  BY <1>1, <1>3, ContentKept
<1> QED
  BY <1>2, <1>3

(* ... and neither does any other step.                                    *)
LEMMA OtherStepsShow ==
  ASSUME Disciplined, IInv, NEW w \in Rows, Step(w),
         ~(Store(w) \/ DataWrite(w) \/ WriteFail(w))
  PROVE  Content(w)' = Content(w)
<1>1. pc[w] # "dataWrite" /\ rec' = rec
  BY RecordFrame DEF IInv
<1> QED
  BY <1>1, ContentKept

LEMMA CrashShows ==
  ASSUME HeaderInv, Crash PROVE \A w \in Rows : Content(w)' = Content(w)
<1>1. size' = size
  BY DEF Crash, SizeOnDisk, HeaderInv
<1>2. UNCHANGED <<disk, rec>>
  BY DEF Crash
<1> QED
  BY <1>1, <1>2 DEF Content, Holds, HasData, NoMemo, BlockHead, Data

(* Steps and their faults.                                                 *)
LEMMA StepFaults ==
  ASSUME NEW w \in Rows, Step(w)
  PROVE  faults' = IF Fail(w) \/ StoreFail(w) \/ WriteFail(w) THEN faults + 1 ELSE faults
<1>1. CASE Fail(w) \/ StoreFail(w) \/ WriteFail(w)
  BY <1>1 DEF Fail, StoreFail, WriteFail, Fault
<1>2. CASE ~(Fail(w) \/ StoreFail(w) \/ WriteFail(w))
  BY <1>2 DEF Step, Elsewhere, SetValue, LockRow, NoData, Lock, DataSeek, Store, Return, ReadEmpty,
              ReadBegin, ReadSeek, ReadHead, ReadNoHead, ReadData, Place, HdrWrite, HdrPad,
              DataWrite
<1> QED
  BY <1>1, <1>2

LEMMA GarbledApart == Garbled \notin Memo
BY ValuesAssumption

LEMMA DamageFinite ==
  ASSUME NEW S \in SUBSET Rows
  PROVE  IsFiniteSet(S) /\ Cardinality(S) \in Nat
<1>1. IsFiniteSet(Rows)
  BY MemoAssumption, FS_Interval DEF Rows
<1> QED
  BY <1>1, FS_Subset, FS_CardinalityType

LEMMA DamageStep ==
  ASSUME Disciplined, IInv, [Next]_vars PROVE DamageInv'
<1> DEFINE Bad == {w \in Rows : Content(w) = Garbled}
           BadNext == {w \in Rows : Content(w)' = Garbled}
<1>0. /\ Cardinality(Bad) <= faults /\ faults \in Nat /\ TypeOK /\ HeaderInv
      /\ Bad \in SUBSET Rows /\ BadNext \in SUBSET Rows
  BY DEF IInv, DamageInv, TypeOK
<1>s. /\ IsFiniteSet(Bad) /\ Cardinality(Bad) \in Nat
      /\ IsFiniteSet(BadNext) /\ Cardinality(BadNext) \in Nat
  BY <1>0, DamageFinite
<1>q. Cardinality(BadNext) <= faults' => DamageInv'
  BY DEF DamageInv
<1>1. ASSUME NEW w \in Rows, Step(w), ~WriteFail(w) PROVE DamageInv'
  <2>1. \A u \in Rows \ {w} : Content(u)' = Content(u)
    BY <1>1, OthersShow
  <2>2. Content(w)' = Garbled => Content(w) = Garbled
    <3>1. CASE Store(w) \/ DataWrite(w)
      <4>1. val[w] \in Memo
        BY <1>0, <3>1 DEF TypeOK, Store, DataWrite, Writing, Critical
      <4> QED
        BY <3>1, <4>1, StoreShows, DataWriteShows, GarbledApart
    <3>2. CASE ~(Store(w) \/ DataWrite(w))
      BY <1>1, <3>2, OtherStepsShow
    <3> QED
      BY <3>1, <3>2
  <2>3. BadNext \subseteq Bad
    BY <2>1, <2>2
  <2>4. faults' = faults \/ faults' = faults + 1
    BY <1>1, StepFaults
  <2>5. Cardinality(BadNext) <= Cardinality(Bad)
    BY <1>s, <2>3, FS_Subset
  <2> QED
    BY <1>0, <1>s, <1>q, <2>4, <2>5
<1>2. ASSUME NEW w \in Rows, WriteFail(w) PROVE DamageInv'
  <2>1. \A u \in Rows \ {w} : Content(u)' = Content(u)
    BY <1>2, OthersShow DEF Step
  <2>2. BadNext \subseteq Bad \cup {w}
    BY <2>1
  <2>3. faults' = faults + 1
    BY <1>2 DEF WriteFail, Fault
  <2>4. /\ IsFiniteSet(Bad \cup {w})
        /\ Cardinality(Bad \cup {w}) = IF w \in Bad THEN Cardinality(Bad) ELSE Cardinality(Bad) + 1
    BY <1>s, FS_AddElement
  <2>5. Cardinality(BadNext) <= Cardinality(Bad \cup {w})
    BY <2>2, <2>4, FS_Subset
  <2> HIDE DEF Bad, BadNext
  <2> QED
    BY <1>0, <1>s, <1>q, <2>3, <2>4, <2>5
<1>3. CASE Crash
  <2>1. BadNext = Bad
    BY <1>0, <1>3, CrashShows
  <2>2. faults' = faults + 1
    BY <1>3 DEF Crash, Fault
  <2> QED
    BY <1>0, <1>s, <1>q, <2>1, <2>2
<1>4. CASE UNCHANGED vars
  <2>1. \A w \in Rows : Content(w)' = Content(w)
    BY <1>4 DEF vars, file, Content, Holds, HasData, NoMemo, BlockHead, Data
  <2>2. BadNext = Bad
    BY <2>1
  <2>3. faults' = faults
    BY <1>4 DEF vars
  <2> QED
    BY <1>0, <1>q, <2>2, <2>3
<1> QED
  BY <1>1, <1>2, <1>3, <1>4, NextCases DEF Step

LEMMA InitInvariant == ASSUME Disciplined, Init PROVE IInv
<1>1. TypeOK
  BY InitType
<1>2. /\ \A w \in Rows : /\ pc[w] = "idle" /\ rec[w] = 0 /\ memoPos[w] = 0
                         /\ acked[w] = NoMemo /\ val[w] = NoMemo
      /\ dbaseMutex = None /\ memoMutex = None /\ DOMAIN extent = {}
      /\ size = BlockSize /\ next = FirstFree
  BY DEF Init
<1>3. Len(disk) >= 1 /\ disk[1] = Header(FirstFree, BlockSize)
  <2> DEFINE n == Larger(FileHead, FirstFree * BlockSize)
  <2>1. n \in Nat /\ n >= 1
    BY MemoAssumption DEF Larger
  <2>2. disk = [k \in 1..n |-> IF k = 1 THEN Header(FirstFree, BlockSize) ELSE Zero]
    BY DEF Init
  <2> HIDE DEF n
  <2> QED
    BY <2>1, <2>2
<1>n. None \notin Rows
  BY ValuesAssumption
<1>4. MutexOK /\ QuietInv /\ CursorInv /\ ReadInv
  BY <1>2, <1>n DEF MutexOK, QuietInv, CursorInv, ReadInv, Critical, Reading
<1>5. HeaderInv
  BY <1>2, <1>3, MemoAssumption DEF HeaderInv, Header
<1>6. ExtentInv /\ AddressInv /\ ContentInv
  BY <1>2 DEF ExtentInv, AddressInv, ContentInv, Has, NoMemo, Critical
<1>7. HeadInv
  BY <1>2 DEF HeadInv
<1>8. DamageInv
  <2>1. {w \in Rows : Content(w) = Garbled} = {}
    BY <1>2, NoMemoType, GarbledApart DEF Content
  <2>2. faults = 0
    BY DEF Init
  <2> QED
    BY <2>1, <2>2, FS_EmptySet DEF DamageInv
<1> QED
  BY <1>1, <1>4, <1>5, <1>6, <1>7, <1>8 DEF IInv

LEMMA NextInvariant == ASSUME Disciplined, IInv, [Next]_vars PROVE IInv'
<1>1. TypeOK'
  BY NextType DEF IInv
<1>2. MutexOK' /\ QuietInv' /\ CursorInv'
  BY MutexStep, QuietStep, CursorStep DEF IInv
<1>3. HeaderInv' /\ ExtentInv' /\ AddressInv'
  BY <1>1, HeaderStep, ExtentStep, AddressStep
<1>4. ContentInv' /\ ReadInv'
  BY ContentStep, ReadStep
<1>5. HeadInv' /\ DamageInv'
  BY HeadStep, DamageStep
<1> QED
  BY <1>1, <1>2, <1>3, <1>4, <1>5 DEF IInv

(* With memos that fit the blocks counted for them, that do not outgrow    *)
(* them, and that nobody reads while others are written, all parts of the  *)
(* invariant hold, after every fault and crash.                            *)
THEOREM Invariance ==
  ASSUME Disciplined PROVE Spec => []IInv
<1>1. Init => IInv
  BY InitInvariant
<1>2. IInv /\ [Next]_vars => IInv'
  BY NextInvariant
<1> QED
  BY <1>1, <1>2, PTL DEF Spec

(* Then a memo stays as it was until its own row is written again, ...     *)
THEOREM MemosAreKept ==
  ASSUME Disciplined PROVE Spec => []MemosKept
<1>1. IInv => MemosKept
  BY DEF IInv, ContentInv, MemosKept
<1> QED
  BY <1>1, Invariance, PTL

(* ... every goroutine finds in its row what it wrote there, ...           *)
THEOREM RowsReadBack ==
  ASSUME Disciplined PROVE Spec => []ReadsBack
<1>1. IInv => ReadsBack
  BY DEF IInv, ReadInv, ReadsBack
<1> QED
  BY <1>1, Invariance, PTL

(* ... no two memos share a block, ...                                     *)
THEOREM BlocksAreApart ==
  ASSUME Disciplined PROVE Spec => []BlocksApart
<1>1. IInv => BlocksApart
  BY DEF IInv, ExtentInv, BlocksApart
<1> QED
  BY <1>1, Invariance, PTL

(* ... and the header on disk counts every block in use.                   *)
THEOREM HeaderIsAhead ==
  ASSUME Disciplined PROVE Spec => []HeaderAhead
<1>1. IInv => HeaderAhead
  BY DEF IInv, ExtentInv, HeaderInv, HeaderAhead, NextOnDisk
<1> QED
  BY <1>1, Invariance, PTL

(***************************************************************************)
(* The refinement.                                                         *)
(***************************************************************************)
Shown == [w \in Rows |-> Content(w)]
Calls == [w \in Rows |-> CallOf(w)]

Writes(w, m, st) == [op |-> "update", at |-> w, val |-> m, st |-> st]

LEMMA CallLabels ==
  ASSUME NEW w \in Rows
  PROVE  /\ pc[w] \in Asked  => CallOf(w) = Writes(w, val[w], "asked")
         /\ pc[w] = "store" =>
              CallOf(w) = Writes(w, val[w], IF rec[w] = at[w] THEN "done" ELSE "asked")
         /\ pc[w] = "ret"   =>
              CallOf(w) = Writes(w, val[w], IF rec[w] = at[w] THEN "done" ELSE "refused")
         /\ pc[w] \in {"readSeek", "readHead", "readData"} => CallOf(w) = Read(w, None, "asked")
         /\ pc[w] = "seen"  =>
              CallOf(w) = IF rec[w] = 0 THEN NoCall ELSE Read(w, val[w], "done")
         /\ pc[w] \in AtRest => CallOf(w) = NoCall
BY DEF CallOf, Update, Writes, Asked, Critical, AtRest

LEMMA CallLabelsNext ==
  ASSUME NEW w \in Rows
  PROVE  /\ pc'[w] \in Asked  => CallOf(w)' = Writes(w, val'[w], "asked")
         /\ pc'[w] = "store" =>
              CallOf(w)' = Writes(w, val'[w], IF rec'[w] = at'[w] THEN "done" ELSE "asked")
         /\ pc'[w] = "ret"   =>
              CallOf(w)' = Writes(w, val'[w], IF rec'[w] = at'[w] THEN "done" ELSE "refused")
         /\ pc'[w] \in {"readSeek", "readHead", "readData"} => CallOf(w)' = Read(w, None, "asked")
         /\ pc'[w] = "seen"  =>
              CallOf(w)' = IF rec'[w] = 0 THEN NoCall ELSE Read(w, val'[w], "done")
         /\ pc'[w] \in AtRest => CallOf(w)' = NoCall
BY DEF CallOf, Update, Read, NoCall, Writes, Asked, Critical, AtRest

LEMMA WritesAnswered ==
  ASSUME NEW w, NEW m, NEW s, NEW t
  PROVE  [Writes(w, m, s) EXCEPT !.st = t] = Writes(w, m, t)
BY DEF Writes

LEMMA ReadAnswered ==
  ASSUME NEW w, NEW v
  PROVE  [Read(w, None, "asked") EXCEPT !.val = v, !.st = "done"] = Read(w, v, "done")
<1> DEFINE r == Read(w, None, "asked")
<1>1. r = [op |-> "read", at |-> w, val |-> None, st |-> "asked"]
  BY DEF Read
<1> HIDE DEF r
<1>2. [r EXCEPT !.val = v, !.st = "done"] = [[r EXCEPT !.val = v] EXCEPT !.st = "done"]
  BY <1>1
<1>3. [r EXCEPT !.val = v] = [op |-> "read", at |-> w, val |-> v, st |-> "asked"]
  BY <1>1
<1>4. [[op |-> "read", at |-> w, val |-> v, st |-> "asked"] EXCEPT !.st = "done"]
        = [op |-> "read", at |-> w, val |-> v, st |-> "done"]
  OBVIOUS
<1>5. Read(w, v, "done") = [op |-> "read", at |-> w, val |-> v, st |-> "done"]
  BY DEF Read
<1> QED
  BY <1>2, <1>3, <1>4, <1>5 DEF r

LEMMA CallFields ==
  ASSUME NEW w, NEW m, NEW s
  PROVE  /\ Writes(w, m, s).st = s /\ Writes(w, m, s).op = "update"
         /\ Writes(w, m, s).at = w /\ Writes(w, m, s).val = m
         /\ Read(w, m, s).st = s /\ Read(w, m, s).op = "read" /\ Read(w, m, s).at = w
BY DEF Writes, Read

(* The steps of FaultyStore, over the memos shown and the calls.           *)
LEMMA MemosStutter ==
  Shown' = Shown /\ Calls' = Calls /\ faults' = faults => UNCHANGED Memos!faultyVars
BY DEF Memos!faultyVars, Memos!vars, Shown, Calls

LEMMA MemosBegin ==
  ASSUME NEW p
  PROVE  Memos!Begin(p) <=> /\ Calls[p] = NoCall
                            /\ Calls'[p] \in Memos!Requests
                            /\ Calls' = [Calls EXCEPT ![p] = Calls'[p]]
                            /\ Shown' = Shown
BY DEF Memos!Begin, Shown, Calls, NoCall, Memos!NoCall

LEMMA MemosApply ==
  ASSUME NEW p, Calls[p].st = "asked", Calls[p].at \in DOMAIN Shown,
         \/ /\ Calls[p].op = "update"
            /\ Shown' = [Shown EXCEPT ![Calls[p].at] = Calls[p].val]
            /\ Calls' = [Calls EXCEPT ![p].st = "done"]
         \/ /\ Calls[p].op = "read"
            /\ Calls' = [Calls EXCEPT ![p].val = Shown[Calls[p].at], ![p].st = "done"]
            /\ Shown' = Shown
  PROVE  Memos!Apply(p)
BY DEF Memos!Apply, Shown, Calls

LEMMA MemosRefuse ==
  ASSUME NEW p
  PROVE  Memos!Refuse(p) <=> /\ Calls[p].st = "asked"
                             /\ Calls' = [Calls EXCEPT ![p].st = "refused"]
                             /\ Shown' = Shown
BY DEF Memos!Refuse, Shown, Calls

LEMMA MemosReturn ==
  ASSUME NEW p
  PROVE  Memos!Return(p) <=> /\ Calls[p].st \in {"done", "refused"}
                             /\ Calls' = [Calls EXCEPT ![p] = NoCall]
                             /\ Shown' = Shown
BY DEF Memos!Return, Shown, Calls, NoCall, Memos!NoCall

LEMMA MemosReadFails ==
  ASSUME NEW p
  PROVE  Memos!ReadFails(p) <=> /\ Calls[p].st = "asked" /\ Calls[p].op = "read"
                                /\ Calls[p].at \in Memos!DamagedRows(Shown)
                                /\ Calls' = [Calls EXCEPT ![p] = NoCall]
                                /\ Shown' = Shown
BY DEF Memos!ReadFails, Shown, Calls, NoCall, Memos!NoCall

LEMMA SameCardinality == \A S : Memos!Cardinality(S) = Cardinality(S)
BY DEF Memos!Cardinality, Cardinality

LEMMA MemosLeftBehind ==
  ASSUME NEW p,
         \/ Shown' = Shown
         \/ /\ Calls[p].op = "update" /\ Calls[p].at \in DOMAIN Shown
            /\ \E content \in {Calls[p].val, Garbled} :
                 Shown' = [Shown EXCEPT ![Calls[p].at] = content]
  PROVE  Memos!LeftBehind(p)
BY DEF Memos!LeftBehind, Shown, Calls

LEMMA MemosLose ==
  ASSUME NEW p
  PROVE  /\ Calls[p].st \in {"asked", "done"} /\ faults' = faults + 1
         /\ Memos!LeftBehind(p)
         /\ Cardinality(Memos!DamagedRows(Shown')) <= faults'
         /\ Calls' = [Calls EXCEPT ![p] = NoCall]
         => Memos!Lose(p)
BY SameCardinality DEF Memos!Lose, Shown, Calls, NoCall, Memos!NoCall

LEMMA MemosCrash ==
  Memos!Crash <=> /\ faults' = faults + 1
                  /\ Calls' = [c \in Rows |-> NoCall]
                  /\ Shown' = Shown
BY DEF Memos!Crash, Shown, Calls, NoCall, Memos!NoCall

LEMMA MemosSteps ==
  ASSUME NEW w \in Rows
  PROVE  /\ \/ Memos!Begin(w) \/ Memos!Apply(w) \/ Memos!Refuse(w) \/ Memos!Return(w)
            \/ Memos!ReadFails(w)
            => (faults' = faults => Memos!FaultyNext)
         /\ Memos!Lose(w) => Memos!FaultyNext
BY DEF Memos!FaultyNext, Memos!Step

LEMMA FewDamaged == DamageInv' => Cardinality(Memos!DamagedRows(Shown')) <= faults'
<1>1. Memos!DamagedRows(Shown') = {w \in Rows : Content(w)' = Garbled}
  BY DEF Memos!DamagedRows, Shown
<1> QED
  BY <1>1 DEF DamageInv

(* The step of goroutine w changes its own row and call.                   *)
LEMMA OthersSame ==
  ASSUME Disciplined, IInv, NEW w \in Rows, Step(w)
  PROVE  \A u \in Rows \ {w} : Content(u)' = Content(u) /\ CallOf(u)' = CallOf(u)
<1> SUFFICES ASSUME NEW u \in Rows, u # w
             PROVE  Content(u)' = Content(u) /\ CallOf(u)' = CallOf(u)
  OBVIOUS
<1>1. /\ pc'[u] = pc[u] /\ val'[u] = val[u] /\ at'[u] = at[u] /\ rec'[u] = rec[u]
  BY OthersFrame DEF IInv
<1> QED
  BY <1>1, OthersShow DEF CallOf, Update, Read, NoCall

LEMMA Changes ==
  ASSUME NEW w \in Rows,
         \A u \in Rows \ {w} : Content(u)' = Content(u) /\ CallOf(u)' = CallOf(u)
  PROVE  /\ Shown' = [Shown EXCEPT ![w] = Content(w)']
         /\ Content(w)' = Content(w) => Shown' = Shown
         /\ Calls' = [Calls EXCEPT ![w] = CallOf(w)']
         /\ CallOf(w)' = CallOf(w) => Calls' = Calls
         /\ \A st : CallOf(w)' = [CallOf(w) EXCEPT !.st = st] =>
                   Calls' = [Calls EXCEPT ![w].st = st]
         /\ \A v, st : CallOf(w)' = [CallOf(w) EXCEPT !.val = v, !.st = st]
                         => Calls' = [Calls EXCEPT ![w].val = v, ![w].st = st]
         /\ Calls[w] = CallOf(w) /\ Calls'[w] = CallOf(w)' /\ Shown[w] = Content(w)
         /\ DOMAIN Shown = Rows
BY DEF Shown, Calls

(* What the invariant says of a write that is done with the memo file.     *)
LEMMA NothingToWrite ==
  ASSUME IInv, NEW w \in Rows, NoData(w)
  PROVE  /\ pc[w] = "begin" /\ pc'[w] \in {"store", "ret"} /\ at'[w] = 0
         /\ UNCHANGED <<rec, val, faults>> /\ val[w] = NoMemo
<1>1. val[w].len = 0 /\ pc[w] = "begin"
  BY DEF NoData
<1>2. val[w] = NoMemo
  BY <1>1 DEF IInv, ContentInv
<1> QED
  BY <1>1, <1>2 DEF NoData, After, Goto, IInv, TypeOK, file

LEMMA WriteStepRefines ==
  ASSUME Disciplined, IInv, IInv', NEW w \in Rows, WriteSteps(w)
  PROVE  Memos!FaultyNext \/ UNCHANGED Memos!faultyVars
<1>s. Step(w)
  BY DEF Step, Elsewhere, WriteSteps
<1>t. TypeOK /\ TypeOK'
  BY DEF IInv
<1>f. faults' = faults
  BY <1>s, StepFaults
      DEF WriteSteps, SetValue, LockRow, NoData, Lock, Place, HdrWrite, HdrPad, DataSeek, DataWrite,
          Store, Return
<1>c. /\ Shown' = [Shown EXCEPT ![w] = Content(w)']
      /\ Content(w)' = Content(w) => Shown' = Shown
      /\ Calls' = [Calls EXCEPT ![w] = CallOf(w)']
      /\ CallOf(w)' = CallOf(w) => Calls' = Calls
      /\ \A st : CallOf(w)' = [CallOf(w) EXCEPT !.st = st] => Calls' = [Calls EXCEPT ![w].st = st]
      /\ Calls[w] = CallOf(w) /\ Calls'[w] = CallOf(w)' /\ Shown[w] = Content(w)
      /\ DOMAIN Shown = Rows
  BY <1>s, OthersSame, Changes
<1>i. ASSUME CallOf(w)' = CallOf(w), Content(w)' = Content(w) PROVE UNCHANGED Memos!faultyVars
  BY <1>c, <1>f, <1>i, MemosStutter
<1>a. ASSUME CallOf(w) = Writes(w, val[w], "asked"), CallOf(w)' = Writes(w, val[w], "done"),
             Content(w)' = val[w]
      PROVE  Memos!FaultyNext
  <2>1. CallOf(w)' = [CallOf(w) EXCEPT !.st = "done"]
    BY <1>a, WritesAnswered
  <2>2. Calls' = [Calls EXCEPT ![w].st = "done"]
    BY <1>c, <2>1
  <2>3. Calls[w].st = "asked" /\ Calls[w].op = "update" /\ Calls[w].at = w /\ Calls[w].val = val[w]
    BY <1>a, <1>c, CallFields
  <2>4. Shown' = [Shown EXCEPT ![Calls[w].at] = Calls[w].val]
    BY <1>a, <1>c, <2>3
  <2>5. Memos!Apply(w)
    BY <1>c, <2>2, <2>3, <2>4, MemosApply
  <2> QED
    BY <1>f, <2>5, MemosSteps
<1>x. ASSUME CallOf(w) = Writes(w, val[w], "asked"), CallOf(w)' = Writes(w, val[w], "refused"),
             Content(w)' = Content(w)
      PROVE  Memos!FaultyNext
  <2>1. CallOf(w)' = [CallOf(w) EXCEPT !.st = "refused"]
    BY <1>x, WritesAnswered
  <2>2. Calls' = [Calls EXCEPT ![w].st = "refused"]
    BY <1>c, <2>1
  <2>3. Calls[w].st = "asked" /\ Shown' = Shown
    BY <1>c, <1>x, CallFields
  <2>4. Memos!Refuse(w)
    BY <2>2, <2>3, MemosRefuse
  <2> QED
    BY <1>f, <2>4, MemosSteps
<1>1. CASE SetValue(w)
  <2>1. pc[w] = "idle" /\ pc'[w] \in {"lockRow", "begin"} /\ val'[w] \in Memo
    <3>1. pc[w] = "idle" /\ \E label \in {"lockRow", "begin"} : pc' = [pc EXCEPT ![w] = label]
      BY <1>1 DEF SetValue, Goto
    <3>2. pc'[w] \in {"lockRow", "begin"}
      BY <1>t, <3>1 DEF TypeOK
    <3>3. val'[w] \in Memo
      BY <1>t, <3>2 DEF TypeOK, Writing
    <3> QED
      BY <3>1, <3>2, <3>3
  <2>2. CallOf(w) = NoCall /\ CallOf(w)' = Writes(w, val'[w], "asked")
    BY <2>1, CallLabels, CallLabelsNext DEF AtRest, Asked
  <2>3. Content(w)' = Content(w)
    BY <1>1, <1>s, <1>t, OtherStepsShow DEF SetValue, Store, DataWrite, WriteFail
  <2>4. Writes(w, val'[w], "asked") \in Memos!Requests
    BY <1>c, <2>1 DEF Writes, Memos!Requests, Shown
  <2>5. Calls[w] = NoCall /\ Calls'[w] \in Memos!Requests
       /\ Calls' = [Calls EXCEPT ![w] = Calls'[w]]
    BY <1>c, <2>2, <2>4
  <2>6. Memos!Begin(w)
    BY <1>c, <2>3, <2>5, MemosBegin
  <2> QED
    BY <1>f, <2>6, MemosSteps
<1>2. CASE LockRow(w) \/ Lock(w) \/ Place(w) \/ HdrWrite(w) \/ HdrPad(w) \/ DataSeek(w)
  <2>1. pc[w] \in Asked /\ pc'[w] \in Asked /\ val' = val
    <3>1. pc[w] \in Asked /\ val' = val
      BY <1>2 DEF LockRow, Lock, Place, HdrWrite, HdrPad, DataSeek, Asked, Critical
    <3>2. \E label \in Asked : pc' = [pc EXCEPT ![w] = label]
      BY <1>2 DEF LockRow, Lock, Place, HdrWrite, HdrPad, DataSeek, Goto, Asked, Critical
    <3> QED
      BY <1>t, <3>1, <3>2 DEF TypeOK
  <2>2. CallOf(w)' = CallOf(w)
    BY <2>1, CallLabels, CallLabelsNext
  <2>3. ~(Store(w) \/ DataWrite(w) \/ WriteFail(w))
    <3>1. pc[w] \in {"lockRow", "begin", "place", "hdrWrite", "hdrPad", "dataSeek"}
      BY <1>2 DEF LockRow, Lock, Place, HdrWrite, HdrPad, DataSeek
    <3>2. ~WriteFail(w)
      BY <1>f, <1>t, SMTT(30) DEF WriteFail, Fault, TypeOK
    <3> QED
      BY <3>1, <3>2 DEF Store, DataWrite
  <2> QED
    BY <1>i, <1>s, <2>2, <2>3, OtherStepsShow
<1>3. CASE NoData(w)
  <2>1. /\ pc[w] = "begin" /\ pc'[w] \in {"store", "ret"} /\ at'[w] = 0
        /\ UNCHANGED <<rec, val>> /\ val[w] = NoMemo
    BY <1>3, NothingToWrite
  <2>2. CallOf(w) = Writes(w, val[w], "asked")
    BY <2>1, CallLabels DEF Asked
  <2>3. Content(w)' = Content(w)
    BY <1>3, <1>s, OtherStepsShow DEF NoData, Store, DataWrite, WriteFail
  <2>4. CASE rec[w] = 0
    <3>1. CallOf(w)' = Writes(w, val[w], "done")
      BY <2>1, <2>4, CallLabelsNext
    <3>2. Content(w)' = val[w]
      BY <2>1, <2>3, <2>4 DEF Content
    <3> QED
      BY <1>a, <2>2, <3>1, <3>2
  <2>5. CASE rec[w] # 0 /\ pc'[w] = "store"
    <3>1. CallOf(w)' = Writes(w, val[w], "asked")
      BY <2>1, <2>5, CallLabelsNext
    <3> QED
      BY <1>i, <2>2, <2>3, <3>1
  <2>6. CASE rec[w] # 0 /\ pc'[w] = "ret"
    <3>1. CallOf(w)' = Writes(w, val[w], "refused")
      BY <2>1, <2>6, CallLabelsNext
    <3> QED
      BY <1>x, <2>2, <2>3, <3>1
  <2> QED
    BY <2>1, <2>4, <2>5, <2>6
<1>4. CASE DataWrite(w)
  <2>1. /\ pc[w] = "dataWrite" /\ pc'[w] \in {"store", "ret"} /\ UNCHANGED <<rec, val, at>>
    BY <1>4, <1>t DEF DataWrite, Leave, After, Goto, TypeOK
  <2>2. CallOf(w) = Writes(w, val[w], "asked")
    BY <2>1, CallLabels DEF Asked, Critical
  <2>3. Content(w)' = IF rec[w] = at[w] THEN val[w] ELSE Content(w)
    BY <1>4, DataWriteShows
  <2>4. CASE rec[w] = at[w]
    <3>1. CallOf(w)' = Writes(w, val[w], "done")
      BY <2>1, <2>4, CallLabelsNext
    <3> QED
      BY <1>a, <2>2, <2>3, <2>4, <3>1
  <2>5. CASE rec[w] # at[w] /\ pc'[w] = "store"
    <3>1. CallOf(w)' = Writes(w, val[w], "asked")
      BY <2>1, <2>5, CallLabelsNext
    <3> QED
      BY <1>i, <2>2, <2>3, <2>5, <3>1
  <2>6. CASE rec[w] # at[w] /\ pc'[w] = "ret"
    <3>1. CallOf(w)' = Writes(w, val[w], "refused")
      BY <2>1, <2>6, CallLabelsNext
    <3> QED
      BY <1>x, <2>2, <2>3, <2>6, <3>1
  <2> QED
    BY <2>1, <2>4, <2>5, <2>6
<1>5. CASE Store(w)
  <2>1. /\ pc[w] = "store" /\ pc'[w] = "ret" /\ UNCHANGED <<val, at>> /\ rec'[w] = at[w]
    BY <1>5, <1>t DEF Store, Stored, Goto, TypeOK
  <2>2. CallOf(w)' = Writes(w, val[w], "done") /\ Content(w)' = val[w]
    BY <1>5, <2>1, CallLabelsNext, StoreShows
  <2>3. CASE rec[w] = at[w]
    <3>1. CallOf(w) = Writes(w, val[w], "done")
      BY <2>1, <2>3, CallLabels
    <3>2. Content(w)' = Content(w)
      BY <1>5, <1>s, <1>t, <2>1, <2>3, ContentKept
    <3> QED
      BY <1>i, <2>2, <3>1, <3>2
  <2>4. CASE rec[w] # at[w]
    <3>1. CallOf(w) = Writes(w, val[w], "asked")
      BY <2>1, <2>4, CallLabels
    <3> QED
      BY <1>a, <2>2, <3>1
  <2> QED
    BY <2>3, <2>4
<1>6. CASE Return(w)
  <2>1. pc[w] \in {"ret", "seen"} /\ pc'[w] = "idle"
    BY <1>6, <1>t DEF Return, Goto, TypeOK
  <2>2. CallOf(w)' = NoCall /\ (CallOf(w) = NoCall \/ CallOf(w).st \in {"done", "refused"})
    BY <2>1, CallLabels, CallLabelsNext, CallFields DEF AtRest
  <2>3. Content(w)' = Content(w)
    BY <1>6, <1>s, OtherStepsShow DEF Return, Store, DataWrite, WriteFail
  <2>4. CASE CallOf(w) = NoCall
    BY <1>i, <2>2, <2>3, <2>4
  <2>5. CASE CallOf(w).st \in {"done", "refused"}
    <3>1. Memos!Return(w)
      BY <1>c, <2>2, <2>3, <2>5, MemosReturn
    <3> QED
      BY <1>f, <3>1, MemosSteps
  <2> QED
    BY <2>2, <2>4, <2>5
<1> QED
  BY <1>1, <1>2, <1>3, <1>4, <1>5, <1>6 DEF WriteSteps

(* What a reader that is alone finds at the address it has read.           *)
LEMMA ReaderFinds ==
  ASSUME Disciplined, IInv, NEW w \in Rows
  PROVE  /\ ~ReadNoHead(w)
         /\ ReadData(w) =>
              \E v \in Memo \cup {Garbled, Err} :
                /\ Result(w, v)
                /\ v = Err => Content(w) = Garbled
                /\ v # Err => Content(w) = v
<1>0. TypeOK /\ CursorInv /\ AddressInv /\ HeadInv
  BY DEF IInv
<1>1. ASSUME pc[w] \in {"readHead", "readData"}
      PROVE  /\ at[w] = rec[w] /\ rec[w] # 0 /\ Heads(w, rec[w])
             /\ disk[rec[w] * size + 1] = BlockHead(disk[rec[w] * size + 1].memo)
             /\ rec[w] * size \in Nat /\ Len(disk) \in Nat
  <2>1. at[w] = rec[w] /\ rec[w] # 0
    BY <1>0, <1>1 DEF AddressInv
  <2>2. Heads(w, rec[w])
    BY <1>0, <2>1, HeadRows
  <2>3. rec[w] \in Nat /\ size \in Nat /\ disk \in Seq(Cells)
    BY <1>0 DEF TypeOK
  <2> QED
    BY <1>0, <2>1, <2>2, <2>3, HeadsMemo, Product
<1>2. ~ReadNoHead(w)
  <2> SUFFICES ASSUME ReadNoHead(w) PROVE FALSE
    OBVIOUS
  <2>1. pc[w] = "readHead" /\ (cursor >= Len(disk) \/ disk[cursor + 1].kind # "head")
    BY DEF ReadNoHead
  <2>2. cursor = rec[w] * size /\ Heads(w, rec[w]) /\ rec[w] * size \in Nat /\ Len(disk) \in Nat
    BY <1>0, <1>1, <2>1 DEF CursorInv
  <2> QED
    BY <2>1, <2>2 DEF Heads
<1>3. ASSUME ReadData(w)
      PROVE  \E v \in Memo \cup {Garbled, Err} :
               Result(w, v) /\ (v = Err => Content(w) = Garbled) /\ (v # Err => Content(w) = v)
  <2> DEFINE m == val[w]
             v == IF cursor + m.len > Len(disk) THEN Err
                   ELSE IF HasData(cursor, m) THEN m ELSE Garbled
  <2>1. /\ pc[w] = "readData" /\ Result(w, v)
    BY <1>3 DEF ReadData
  <2>2. /\ at[w] = rec[w] /\ rec[w] # 0 /\ Heads(w, rec[w]) /\ rec[w] * size \in Nat
        /\ Len(disk) \in Nat /\ cursor = rec[w] * size + 1
        /\ disk[rec[w] * size + 1] = BlockHead(m)
    BY <1>0, <1>1, <2>1 DEF CursorInv, HeadInv
  <2>3. m \in Memo /\ m.len \in Nat
    BY <1>0, <2>1, MemoLen DEF TypeOK
  <2>4. disk[rec[w] * size + 1].memo = m
    BY <2>2 DEF BlockHead
  <2> HIDE DEF m
  <2>5. Content(w) = IF Holds(rec[w], m) THEN m ELSE Garbled
    BY <2>2, <2>4, ContentOf
  <2>6. rec[w] * size + 1 <= Len(disk)
    BY <2>2 DEF Heads
  <2>7. Holds(rec[w], m) <=> HasData(cursor, m)
    BY <2>2, <2>6 DEF Holds
  <2>8. ASSUME cursor + m.len > Len(disk) PROVE ~HasData(cursor, m)
    <3>1. m.len \in 1..m.len
      BY <2>2, <2>3, <2>6, <2>8
    <3> QED
      BY <2>2, <2>3, <2>8, <3>1 DEF HasData
  <2>9. Err \notin Memo
    BY ValuesAssumption
  <2>10. /\ v \in Memo \cup {Garbled, Err}
         /\ v = Err => Content(w) = Garbled
         /\ v # Err => Content(w) = v
    BY <2>3, <2>5, <2>7, <2>8, <2>9
  <2> QED
    BY <2>1, <2>10
<1> QED
  BY <1>2, <1>3

LEMMA ReadStepRefines ==
  ASSUME Disciplined, IInv, IInv', NEW w \in Rows, ReadSteps(w)
  PROVE  Memos!FaultyNext \/ UNCHANGED Memos!faultyVars
<1>s. Step(w) /\ faults' = faults
  BY DEF Step, Elsewhere, ReadSteps, ReadEmpty, ReadBegin, ReadSeek, ReadHead, ReadNoHead, ReadData
<1>t. TypeOK /\ AddressInv
  BY DEF IInv
<1>r. rec' = rec
  BY DEF ReadSteps, ReadEmpty, ReadBegin, ReadSeek, ReadHead, ReadNoHead, ReadData, file
<1>n. pc[w] \in AtRest \cup {"readSeek", "readHead", "readData"} /\ Content(w)' = Content(w)
  <2>1. pc[w] \in AtRest \cup {"readSeek", "readHead", "readData"}
    BY DEF ReadSteps, ReadEmpty, ReadBegin, ReadSeek, ReadHead, ReadNoHead, ReadData
  <2>2. pc[w] # "dataWrite"
    BY <2>1 DEF AtRest
  <2> QED
    BY <1>s, <1>r, <2>1, <2>2, ContentKept
<1>c. /\ Content(w)' = Content(w) => Shown' = Shown
      /\ Calls' = [Calls EXCEPT ![w] = CallOf(w)']
      /\ CallOf(w)' = CallOf(w) => Calls' = Calls
      /\ \A v, st : CallOf(w)' = [CallOf(w) EXCEPT !.val = v, !.st = st]
                      => Calls' = [Calls EXCEPT ![w].val = v, ![w].st = st]
      /\ Calls[w] = CallOf(w) /\ Calls'[w] = CallOf(w)' /\ Shown[w] = Content(w)
      /\ DOMAIN Shown = Rows
  BY <1>s, OthersSame, Changes
<1>i. ASSUME CallOf(w)' = CallOf(w) PROVE UNCHANGED Memos!faultyVars
  BY <1>c, <1>i, <1>n, <1>s, MemosStutter
<1>1. CASE ReadEmpty(w)
  <2>1. pc[w] \in AtRest /\ pc'[w] = "seen" /\ rec'[w] = 0
    BY <1>1, <1>t, <1>r DEF ReadEmpty, Goto, TypeOK
  <2> QED
    BY <1>i, <2>1, CallLabels, CallLabelsNext
<1>2. CASE ReadBegin(w)
  <2>1. pc[w] \in AtRest /\ pc'[w] = "readSeek"
    BY <1>2, <1>t DEF ReadBegin, Goto, TypeOK
  <2>2. CallOf(w) = NoCall /\ CallOf(w)' = Read(w, None, "asked")
    BY <2>1, CallLabels, CallLabelsNext
  <2>3. Read(w, None, "asked") \in Memos!Requests
    BY DEF Read, Memos!Requests
  <2>4. Calls[w] = NoCall /\ Calls'[w] \in Memos!Requests
       /\ Calls' = [Calls EXCEPT ![w] = Calls'[w]]
    BY <1>c, <2>2, <2>3
  <2>5. Memos!Begin(w)
    BY <1>c, <1>n, <2>4, MemosBegin
  <2> QED
    BY <1>s, <2>5, MemosSteps
<1>3. CASE ReadSeek(w) \/ ReadHead(w)
  <2>1. pc[w] \in {"readSeek", "readHead"} /\ pc'[w] \in {"readHead", "readData"}
    BY <1>3, <1>t DEF ReadSeek, ReadHead, Goto, TypeOK
  <2> QED
    BY <1>i, <2>1, CallLabels, CallLabelsNext
<1>4. CASE ReadData(w)
  <2>1. PICK v \in Memo \cup {Garbled, Err} :
          /\ Result(w, v)
          /\ v = Err => Content(w) = Garbled
          /\ v # Err => Content(w) = v
    BY <1>4, ReaderFinds
  <2>2. pc[w] = "readData" /\ at[w] = rec[w] /\ rec[w] # 0
    BY <1>4, <1>t DEF ReadData, AddressInv
  <2>3. CallOf(w) = Read(w, None, "asked")
    BY <2>2, CallLabels
  <2>4. Calls[w].st = "asked" /\ Calls[w].op = "read" /\ Calls[w].at = w
    <3>1. Calls[w] = Read(w, None, "asked")
      BY <1>c, <2>3
    <3> QED
      BY <3>1 DEF Read
  <2>5. CASE v = Err
    <3>1. pc'[w] = "gone"
      BY <1>t, <2>1, <2>5 DEF Result, Goto, TypeOK
    <3>2. CallOf(w)' = NoCall
      BY <3>1, CallLabelsNext DEF AtRest
    <3>3. Calls[w].at \in Memos!DamagedRows(Shown)
      BY <1>c, <2>1, <2>4, <2>5 DEF Memos!DamagedRows
    <3>4. Calls' = [Calls EXCEPT ![w] = NoCall] /\ Shown' = Shown
      BY <1>c, <1>n, <3>2
    <3>5. Memos!ReadFails(w)
      BY <2>4, <3>3, <3>4, MemosReadFails
    <3> QED
      BY <1>s, <3>5, MemosSteps
  <2>6. CASE v # Err
    <3>1. pc'[w] = "seen" /\ val'[w] = v
      BY <1>t, <2>1, <2>6 DEF Result, Goto, TypeOK
    <3>2. CallOf(w)' = Read(w, v, "done")
      BY <1>r, <2>2, <3>1, CallLabelsNext
    <3>3. CallOf(w)' = [CallOf(w) EXCEPT !.val = v, !.st = "done"]
      BY <2>3, <3>2, ReadAnswered, Zenon
    <3>4. Calls' = [Calls EXCEPT ![w].val = v, ![w].st = "done"]
      BY <1>c, <3>3
    <3>5. v = Shown[Calls[w].at]
      BY <1>c, <2>1, <2>4, <2>6
    <3>6. Shown' = Shown
      BY <1>c, <1>n
    <3>7. Memos!Apply(w)
      BY <1>c, <2>4, <3>4, <3>5, <3>6, MemosApply
    <3> QED
      BY <1>s, <3>7, MemosSteps
  <2> QED
    BY <2>5, <2>6
<1> QED
  BY <1>1, <1>2, <1>3, <1>4, ReaderFinds DEF ReadSteps

LEMMA FaultRefines ==
  ASSUME Disciplined, IInv, IInv', NEW w \in Rows, Fail(w) \/ StoreFail(w) \/ WriteFail(w)
  PROVE  Memos!FaultyNext
<1>s. Step(w) /\ faults' = faults + 1
  BY StepFaults DEF Step, Elsewhere
<1>t. TypeOK
  BY DEF IInv
<1>c. /\ Shown' = [Shown EXCEPT ![w] = Content(w)']
      /\ Content(w)' = Content(w) => Shown' = Shown
      /\ Calls' = [Calls EXCEPT ![w] = CallOf(w)']
      /\ Calls[w] = CallOf(w) /\ DOMAIN Shown = Rows
  BY <1>s, OthersSame, Changes
<1>1. pc[w] \in Asked \cup {"store"} /\ pc'[w] = "idle"
  BY <1>t DEF Fail, StoreFail, WriteFail, Goto, Leave, TypeOK, Asked, Critical
<1>2. PICK st \in {"asked", "done"} : CallOf(w) = Writes(w, val[w], st)
  BY <1>1, CallLabels
<1>3. CallOf(w)' = NoCall
  BY <1>1, CallLabelsNext DEF AtRest
<1>4. /\ Calls[w].st \in {"asked", "done"} /\ Calls[w].op = "update" /\ Calls[w].at = w
      /\ Calls[w].val = val[w]
  BY <1>c, <1>2, CallFields
<1>5. Calls' = [Calls EXCEPT ![w] = NoCall]
  BY <1>c, <1>3
<1>6. Content(w)' \in {Content(w), val[w], Garbled}
  <2>1. CASE WriteFail(w)
    BY <2>1, WriteFailShows
  <2>2. CASE (Fail(w) \/ StoreFail(w)) /\ ~WriteFail(w)
    BY <1>s, <1>1, <2>2, OtherStepsShow DEF Fail, StoreFail, Store, DataWrite
  <2> QED
    BY <2>1, <2>2
<1>7. Memos!LeftBehind(w)
  <2>1. CASE Content(w)' = Content(w)
    BY <1>c, <2>1, MemosLeftBehind
  <2>2. CASE Content(w)' \in {val[w], Garbled}
    <3>1. \E content \in {Calls[w].val, Garbled} : Shown' = [Shown EXCEPT ![Calls[w].at] = content]
      BY <1>c, <1>4, <2>2
    <3> QED
      BY <1>c, <1>4, <3>1, MemosLeftBehind
  <2> QED
    BY <1>6, <2>1, <2>2
<1>8. Cardinality(Memos!DamagedRows(Shown')) <= faults'
  BY FewDamaged DEF IInv
<1>9. Memos!Lose(w)
  <2>1. Calls[w].st \in {"asked", "done"} /\ faults' = faults + 1
    BY <1>s, <1>4
  <2> QED
    BY <1>5, <1>7, <1>8, <2>1, MemosLose, Zenon
<1> QED
  BY <1>9, MemosSteps

LEMMA NextRefines ==
  ASSUME Disciplined, IInv, IInv', [Next]_vars
  PROVE  [Memos!FaultyNext]_(Memos!faultyVars)
<1>1. CASE Crash
  <2>1. \A w \in Rows : pc'[w] \in AtRest
    BY <1>1 DEF Crash, AtRest
  <2>2. Calls' = [w \in Rows |-> NoCall]
    BY <2>1, CallLabelsNext DEF Calls
  <2>3. Shown' = Shown
    BY <1>1, CrashShows DEF IInv, Shown
  <2>4. faults' = faults + 1
    BY <1>1 DEF Crash, Fault
  <2> QED
    BY <2>2, <2>3, <2>4, MemosCrash DEF Memos!FaultyNext
<1>2. CASE UNCHANGED vars
  <2>1. \A w \in Rows : Content(w)' = Content(w)
    BY <1>2 DEF vars, file, Content, Holds, HasData, NoMemo, BlockHead, Data
  <2>2. \A w \in Rows : CallOf(w)' = CallOf(w)
    BY <1>2 DEF vars, file, local, CallOf, Update, Read, NoCall
  <2>3. Shown' = Shown /\ Calls' = Calls /\ faults' = faults
    BY <1>2, <2>1, <2>2 DEF Shown, Calls, vars
  <2> QED
    BY <2>3, MemosStutter
<1> QED
  BY <1>1, <1>2, WriteStepRefines, ReadStepRefines, FaultRefines DEF Next

LEMMA InitRefines == ASSUME Init PROVE Memos!FaultyInit
<1>1. \A w \in Rows : Content(w) = NoMemo /\ CallOf(w) = NoCall
  BY CallLabels DEF Init, Content, AtRest
<1>2. Shown = [w \in Rows |-> NoMemo] /\ Calls = [w \in Rows |-> NoCall] /\ faults = 0
  BY <1>1 DEF Shown, Calls, Init
<1> QED
  BY <1>2 DEF Memos!FaultyInit, Memos!Init, Shown, Calls, NoCall, Memos!NoCall

(* The memos of the rows are a store of which every write replaces one and *)
(* every read returns one; an error, a memo that is torn in the middle or  *)
(* a crash damages no memo but the one under way, and never more memos     *)
(* than there were faults.                                                 *)
THEOREM RefinementUnderFaults ==
  ASSUME Disciplined PROVE Spec => RefinesMemos
<1>1. Init => Memos!FaultyInit
  BY InitRefines
<1>2. IInv /\ IInv' /\ [Next]_vars => [Memos!FaultyNext]_(Memos!faultyVars)
  BY NextRefines
<1> QED
  BY <1>1, <1>2, Invariance, PTL DEF Spec, RefinesMemos, Memos!FaultySpec

(***************************************************************************)
(* Blocks, whatever the program does.                                      *)
(***************************************************************************)

(* Every memo lies below NextFree, and the one being reserved is the last. *)
GivenInv ==
  /\ \A a \in DOMAIN extent : extent[a].blocks >= 1 /\ a + extent[a].blocks <= next
  /\ \A w \in Rows : pc[w] = "hdrWrite" /\ IsNew(w) =>
       /\ at[w] + Blocks(val[w].len) = next
       /\ \A a \in DOMAIN extent : a + extent[a].blocks <= at[w]
  /\ BlocksApart

LEMMA PlaceOnly ==
  ASSUME TypeOK, NEW w \in Rows, Step(w), ~Place(w) PROVE pc'[w] # "hdrWrite"
<1> USE DEF TypeOK, Goto, Leave
<1>1. CASE SetValue(w) \/ LockRow(w) \/ NoData(w) \/ Lock(w) \/ DataSeek(w) \/ Store(w) \/ Return(w)
  BY <1>1 DEF SetValue, LockRow, NoData, Lock, DataSeek, Store, Return, After
<1>2. CASE ReadEmpty(w) \/ ReadBegin(w) \/ ReadSeek(w) \/ ReadHead(w)
  BY <1>2 DEF ReadEmpty, ReadBegin, ReadSeek, ReadHead
<1>3. CASE ReadNoHead(w) \/ ReadData(w)
  BY <1>3 DEF ReadNoHead, ReadData, Result
<1>4. CASE Fail(w) \/ StoreFail(w) \/ HdrPad(w) \/ DataWrite(w) \/ WriteFail(w)
  BY <1>4 DEF Fail, StoreFail, HdrPad, DataWrite, WriteFail, After
<1>5. CASE HdrWrite(w)
  BY <1>5 DEF HdrWrite
<1> QED
  BY <1>1, <1>2, <1>3, <1>4, <1>5 DEF Step, Elsewhere

LEMMA BlocksPositive ==
  ASSUME NEW len \in Nat, size \in Nat PROVE Blocks(len) \in Nat /\ Blocks(len) >= 1
<1>1. CASE len > 0 /\ size > 0
  <2>1. /\ len \div size \in Nat /\ len % size \in Nat
        /\ len = size * (len \div size) + (len % size)
    BY <1>1
  <2>2. CASE len \div size = 0
    <3>1. len % size > 0
      BY <1>1, <2>1, <2>2
    <3> QED
      BY <1>1, <2>2, <3>1 DEF Blocks
  <2>3. CASE len \div size # 0
    BY <1>1, <2>1, <2>3 DEF Blocks
  <2> QED
    BY <2>2, <2>3
<1>2. CASE ~(len > 0 /\ size > 0)
  BY <1>2 DEF Blocks
<1> QED
  BY <1>1, <1>2

LEMMA GivenStep ==
  ASSUME MaxFaults = 0, TypeOK, MutexOK, GivenInv, [Next]_vars PROVE GivenInv'
<1>0. /\ next \in Nat /\ size \in Nat
      /\ \A a \in DOMAIN extent : a \in Nat /\ extent[a].blocks \in Nat
      /\ \A w \in Rows : at[w] \in Nat
      /\ \A w \in Rows : pc[w] \in Critical => Blocks(val[w].len) \in Nat /\ Blocks(val[w].len) >= 1
  <2>1. ASSUME NEW w \in Rows, pc[w] \in Critical
        PROVE  Blocks(val[w].len) \in Nat /\ Blocks(val[w].len) >= 1
    <3>1. val[w] \in Memo /\ size \in Nat
      BY <2>1 DEF TypeOK, Writing
    <3>2. val[w].len \in Nat
      BY <3>1, MemoLen
    <3> QED
      BY <3>1, <3>2, BlocksPositive
  <2> QED
    BY <2>1 DEF TypeOK
<1>k. ASSUME NEW w \in Rows, Step(w), ~Place(w), UNCHANGED <<next, extent, size>> PROVE GivenInv'
  <2>1. ASSUME NEW u \in Rows, pc'[u] = "hdrWrite"
        PROVE  pc[u] = "hdrWrite" /\ at'[u] = at[u] /\ val'[u] = val[u] /\ memoPos'[u] = memoPos[u]
    BY <1>k, <2>1, PlaceOnly, OthersFrame
  <2> QED
    BY <1>k, <2>1 DEF GivenInv, BlocksApart, IsNew, Blocks
<1>1. ASSUME NEW w \in Rows, Elsewhere(w) \/ HdrPad(w) \/ DataWrite(w) \/ WriteFail(w)
      PROVE  GivenInv'
  <2>1. Step(w) /\ UNCHANGED <<next, extent, size>>
    BY <1>1, ElsewhereFrame DEF Step, HdrPad, DataWrite, WriteFail, hist
  <2>2. ~Place(w)
    <3>1. pc[w] # "place" \/ Fail(w)
      BY <1>1 DEF Elsewhere, SetValue, LockRow, NoData, Lock, DataSeek, Store, Return, ReadEmpty,
                  ReadBegin, ReadSeek, ReadHead, ReadNoHead, ReadData, StoreFail, HdrPad, DataWrite,
                  WriteFail, AtRest
    <3>2. ~Fail(w)
      BY DEF Fail, Fault, TypeOK
    <3> QED
      BY <3>1, <3>2 DEF Place
  <2> QED
    BY <1>k, <2>1, <2>2
<1>2. ASSUME NEW w \in Rows, Place(w) PROVE GivenInv'
  <2>1. /\ pc[w] = "place" /\ pc'[w] = "hdrWrite" /\ UNCHANGED <<extent, size, val, memoPos>>
        /\ at'[w] = Address(w) /\ next' = NextAfter(w)
        /\ \A u \in Rows \ {w} : pc'[u] = pc[u]
    BY <1>2 DEF Place, Goto, TypeOK, hist
  <2>2. \A u \in Rows \ {w} : pc[u] # "hdrWrite"
    BY <2>1 DEF MutexOK, Critical
  <2>3. Blocks(val[w].len) \in Nat /\ next <= next'
    BY <1>0, <2>1 DEF Critical, NextAfter
  <2>4. \A a \in DOMAIN extent' : extent'[a].blocks >= 1 /\ a + extent'[a].blocks <= next'
    BY <1>0, <2>1, <2>3 DEF GivenInv, NextAfter
  <2>5. IsNew(w)' => /\ at'[w] + Blocks(val[w].len)' = next'
                     /\ \A a \in DOMAIN extent' : a + extent'[a].blocks <= at'[w]
    BY <1>0, <2>1 DEF GivenInv, IsNew, Address, NextAfter, Blocks
  <2> QED
    BY <2>1, <2>2, <2>4, <2>5 DEF GivenInv, BlocksApart, IsNew, Blocks
<1>3. ASSUME NEW w \in Rows, HdrWrite(w) PROVE GivenInv'
  <2>1. pc[w] = "hdrWrite" /\ pc'[w] = "hdrPad" /\ UNCHANGED <<next, size>> /\ Step(w)
    BY <1>3 DEF HdrWrite, Goto, TypeOK, Step
  <2>2. \A u \in Rows : pc'[u] # "hdrWrite"
    <3>1. \A u \in Rows \ {w} : pc[u] # "hdrWrite"
      BY <2>1 DEF MutexOK, Critical
    <3> QED
      BY <2>1, <3>1, OthersFrame
  <2>3. CASE ~IsNew(w)
    BY <1>3, <1>k, <2>1, <2>3 DEF HdrWrite, Place
  <2>4. CASE IsNew(w)
    <3> DEFINE b == Blocks(val[w].len)
    <3>1. /\ b \in Nat /\ b >= 1 /\ at[w] \in Nat /\ at[w] + b = next
          /\ \A a \in DOMAIN extent : a + extent[a].blocks <= at[w] /\ extent[a].blocks >= 1
      BY <1>0, <2>1, <2>4 DEF GivenInv, Critical
    <3>2. extent' = [a \in DOMAIN extent \cup {at[w]} |->
                       IF a = at[w] THEN [blocks |-> b, by |-> w] ELSE extent[a]]
      BY <1>3, <2>4 DEF HdrWrite
    <3> HIDE DEF b
    <3>3. at[w] \notin DOMAIN extent
      BY <1>0, <3>1
    <3>4. /\ DOMAIN extent' = DOMAIN extent \cup {at[w]} /\ extent'[at[w]].blocks = b
          /\ \A a \in DOMAIN extent : extent'[a] = extent[a]
      BY <3>2, <3>3
    <3>5. \A a \in DOMAIN extent' : extent'[a].blocks >= 1 /\ a + extent'[a].blocks <= next'
      BY <1>0, <2>1, <3>1, <3>4 DEF GivenInv
    <3>6. ASSUME NEW a \in DOMAIN extent', NEW c \in DOMAIN extent', a < c
          PROVE  a + extent'[a].blocks <= c
      <4>1. CASE c = at[w]
        BY <3>1, <3>4, <3>6, <4>1
      <4>2. CASE c # at[w] /\ a = at[w]
        <5>1. c \in Nat /\ extent[c].blocks \in Nat /\ c + extent[c].blocks <= at[w]
          BY <1>0, <3>1, <3>4, <4>2
        <5> QED
          BY <3>1, <3>6, <4>2, <5>1
      <4>3. CASE c # at[w] /\ a # at[w]
        BY <3>4, <3>6, <4>3 DEF GivenInv, BlocksApart
      <4> QED
        BY <4>1, <4>2, <4>3
    <3> QED
      BY <2>2, <3>5, <3>6 DEF GivenInv, BlocksApart
  <2> QED
    BY <2>3, <2>4
<1>4. ~Crash
  BY MemoAssumption DEF Crash, Fault, TypeOK
<1>5. CASE UNCHANGED vars
  BY <1>5 DEF vars, file, local, hist, GivenInv, BlocksApart, IsNew, Blocks
<1> QED
  BY <1>1, <1>2, <1>3, <1>4, <1>5, NextCases

(* As long as nothing fails, no block is given to two memos, whatever the  *)
(* memos, the sizes and the calls that run at the same time.               *)
THEOREM BlocksAreGivenOnce ==
  ASSUME MaxFaults = 0 PROVE Spec => []BlocksApart
<1>1. Init => TypeOK /\ MutexOK /\ GivenInv
  <2>1. ASSUME Init PROVE MutexOK /\ GivenInv
    BY <2>1, ValuesAssumption DEF Init, MutexOK, GivenInv, BlocksApart, Critical
  <2> QED
    BY <2>1, InitType
<1>2. TypeOK /\ MutexOK /\ GivenInv /\ [Next]_vars => (TypeOK /\ MutexOK /\ GivenInv)'
  BY NextType, MutexStep, GivenStep
<1>3. GivenInv => BlocksApart
  BY DEF GivenInv
<1> QED
  BY <1>1, <1>2, <1>3, PTL DEF Spec

=============================================================================
