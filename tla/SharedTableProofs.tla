-------------------------- MODULE SharedTableProofs --------------------------
(* Theorems about SharedTable for every number of processes, goroutines,   *)
(* rows and faults, every step of the keys and every layout of the header. *)
EXTENDS SharedTable, TLAPS

(***************************************************************************)
(* Integers of a fixed width.                                              *)
(***************************************************************************)

(* A number that fits is not changed. *)
LEMMA NoWrap ==
  ASSUME NEW w \in Nat \ {0}, NEW a \in Nat, a < w
  PROVE  a % w = a
OBVIOUS

(* More rows are longer. *)
LEMMA Longer ==
  ASSUME NEW m \in Nat, NEW n \in Nat, m <= n, NEW k \in Nat
  PROVE  m * k \in Nat /\ n * k \in Nat /\ m * k <= n * k
<1>1. PICK d \in Nat : n = m + d
  <2> n - m \in Nat /\ n = m + (n - m)
    OBVIOUS
  <2> QED
    OBVIOUS
<1>2. n * k = m * k + d * k /\ d * k \in Nat /\ m * k \in Nat
  BY <1>1
<1> QED
  BY <1>2

(* What fits, fits with fewer rows. *)
LEMMA FewerFit ==
  ASSUME NEW m \in Nat, NEW n \in Nat, m <= n, Fits(n)
  PROVE  Fits(m)
<1> m * RowLength \in Nat /\ n * RowLength \in Nat /\ m * RowLength <= n * RowLength
  BY Longer, SharedAssumption
<1> QED
  BY SharedAssumption DEF Fits

(* Of a header that NewTable makes, ColumnsCount restores FirstRow. *)
LEMMA ColumnsFillTheHeader == 296 + ((ColumnsCount * 32) % Width16) = FirstRow
<1> DEFINE size == FirstRow - 296
<1>1. size \in Nat /\ size % 32 = 0 /\ size % Width16 = size
  BY NoWrap, SharedAssumption, LayoutAssumption
<1>2. (size \div 32) * 32 = size
  BY <1>1
<1>3. ColumnsCount * 32 = size
  BY <1>1, <1>2 DEF ColumnsCount
<1> QED
  BY <1>1, <1>3, SharedAssumption

(* ValidateFileSize tells whether one row more fits: the product does not  *)
(* wrap when the rows before it fit.                                       *)
LEMMA ValidFits ==
  ASSUME NEW n \in Nat, Fits(n), Valid(n + 1)
  PROVE  Fits(n + 1)
<1>1. n * RowLength \in Nat /\ (n + 1) * RowLength = n * RowLength + RowLength
  BY SharedAssumption
<1>2. (n + 1) * RowLength < Width32
  BY <1>1, SharedAssumption, LayoutAssumption DEF Fits
<1>3. ((n + 1) * RowLength) % Width32 = (n + 1) * RowLength
  BY <1>1, <1>2, NoWrap, SharedAssumption
<1> QED
  BY <1>3, ColumnsFillTheHeader DEF Valid, FileSize, Fits

(***************************************************************************)
(* Writing into the records.                                               *)
(***************************************************************************)

(* A write leaves a sequence of contents, as long as it was or up to the   *)
(* record that was written.                                                *)
LEMMA PutAtType ==
  ASSUME NEW s \in Seq(Content), NEW i \in Int, NEW c \in Content
  PROVE  /\ PutAt(s, i, c) \in Seq(Content)
         /\ Len(PutAt(s, i, c)) = IF i < Len(s) THEN Len(s) ELSE i + 1
<1> DEFINE n == IF i < Len(s) THEN Len(s) ELSE i + 1
           f == [k \in 1..n |->
                   IF k = i + 1 THEN c ELSE IF k <= Len(s) THEN s[k] ELSE Zero]
<1>1. n \in Nat
  OBVIOUS
<1>2. Zero \in Content
  BY DEF Content
<1>3. \A k \in 1..n : f[k] \in Content
  BY <1>1, <1>2
<1>4. f \in [1..n -> Content]
  BY <1>3
<1>5. f \in Seq(Content) /\ Len(f) = n
  BY <1>1, <1>4
<1>6. PutAt(s, i, c) = f
  BY DEF PutAt
<1> QED
  BY <1>5, <1>6

(* It changes the record it is aimed at, and fills what it skips.          *)
LEMMA PutAtElements ==
  ASSUME NEW s \in Seq(Content), NEW i \in Nat, NEW c
  PROVE  /\ PutAt(s, i, c)[i + 1] = c
         /\ \A k \in 1..Len(s) : k # i + 1 => PutAt(s, i, c)[k] = s[k]
         /\ \A k \in 1..(i + 1) :
              k > Len(s) /\ k # i + 1 => PutAt(s, i, c)[k] = Zero
BY DEF PutAt

(* What is there already is not changed by writing it again.               *)
LEMMA PutAtSame ==
  ASSUME NEW s \in Seq(Content), NEW i \in Nat, i < Len(s)
  PROVE  PutAt(s, i, s[i + 1]) = s
BY DEF PutAt

(***************************************************************************)
(* Types.                                                                  *)
(***************************************************************************)
LEMMA InitType == Init => TypeOK
<1> SUFFICES ASSUME Init PROVE TypeOK
  OBVIOUS
<1> USE SharedAssumption DEF Init
<1>1. records \in Seq(Content)
  <2> InitRows \in Nat /\ \A i \in 1..InitRows : i \in Content
    BY DEF Content
  <2> QED
    OBVIOUS
<1>2. inTurn \in BOOLEAN
  OBVIOUS
<1> QED
  BY <1>1, <1>2 DEF TypeOK, Labels, Resting

(* A region is a place in the file. *)
LEMMA RegionType ==
  /\ ColumnsRegion \in Int /\ HeaderRegion \in Int
  /\ TypeOK => \A c \in Callers : RecordRegion(c) \in Int
<1>1. ASSUME NEW p \in Int, NEW n \in Int PROVE Region(p, n) \in Int
  <2> (p + n) * Width32 \in Int
    BY SharedAssumption
  <2> QED
    BY DEF Region
<1>2. ASSUME TypeOK, NEW c \in Callers PROVE FirstRow + slot[c] * RowLength \in Int
  <2> slot[c] \in Int
    BY <1>2 DEF TypeOK
  <2> slot[c] * RowLength \in Int
    BY SharedAssumption
  <2> QED
    BY SharedAssumption
<1> QED
  <2>1. ColumnsRegion \in Int /\ HeaderRegion \in Int
    <3> (32 + FirstRow) * Width32 \in Int /\ (0 + FirstRow) * Width32 \in Int
      BY SharedAssumption
    <3> QED
      BY SharedAssumption DEF ColumnsRegion, HeaderRegion, Region
  <2>2. ASSUME TypeOK, NEW c \in Callers PROVE RecordRegion(c) \in Int
    <3> FirstRow + slot[c] * RowLength \in Int /\ RowLength \in Int
      BY <1>2, <2>2, SharedAssumption
    <3> QED
      BY <1>1 DEF RecordRegion
  <2> QED
    BY <2>1, <2>2

LEMMA GrantType ==
  ASSUME TypeOK, NEW c \in Callers, NEW r \in Int, Grant(c, r)
  PROVE  lock' \in [Callers -> Int]
<1>1. CASE WriteLock
  BY <1>1 DEF TypeOK, Grant
<1>2. CASE ~WriteLock
  BY <1>2 DEF TypeOK, Grant
<1> QED
  BY <1>1, <1>2

LEMMA UnlockType ==
  ASSUME TypeOK, NEW c \in Callers, Unlock(c)
  PROVE  lock' \in [Callers -> Int]
BY DEF TypeOK, Unlock

LEMMA ReturnType ==
  ASSUME TypeOK, NEW c \in Callers, Return(c)
  PROVE  /\ pc' \in [Callers -> Labels] /\ key' \in [Callers -> Nat]
         /\ pos' \in [Callers -> Nat] /\ slot' \in [Callers -> Int]
BY DEF TypeOK, Return, Goto, Labels, Resting

(* Every step keeps the types. *)
LEMMA NextType == TypeOK /\ [Next]_vars => TypeOK'
<1> SUFFICES ASSUME TypeOK, [Next]_vars PROVE TypeOK'
  OBVIOUS
<1> USE SharedAssumption DEF disk, memory, local, Goto
<1> USE DEF Labels, Resting, Incrementing, Critical
<1>f. \A c \in Callers : FileOf[c] \in Files
  OBVIOUS
<1>k. \A c \in Callers : key[c] \in Content /\ Torn \in Content /\ slot[c] \in Int
  BY DEF TypeOK, Content
<1>1. ASSUME NEW f \in Files, OpenHeader(f) PROVE TypeOK'
  BY <1>1 DEF OpenHeader, TypeOK
<1>2. ASSUME NEW f \in Files, OpenColumns(f) PROVE TypeOK'
  BY <1>2 DEF OpenColumns, TypeOK
<1>3. ASSUME NEW f \in Files, Close(f) PROVE TypeOK'
  BY <1>3 DEF Close, Gone, TypeOK
<1>4. ASSUME NEW f \in Files, Crash(f) PROVE TypeOK'
  BY <1>4 DEF Crash, Gone, Fault, TypeOK
<1>5. ASSUME NEW c \in Callers, TakeKey(c) PROVE TypeOK'
  BY <1>5, <1>f, SMTT(30) DEF TakeKey, MayBegin, TypeOK
<1>6. ASSUME NEW c \in Callers, RaiseKey(c) PROVE TypeOK'
  BY <1>6, <1>f, SMTT(30) DEF RaiseKey, TypeOK
<1>7. ASSUME NEW c \in Callers, Add(c) PROVE TypeOK'
  BY <1>7, <1>f, SMTT(30) DEF Add, TypeOK
<1>8. ASSUME NEW c \in Callers, Discard(c) PROVE TypeOK'
  BY <1>8, <1>f, SMTT(30) DEF Discard, Return, TypeOK
<1>9. ASSUME NEW c \in Callers, Rewrite(c) PROVE TypeOK'
  <2>1. PICK i \in 1..Len(records) : /\ records[i] \in Nat
                                     /\ pos' = [pos EXCEPT ![c] = i - 1]
                                     /\ key' = [key EXCEPT ![c] = records[i]]
                                     /\ acked' = acked \ {records[i]}
    BY <1>9 DEF Rewrite
  <2>2. i - 1 \in Nat
    BY DEF TypeOK
  <2>3. ops' \in [Callers -> 0..MaxOps]
    BY <1>9, SMTT(30) DEF Rewrite, MayBegin, TypeOK
  <2> QED
    BY <1>9, <2>1, <2>2, <2>3 DEF Rewrite, TypeOK
<1>10. ASSUME NEW c \in Callers, Enter(c) PROVE TypeOK'
  BY <1>10, <1>f DEF Enter, TypeOK
<1>11. ASSUME NEW c \in Callers, TakeSlot(c) PROVE TypeOK'
  BY <1>11, <1>f, SMTT(30) DEF TakeSlot, TypeOK
<1>12. ASSUME NEW c \in Callers, AppendSlot(c) PROVE TypeOK'
  <2>1. count[FileOf[c]] + 1 \in Nat /\ pos[c] - 1 \in Int
    BY <1>f DEF TypeOK
  <2>2. count' \in [Files -> Nat] /\ slot' \in [Callers -> Int]
    BY <1>12, <2>1 DEF AppendSlot, TypeOK
  <2>3. pc' \in [Callers -> Labels]
    BY <1>12 DEF AppendSlot, TypeOK
  <2> QED
    BY <1>12, <2>2, <2>3 DEF AppendSlot, TypeOK
<1>13. ASSUME NEW c \in Callers, Refuse(c) PROVE TypeOK'
  BY <1>13, <1>f, SMTT(30) DEF Refuse, Leave, Return, TypeOK
<1>14. ASSUME NEW c \in Callers, LockColumns(c) PROVE TypeOK'
  <2>1. lock' \in [Callers -> Int]
    BY <1>14, GrantType, RegionType DEF LockColumns
  <2> QED
    BY <1>14, <2>1 DEF LockColumns, TypeOK
<1>15. ASSUME NEW c \in Callers, LockHeader(c) PROVE TypeOK'
  <2>1. lock' \in [Callers -> Int]
    BY <1>15, GrantType, RegionType DEF LockHeader
  <2> QED
    BY <1>15, <2>1 DEF LockHeader, TypeOK
<1>16. ASSUME NEW c \in Callers, LockRecord(c) PROVE TypeOK'
  <2>1. lock' \in [Callers -> Int]
    BY <1>16, GrantType, RegionType DEF LockRecord
  <2> QED
    BY <1>16, <2>1 DEF LockRecord, TypeOK
<1>17. ASSUME NEW c \in Callers, WriteColumns(c) PROVE TypeOK'
  <2>1. lock' \in [Callers -> Int]
    BY <1>17, UnlockType DEF WriteColumns
  <2> QED
    BY <1>17, <1>f, <2>1 DEF WriteColumns, NextImage, TypeOK
<1>18. ASSUME NEW c \in Callers, WriteHeader(c) PROVE TypeOK'
  <2>1. lock' \in [Callers -> Int]
    BY <1>18, UnlockType DEF WriteHeader
  <2> QED
    BY <1>18, <1>f, <2>1 DEF WriteHeader, Image, TypeOK
<1>19. ASSUME NEW c \in Callers, WriteRecord(c) PROVE TypeOK'
  <2>1. lock' \in [Callers -> Int]
    BY <1>19, UnlockType DEF WriteRecord
  <2>2. records' \in Seq(Content)
    BY <1>19, <1>k, PutAtType DEF WriteRecord, TypeOK
  <2>3. /\ pc' \in [Callers -> Labels] /\ key' \in [Callers -> Nat]
        /\ pos' \in [Callers -> Nat] /\ slot' \in [Callers -> Int]
    BY <1>19, ReturnType DEF WriteRecord, Leave
  <2> QED
    BY <1>19, <1>f, <2>1, <2>2, <2>3 DEF WriteRecord, Leave, TypeOK
<1>20. ASSUME NEW c \in Callers, ColumnsFail(c) PROVE TypeOK'
  <2>1. lock' \in [Callers -> Int]
    BY <1>20, UnlockType DEF ColumnsFail
  <2>2. diskNext' \in Nat
    BY <1>20, <1>f DEF ColumnsFail, NextImage, TypeOK
  <2>3. /\ pc' \in [Callers -> Labels] /\ key' \in [Callers -> Nat]
        /\ pos' \in [Callers -> Nat] /\ slot' \in [Callers -> Int]
    BY <1>20, ReturnType DEF ColumnsFail, Leave
  <2>4. faults' \in 0..MaxFaults
    BY <1>20 DEF ColumnsFail, Fault, TypeOK
  <2> QED
    BY <1>20, <2>1, <2>2, <2>3, <2>4 DEF ColumnsFail, TypeOK
<1>21. ASSUME NEW c \in Callers, WriteFails(c) PROVE TypeOK'
  <2>1. lock' \in [Callers -> Int]
    BY <1>21, UnlockType DEF WriteFails
  <2>2. records' \in Seq(Content)
    BY <1>21, <1>k, PutAtType DEF WriteFails, TypeOK
  <2>3. /\ pc' \in [Callers -> Labels] /\ key' \in [Callers -> Nat]
        /\ pos' \in [Callers -> Nat] /\ slot' \in [Callers -> Int]
    BY <1>21, ReturnType DEF WriteFails, Leave
  <2>4. faults' \in 0..MaxFaults
    BY <1>21 DEF WriteFails, Fault, TypeOK
  <2>5. /\ mutex' \in [Files -> Callers \cup {NoOne}]
        /\ UNCHANGED <<inTurn, diskCount, diskNext, stage, count, next, ops, acked>>
    BY <1>21, <1>f DEF WriteFails, Leave, TypeOK
  <2> QED
    BY <2>1, <2>2, <2>3, <2>4, <2>5 DEF TypeOK
<1>22. CASE UNCHANGED vars
  BY <1>22 DEF vars, TypeOK
<1> QED
  BY <1>1, <1>2, <1>3, <1>4, <1>5, <1>6, <1>7, <1>8, <1>9, <1>10, <1>11, <1>12, <1>13, <1>14, <1>15, <1>16, <1>17, <1>18, <1>19, <1>20, <1>21, <1>22 DEF Next, CallSteps

(***************************************************************************)
(* Whoever calls has its file open.                                        *)
(***************************************************************************)
LEMMA InitCall == Init => CallInv /\ AloneInv
BY DEF Init, CallInv, AloneInv, Placed

LEMMA NextCall ==
  ASSUME TypeOK, TypeOK', CallInv, [Next]_vars PROVE CallInv'
<1> USE SharedAssumption DEF CallInv, disk, memory, local, Goto, Placed
<1>f. \A c \in Callers : FileOf[c] \in Files
  OBVIOUS
<1>1. ASSUME NEW f \in Files, OpenHeader(f) PROVE CallInv'
  BY <1>1, <1>f DEF OpenHeader, TypeOK
<1>2. ASSUME NEW f \in Files, OpenColumns(f) PROVE CallInv'
  BY <1>2, <1>f DEF OpenColumns, TypeOK
<1>3. ASSUME NEW f \in Files, Close(f) PROVE CallInv'
  BY <1>3, <1>f DEF Close, Gone, CallersOf, TypeOK
<1>4. ASSUME NEW f \in Files, Crash(f) PROVE CallInv'
  BY <1>4, <1>f DEF Crash, Gone, TypeOK
<1>5. ASSUME NEW c \in Callers, TakeKey(c) PROVE CallInv'
  BY <1>5, <1>f DEF TakeKey, MayBegin, CallersOf, TypeOK
<1>6. ASSUME NEW c \in Callers, RaiseKey(c) PROVE CallInv'
  BY <1>6, <1>f DEF RaiseKey, TypeOK
<1>7. ASSUME NEW c \in Callers, LockColumns(c) PROVE CallInv'
  BY <1>7, <1>f DEF LockColumns, TypeOK
<1>8. ASSUME NEW c \in Callers, WriteColumns(c) PROVE CallInv'
  BY <1>8, <1>f DEF WriteColumns, NextImage, TypeOK
<1>9. ASSUME NEW c \in Callers, Add(c) PROVE CallInv'
  BY <1>9, <1>f DEF Add, TypeOK
<1>10. ASSUME NEW c \in Callers, Discard(c) PROVE CallInv'
  BY <1>10, <1>f DEF Discard, Return, TypeOK
<1>11. ASSUME NEW c \in Callers, Rewrite(c) PROVE CallInv'
  BY <1>11, <1>f DEF Rewrite, MayBegin, CallersOf, TypeOK
<1>12. ASSUME NEW c \in Callers, Enter(c) PROVE CallInv'
  BY <1>12, <1>f, SMTT(30) DEF Enter, TypeOK
<1>13. ASSUME NEW c \in Callers, TakeSlot(c) PROVE CallInv'
  BY <1>13, <1>f DEF TakeSlot, IsNew, TypeOK
<1>14. ASSUME NEW c \in Callers, AppendSlot(c) PROVE CallInv'
  <2> SUFFICES ASSUME NEW d \in Callers
               PROVE  /\ pc'[d] # "idle" => stage'[FileOf[d]] = "open"
                      /\ pc'[d] \in {"enter", "reserve"} =>
                           \/ pos'[d] < count'[FileOf[d]]
                           \/ pos'[d] \in 1..(count'[FileOf[d]] + 1)
                      /\ pc'[d] \in Placed => slot'[d] \in 0..(count'[FileOf[d]] - 1)
    OBVIOUS
  <2> HIDE DEF CallInv
  <2>0. /\ count \in [Files -> Nat] /\ pos \in [Callers -> Nat]
        /\ count' = [count EXCEPT ![FileOf[c]] = count[FileOf[c]] + 1]
    BY <1>14 DEF AppendSlot, TypeOK
  <2>1. /\ count[FileOf[c]] \in Nat /\ pos[c] \in Nat
        /\ count'[FileOf[c]] = count[FileOf[c]] + 1
    BY <1>f, <2>0
  <2>2. CASE d = c
    <3>1. /\ pc'[c] = "lockHeader" /\ stage'[FileOf[c]] = "open"
          /\ slot'[c] = pos[c] - 1
      BY <1>14 DEF AppendSlot, TypeOK, CallInv
    <3>2. pos[c] < count[FileOf[c]] \/ pos[c] \in 1..(count[FileOf[c]] + 1)
      BY <1>14 DEF AppendSlot, CallInv
    <3>3. pos[c] >= count[FileOf[c]]
      BY <1>14 DEF AppendSlot, IsNew
    <3> QED
      BY <2>1, <2>2, <3>1, <3>2, <3>3
  <2>3. CASE d # c
    <3>1. /\ pc'[d] = pc[d] /\ pos'[d] = pos[d] /\ slot'[d] = slot[d]
          /\ stage' = stage /\ pos[d] \in Nat
      BY <1>14, <2>3 DEF AppendSlot, TypeOK
    <3>2. /\ count[FileOf[d]] \in Nat /\ count'[FileOf[d]] \in Nat
          /\ count[FileOf[d]] <= count'[FileOf[d]]
      <4>1. CASE FileOf[d] = FileOf[c]
        BY <2>1, <4>1
      <4>2. CASE FileOf[d] # FileOf[c]
        BY <1>f, <2>0, <4>2
      <4> QED
        BY <4>1, <4>2
    <3> QED
      BY <3>1, <3>2 DEF CallInv
  <2> QED
    BY <2>2, <2>3
<1>15. ASSUME NEW c \in Callers, Refuse(c) PROVE CallInv'
  BY <1>15, <1>f DEF Refuse, Leave, Return, TypeOK
<1>16. ASSUME NEW c \in Callers, LockHeader(c) PROVE CallInv'
  BY <1>16, <1>f DEF LockHeader, TypeOK
<1>17. ASSUME NEW c \in Callers, WriteHeader(c) PROVE CallInv'
  BY <1>17, <1>f DEF WriteHeader, Image, TypeOK
<1>18. ASSUME NEW c \in Callers, LockRecord(c) PROVE CallInv'
  BY <1>18, <1>f DEF LockRecord, TypeOK
<1>19. ASSUME NEW c \in Callers, WriteRecord(c) PROVE CallInv'
  BY <1>19, <1>f DEF WriteRecord, Leave, Return, TypeOK
<1>20. ASSUME NEW c \in Callers, ColumnsFail(c) PROVE CallInv'
  BY <1>20, <1>f DEF ColumnsFail, Return, NextImage, TypeOK
<1>21. ASSUME NEW c \in Callers, WriteFails(c) PROVE CallInv'
  BY <1>21, <1>f DEF WriteFails, Leave, Return, TypeOK
<1>22. CASE UNCHANGED vars
  BY <1>22 DEF vars, TypeOK
<1> QED
  BY <1>1, <1>2, <1>3, <1>4, <1>5, <1>6, <1>7, <1>8, <1>9, <1>10, <1>11, <1>12,
     <1>13, <1>14, <1>15, <1>16, <1>17, <1>18, <1>19, <1>20, <1>21, <1>22 DEF
     Next, CallSteps

(* Between its beginning and its return a call is the only one on its file.*)
LEMMA NextAlone ==
  ASSUME Serial, TypeOK, AloneInv, [Next]_vars PROVE AloneInv'
<1> USE SharedAssumption DEF AloneInv, disk, memory, local, Goto, CallersOf
<1>1. ASSUME NEW f \in Files, OpenHeader(f) PROVE AloneInv'
  BY <1>1 DEF OpenHeader, TypeOK
<1>2. ASSUME NEW f \in Files, OpenColumns(f) PROVE AloneInv'
  BY <1>2 DEF OpenColumns, TypeOK
<1>3. ASSUME NEW f \in Files, Close(f) PROVE AloneInv'
  BY <1>3 DEF Close, Gone, CallersOf, TypeOK
<1>4. ASSUME NEW f \in Files, Crash(f) PROVE AloneInv'
  BY <1>4 DEF Crash, Gone, TypeOK
<1>5. ASSUME NEW c \in Callers, TakeKey(c) PROVE AloneInv'
  BY <1>5 DEF TakeKey, MayBegin, CallersOf, TypeOK
<1>6. ASSUME NEW c \in Callers, RaiseKey(c) PROVE AloneInv'
  BY <1>6 DEF RaiseKey, TypeOK
<1>7. ASSUME NEW c \in Callers, LockColumns(c) PROVE AloneInv'
  BY <1>7 DEF LockColumns, TypeOK
<1>8. ASSUME NEW c \in Callers, WriteColumns(c) PROVE AloneInv'
  BY <1>8 DEF WriteColumns, NextImage, TypeOK
<1>9. ASSUME NEW c \in Callers, Add(c) PROVE AloneInv'
  BY <1>9 DEF Add, TypeOK
<1>10. ASSUME NEW c \in Callers, Discard(c) PROVE AloneInv'
  BY <1>10 DEF Discard, Return, TypeOK
<1>11. ASSUME NEW c \in Callers, Rewrite(c) PROVE AloneInv'
  BY <1>11 DEF Rewrite, MayBegin, CallersOf, TypeOK
<1>12. ASSUME NEW c \in Callers, Enter(c) PROVE AloneInv'
  BY <1>12 DEF Enter, TypeOK
<1>13. ASSUME NEW c \in Callers, TakeSlot(c) PROVE AloneInv'
  BY <1>13 DEF TakeSlot, IsNew, TypeOK
<1>14. ASSUME NEW c \in Callers, AppendSlot(c) PROVE AloneInv'
  BY <1>14 DEF AppendSlot, IsNew, TypeOK
<1>15. ASSUME NEW c \in Callers, Refuse(c) PROVE AloneInv'
  BY <1>15 DEF Refuse, Leave, Return, TypeOK
<1>16. ASSUME NEW c \in Callers, LockHeader(c) PROVE AloneInv'
  BY <1>16 DEF LockHeader, TypeOK
<1>17. ASSUME NEW c \in Callers, WriteHeader(c) PROVE AloneInv'
  BY <1>17 DEF WriteHeader, Image, TypeOK
<1>18. ASSUME NEW c \in Callers, LockRecord(c) PROVE AloneInv'
  BY <1>18 DEF LockRecord, TypeOK
<1>19. ASSUME NEW c \in Callers, WriteRecord(c) PROVE AloneInv'
  BY <1>19 DEF WriteRecord, Leave, Return, TypeOK
<1>20. ASSUME NEW c \in Callers, ColumnsFail(c) PROVE AloneInv'
  BY <1>20 DEF ColumnsFail, Return, NextImage, TypeOK
<1>21. ASSUME NEW c \in Callers, WriteFails(c) PROVE AloneInv'
  BY <1>21 DEF WriteFails, Leave, Return, TypeOK
<1>22. CASE UNCHANGED vars
  BY <1>22 DEF vars, TypeOK
<1> QED
  BY <1>1, <1>2, <1>3, <1>4, <1>5, <1>6, <1>7, <1>8, <1>9, <1>10, <1>11, <1>12,
     <1>13, <1>14, <1>15, <1>16, <1>17, <1>18, <1>19, <1>20, <1>21, <1>22 DEF
     Next, CallSteps

(***************************************************************************)
(* The limit of the file's size.                                           *)
(***************************************************************************)
LEMMA NothingFits == Fits(0)
BY FewerFit, LayoutAssumption, SharedAssumption DEF Fits

LEMMA InitSize == Init => SizeInv
<1> SUFFICES ASSUME Init PROVE SizeInv
  OBVIOUS
<1>1. Fits(InitRows) /\ Fits(0)
  BY NothingFits, LayoutAssumption DEF Fits
<1>2. Len(records) = InitRows /\ diskCount = InitRows /\ \A f \in Files : count[f] = 0
  BY SharedAssumption DEF Init
<1> QED
  BY <1>1, <1>2 DEF SizeInv

(* A record is put at a slot that RowsCount includes, and RowsCount passed *)
(* ValidateFileSize.                                                       *)
LEMMA NextSize ==
  ASSUME TypeOK, CallInv, SizeInv, [Next]_vars PROVE SizeInv'
<1> USE DEF disk, memory, local, Goto
<1>f. \A c \in Callers : FileOf[c] \in Files
  BY SharedAssumption
<1>z. Fits(0)
  BY NothingFits
<1>k. \A c \in Callers : key[c] \in Content /\ Torn \in Content
  BY DEF TypeOK, Content
<1>p. ASSUME NEW c \in Callers, pc[c] \in Placed, NEW content \in Content
      PROVE  Fits(Len(PutAt(records, slot[c], content)))
  <2>1. slot[c] \in 0..(count[FileOf[c]] - 1)
    BY <1>p DEF CallInv
  <2>2. /\ count[FileOf[c]] \in Nat /\ Fits(count[FileOf[c]]) /\ Fits(Len(records))
        /\ records \in Seq(Content)
    BY <1>f DEF SizeInv, TypeOK
  <2>3. Fits(slot[c] + 1)
    BY <2>1, <2>2, FewerFit
  <2> QED
    BY <2>1, <2>2, <2>3, PutAtType
<1>1. ASSUME NEW f \in Files, OpenHeader(f) PROVE SizeInv'
  BY <1>1 DEF OpenHeader, SizeInv, TypeOK
<1>2. ASSUME NEW f \in Files, OpenColumns(f) PROVE SizeInv'
  BY <1>2 DEF OpenColumns, SizeInv
<1>3. ASSUME NEW f \in Files, Close(f) PROVE SizeInv'
  <2>1. /\ count' = [count EXCEPT ![f] = 0]
        /\ UNCHANGED <<records, diskCount>>
    BY <1>3 DEF Close, Gone
  <2> QED
    BY <1>z, <2>1 DEF SizeInv, TypeOK
<1>4. ASSUME NEW f \in Files, Crash(f) PROVE SizeInv'
  <2>1. /\ count' = [count EXCEPT ![f] = 0]
        /\ UNCHANGED <<records, diskCount>>
    BY <1>4 DEF Crash, Gone
  <2> QED
    BY <1>z, <2>1 DEF SizeInv, TypeOK
<1>5. ASSUME NEW c \in Callers, TakeKey(c) PROVE SizeInv'
  BY <1>5 DEF TakeKey, MayBegin, CallersOf, SizeInv
<1>6. ASSUME NEW c \in Callers, RaiseKey(c) PROVE SizeInv'
  BY <1>6 DEF RaiseKey, SizeInv
<1>7. ASSUME NEW c \in Callers, LockColumns(c) PROVE SizeInv'
  BY <1>7 DEF LockColumns, SizeInv
<1>8. ASSUME NEW c \in Callers, WriteColumns(c) PROVE SizeInv'
  BY <1>8 DEF WriteColumns, NextImage, SizeInv
<1>9. ASSUME NEW c \in Callers, Add(c) PROVE SizeInv'
  BY <1>9 DEF Add, SizeInv
<1>10. ASSUME NEW c \in Callers, Discard(c) PROVE SizeInv'
  BY <1>10 DEF Discard, Return, SizeInv
<1>11. ASSUME NEW c \in Callers, Rewrite(c) PROVE SizeInv'
  BY <1>11 DEF Rewrite, MayBegin, CallersOf, SizeInv
<1>12. ASSUME NEW c \in Callers, Enter(c) PROVE SizeInv'
  BY <1>12 DEF Enter, SizeInv
<1>13. ASSUME NEW c \in Callers, TakeSlot(c) PROVE SizeInv'
  BY <1>13 DEF TakeSlot, IsNew, SizeInv
<1>14. ASSUME NEW c \in Callers, AppendSlot(c) PROVE SizeInv'
  <2>1. /\ count' = [count EXCEPT ![FileOf[c]] = @ + 1]
        /\ Valid(count[FileOf[c]] + 1) /\ UNCHANGED <<records, diskCount>>
    BY <1>14 DEF AppendSlot
  <2>2. count[FileOf[c]] \in Nat /\ Fits(count[FileOf[c]])
    BY <1>f DEF SizeInv, TypeOK
  <2>3. Fits(count[FileOf[c]] + 1)
    BY <2>1, <2>2, ValidFits
  <2> QED
    BY <2>1, <2>3 DEF SizeInv, TypeOK
<1>15. ASSUME NEW c \in Callers, Refuse(c) PROVE SizeInv'
  BY <1>15 DEF Refuse, Leave, Return, SizeInv
<1>16. ASSUME NEW c \in Callers, LockHeader(c) PROVE SizeInv'
  BY <1>16 DEF LockHeader, SizeInv
<1>17. ASSUME NEW c \in Callers, WriteHeader(c) PROVE SizeInv'
  BY <1>17, <1>f DEF WriteHeader, Image, SizeInv
<1>18. ASSUME NEW c \in Callers, LockRecord(c) PROVE SizeInv'
  BY <1>18 DEF LockRecord, SizeInv
<1>19. ASSUME NEW c \in Callers, WriteRecord(c) PROVE SizeInv'
  <2>1. pc[c] \in Placed
    BY <1>19 DEF WriteRecord, Placed
  <2>2. records' = PutAt(records, slot[c], key[c]) /\ UNCHANGED <<diskCount, count>>
    BY <1>19 DEF WriteRecord
  <2> QED
    BY <1>k, <1>p, <2>1, <2>2 DEF SizeInv
<1>20. ASSUME NEW c \in Callers, ColumnsFail(c) PROVE SizeInv'
  BY <1>20 DEF ColumnsFail, Return, NextImage, SizeInv
<1>21. ASSUME NEW c \in Callers, WriteFails(c) PROVE SizeInv'
  <2>1. pc[c] \in Placed /\ UNCHANGED <<diskCount, count>>
    BY <1>21 DEF WriteFails, Placed
  <2>2. CASE UNCHANGED records
    BY <2>1, <2>2 DEF SizeInv
  <2>3. CASE records' = PutAt(records, slot[c], Torn)
    BY <1>k, <1>p, <2>1, <2>3 DEF SizeInv
  <2> QED
    BY <1>21, <2>2, <2>3 DEF WriteFails
<1>22. CASE UNCHANGED vars
  BY <1>22 DEF vars, SizeInv
<1> QED
  BY <1>1, <1>2, <1>3, <1>4, <1>5, <1>6, <1>7, <1>8, <1>9, <1>10, <1>11, <1>12,
     <1>13, <1>14, <1>15, <1>16, <1>17, <1>18, <1>19, <1>20, <1>21, <1>22 DEF
     Next, CallSteps

(***************************************************************************)
(* Processes that take turns, with one call at a time.                     *)
(***************************************************************************)

(* Then there is one call at a time in all. *)
LEMMA OneCall ==
  ASSUME Serial, inTurn, CallInv, AloneInv, TurnInv,
         NEW c \in Callers, NEW d \in Callers, pc[c] # "idle", pc[d] # "idle"
  PROVE  c = d
<1>1. FileOf[c] \in Files /\ FileOf[d] \in Files
  BY SharedAssumption
<1>2. stage[FileOf[c]] = "open" /\ stage[FileOf[d]] = "open"
  BY DEF CallInv
<1>3. FileOf[c] = FileOf[d]
  BY <1>1, <1>2 DEF TurnInv
<1> QED
  BY <1>3 DEF AloneInv

LEMMA InitTurn == Init => TurnInv
BY SharedAssumption DEF Init, TurnInv

(* The process that has the file open is never behind the disk.            *)
LEMMA NextTurn ==
  ASSUME inTurn, TypeOK, CallInv, TurnInv, RowInv, [Next]_vars PROVE TurnInv'
<1> USE DEF disk, memory, local, Goto
<1>f. \A c \in Callers : FileOf[c] \in Files
  BY SharedAssumption
<1>k. \A c \in Callers : key[c] \in Content /\ Torn \in Content
  BY DEF TypeOK, Content
<1>o. \A c \in Callers : pc[c] # "idle" => stage[FileOf[c]] = "open"
  BY DEF CallInv
<1>p. ASSUME NEW c \in Callers, pc[c] = "record", NEW content \in Content
      PROVE  Len(PutAt(records, slot[c], content)) <= diskCount
  <2>1. slot[c] \in 0..(count[FileOf[c]] - 1) /\ diskCount = count[FileOf[c]]
    BY <1>p DEF CallInv, Placed, RowInv, RowOK
  <2>2. Len(records) <= diskCount
    BY DEF TurnInv
  <2>3. count[FileOf[c]] \in Nat /\ records \in Seq(Content)
    BY <1>f DEF TypeOK
  <2> QED
    BY <2>1, <2>2, <2>3, PutAtType
<1>1. ASSUME NEW f \in Files, OpenHeader(f) PROVE TurnInv'
  BY <1>1 DEF OpenHeader, MayOpen, TurnInv, TypeOK
<1>2. ASSUME NEW f \in Files, OpenColumns(f) PROVE TurnInv'
  BY <1>2 DEF OpenColumns, TurnInv, TypeOK
<1>3. ASSUME NEW f \in Files, Close(f) PROVE TurnInv'
  BY <1>3 DEF Close, Gone, CallersOf, TurnInv, TypeOK
<1>4. ASSUME NEW f \in Files, Crash(f) PROVE TurnInv'
  BY <1>4 DEF Crash, Gone, TurnInv, TypeOK
<1>5. ASSUME NEW c \in Callers, TakeKey(c) PROVE TurnInv'
  BY <1>5 DEF TakeKey, MayBegin, CallersOf, TurnInv, TypeOK
<1>6. ASSUME NEW c \in Callers, RaiseKey(c) PROVE TurnInv'
  <2>1. PICK read \in {next[FileOf[c]], key[c]} :
           next' = [next EXCEPT ![FileOf[c]] = read + Step]
    BY <1>6 DEF RaiseKey
  <2>2. read = next[FileOf[c]]
    BY <1>6 DEF RaiseKey, RowInv, RowOK
  <2>3. \A f \in Files : next[f] <= next'[f] /\ next[f] \in Nat /\ next'[f] \in Nat
    BY <1>f, <2>1, <2>2, SharedAssumption DEF TypeOK
  <2>4. UNCHANGED <<diskCount, diskNext, records, stage, count>>
    BY <1>6 DEF RaiseKey
  <2> QED
    BY <2>3, <2>4 DEF TurnInv, TypeOK
<1>7. ASSUME NEW c \in Callers, LockColumns(c) PROVE TurnInv'
  BY <1>7 DEF LockColumns, TurnInv, TypeOK
<1>8. ASSUME NEW c \in Callers, WriteColumns(c) PROVE TurnInv'
  <2>1. diskNext' = next[FileOf[c]] /\ UNCHANGED <<diskCount, records, stage, count, next>>
    BY <1>8 DEF WriteColumns, NextImage
  <2>2. \A f \in Files : stage[f] = "open" => f = FileOf[c]
    BY <1>8, <1>f, <1>o DEF WriteColumns, TurnInv
  <2> QED
    BY <1>f, <2>1, <2>2 DEF TurnInv, TypeOK
<1>9. ASSUME NEW c \in Callers, Add(c) PROVE TurnInv'
  BY <1>9 DEF Add, TurnInv, TypeOK
<1>10. ASSUME NEW c \in Callers, Discard(c) PROVE TurnInv'
  BY <1>10 DEF Discard, Return, TurnInv, TypeOK
<1>11. ASSUME NEW c \in Callers, Rewrite(c) PROVE TurnInv'
  BY <1>11 DEF Rewrite, MayBegin, CallersOf, TurnInv, TypeOK
<1>12. ASSUME NEW c \in Callers, Enter(c) PROVE TurnInv'
  BY <1>12 DEF Enter, TurnInv, TypeOK
<1>13. ASSUME NEW c \in Callers, TakeSlot(c) PROVE TurnInv'
  BY <1>13 DEF TakeSlot, IsNew, TurnInv, TypeOK
<1>14. ASSUME NEW c \in Callers, AppendSlot(c) PROVE TurnInv'
  <2>1. /\ count' = [count EXCEPT ![FileOf[c]] = @ + 1]
        /\ UNCHANGED <<diskCount, diskNext, records, stage, next>>
    BY <1>14 DEF AppendSlot
  <2>2. \A f \in Files : count[f] <= count'[f] /\ count[f] \in Nat /\ count'[f] \in Nat
    BY <1>f, <2>1 DEF TypeOK
  <2> QED
    BY <2>1, <2>2 DEF TurnInv, TypeOK
<1>15. ASSUME NEW c \in Callers, Refuse(c) PROVE TurnInv'
  BY <1>15 DEF Refuse, Leave, Return, TurnInv, TypeOK
<1>16. ASSUME NEW c \in Callers, LockHeader(c) PROVE TurnInv'
  BY <1>16 DEF LockHeader, TurnInv, TypeOK
<1>17. ASSUME NEW c \in Callers, WriteHeader(c) PROVE TurnInv'
  <2>1. diskCount' = count[FileOf[c]] /\ UNCHANGED <<diskNext, records, stage, count, next>>
    BY <1>17 DEF WriteHeader, Image
  <2>2. stage[FileOf[c]] # "closed"
    BY <1>17, <1>o DEF WriteHeader
  <2>3. \A f \in Files : stage[f] # "closed" => f = FileOf[c]
    BY <1>f, <2>2 DEF TurnInv
  <2>4. diskCount <= count[FileOf[c]] /\ Len(records) <= diskCount
    BY <1>f, <2>2 DEF TurnInv
  <2>5. Len(records) \in Nat /\ diskCount \in Nat /\ count[FileOf[c]] \in Nat
    BY <1>f DEF TypeOK
  <2>6. \A f \in Files : stage[f] # "closed" => count[f] = count[FileOf[c]]
    BY <2>3
  <2> QED
    BY <2>1, <2>4, <2>5, <2>6 DEF TurnInv
<1>18. ASSUME NEW c \in Callers, LockRecord(c) PROVE TurnInv'
  BY <1>18 DEF LockRecord, TurnInv, TypeOK
<1>19. ASSUME NEW c \in Callers, WriteRecord(c) PROVE TurnInv'
  <2>1. records' = PutAt(records, slot[c], key[c])
    BY <1>19 DEF WriteRecord
  <2>2. UNCHANGED <<diskCount, diskNext, stage, count, next>>
    BY <1>19 DEF WriteRecord
  <2>3. Len(records') <= diskCount
    BY <1>19, <1>k, <1>p, <2>1 DEF WriteRecord
  <2> QED
    BY <2>2, <2>3 DEF TurnInv
<1>20. ASSUME NEW c \in Callers, ColumnsFail(c) PROVE TurnInv'
  <2>1. /\ diskNext' \in {diskNext, next[FileOf[c]]}
        /\ UNCHANGED <<diskCount, records, stage, count, next>>
    BY <1>20 DEF ColumnsFail, NextImage
  <2>2. \A f \in Files : stage[f] = "open" => f = FileOf[c]
    BY <1>20, <1>f, <1>o DEF ColumnsFail, TurnInv
  <2> QED
    BY <1>f, <2>1, <2>2 DEF TurnInv, TypeOK
<1>21. ASSUME NEW c \in Callers, WriteFails(c) PROVE TurnInv'
  <2>1. UNCHANGED <<diskCount, diskNext, stage, count, next>>
    BY <1>21 DEF WriteFails
  <2>2. Len(records') <= diskCount
    BY <1>21, <1>k, <1>p DEF WriteFails, TurnInv
  <2> QED
    BY <2>1, <2>2 DEF TurnInv
<1>22. CASE UNCHANGED vars
  BY <1>22 DEF vars, TurnInv, TypeOK
<1> QED
  BY <1>1, <1>2, <1>3, <1>4, <1>5, <1>6, <1>7, <1>8, <1>9, <1>10, <1>11, <1>12,
     <1>13, <1>14, <1>15, <1>16, <1>17, <1>18, <1>19, <1>20, <1>21, <1>22 DEF
     Next, CallSteps

(* A record that is partly written hides a key, and adds none. *)
LEMMA PutAtTorn ==
  ASSUME NEW s \in Seq(Content), NEW i \in Nat
  PROVE  \A k \in 1..Len(PutAt(s, i, Torn)) : PutAt(s, i, Torn)[k] \in Nat =>
            k \in 1..Len(s) /\ PutAt(s, i, Torn)[k] = s[k]
BY SharedAssumption DEF PutAt

(* Behind the end, one key is added. *)
LEMMA PutAtEnd ==
  ASSUME NEW s \in Seq(Content), NEW i \in Nat, Len(s) <= i, NEW n \in Nat
  PROVE  \A k \in 1..Len(PutAt(s, i, n)) : PutAt(s, i, n)[k] \in Nat =>
            \/ k = i + 1 /\ PutAt(s, i, n)[k] = n
            \/ k \in 1..Len(s) /\ PutAt(s, i, n)[k] = s[k]
BY SharedAssumption DEF PutAt

LEMMA InitKeys == Init => KeysInv
BY SharedAssumption DEF Init, KeysInv

(* A key is put in a record after Next on disk has passed it, and in one   *)
(* record only.                                                            *)
LEMMA NextKeys ==
  ASSUME TypeOK, CallInv, TurnInv, KeysInv, RowInv, [Next]_vars PROVE KeysInv'
<1> USE DEF disk, memory, local, Goto
<1>f. \A c \in Callers : FileOf[c] \in Files
  BY SharedAssumption
<1>1. ASSUME NEW f \in Files, OpenHeader(f) PROVE KeysInv'
  BY <1>1 DEF OpenHeader, KeysInv
<1>2. ASSUME NEW f \in Files, OpenColumns(f) PROVE KeysInv'
  BY <1>2 DEF OpenColumns, KeysInv
<1>3. ASSUME NEW f \in Files, Close(f) PROVE KeysInv'
  BY <1>3 DEF Close, Gone, CallersOf, KeysInv
<1>4. ASSUME NEW f \in Files, Crash(f) PROVE KeysInv'
  BY <1>4 DEF Crash, Gone, KeysInv
<1>5. ASSUME NEW c \in Callers, TakeKey(c) PROVE KeysInv'
  BY <1>5 DEF TakeKey, MayBegin, CallersOf, KeysInv
<1>6. ASSUME NEW c \in Callers, RaiseKey(c) PROVE KeysInv'
  BY <1>6 DEF RaiseKey, KeysInv
<1>7. ASSUME NEW c \in Callers, LockColumns(c) PROVE KeysInv'
  BY <1>7 DEF LockColumns, KeysInv
<1>8. ASSUME NEW c \in Callers, WriteColumns(c) PROVE KeysInv'
  <2>1. /\ diskNext' \in {diskNext, next[FileOf[c]]} /\ UNCHANGED records
    BY <1>8 DEF WriteColumns, NextImage
  <2>2. diskNext <= next[FileOf[c]]
    BY <1>8, <1>f DEF WriteColumns, CallInv, TurnInv
  <2>3. diskNext \in Nat /\ diskNext' \in Nat
    BY <1>f, <2>1 DEF TypeOK
  <2>4. \A i \in 1..Len(records) : records[i] \in Nat => records[i] < diskNext'
    BY <2>1, <2>2, <2>3 DEF KeysInv
  <2> QED
    BY <2>1, <2>4 DEF KeysInv
<1>9. ASSUME NEW c \in Callers, Add(c) PROVE KeysInv'
  BY <1>9 DEF Add, KeysInv
<1>10. ASSUME NEW c \in Callers, Discard(c) PROVE KeysInv'
  BY <1>10 DEF Discard, Return, KeysInv
<1>11. ASSUME NEW c \in Callers, Rewrite(c) PROVE KeysInv'
  BY <1>11 DEF Rewrite, MayBegin, CallersOf, KeysInv
<1>12. ASSUME NEW c \in Callers, Enter(c) PROVE KeysInv'
  BY <1>12 DEF Enter, KeysInv
<1>13. ASSUME NEW c \in Callers, TakeSlot(c) PROVE KeysInv'
  BY <1>13 DEF TakeSlot, IsNew, KeysInv
<1>14. ASSUME NEW c \in Callers, AppendSlot(c) PROVE KeysInv'
  BY <1>14 DEF AppendSlot, IsNew, KeysInv
<1>15. ASSUME NEW c \in Callers, Refuse(c) PROVE KeysInv'
  BY <1>15 DEF Refuse, Leave, Return, KeysInv
<1>16. ASSUME NEW c \in Callers, LockHeader(c) PROVE KeysInv'
  BY <1>16 DEF LockHeader, KeysInv
<1>17. ASSUME NEW c \in Callers, WriteHeader(c) PROVE KeysInv'
  BY <1>17 DEF WriteHeader, Image, KeysInv
<1>18. ASSUME NEW c \in Callers, LockRecord(c) PROVE KeysInv'
  BY <1>18 DEF LockRecord, KeysInv
<1>19. ASSUME NEW c \in Callers, WriteRecord(c) PROVE KeysInv'
  <2>1. /\ records' = PutAt(records, slot[c], key[c]) /\ UNCHANGED diskNext
        /\ pc[c] = "record"
    BY <1>19 DEF WriteRecord
  <2>2. records \in Seq(Content) /\ slot[c] \in Nat /\ key[c] \in Nat
    BY <2>1 DEF TypeOK, CallInv, Placed
  <2>3. CASE Stored(c, slot[c])
    <3> records' = records
      BY <2>1, <2>2, <2>3, PutAtSame DEF Stored
    <3> QED
      BY <2>1 DEF KeysInv
  <2>4. CASE Fresh(c) /\ Len(records) <= slot[c]
    <3>1. \A i \in 1..Len(records') : records'[i] \in Nat =>
             \/ i = slot[c] + 1 /\ records'[i] = key[c]
             \/ i \in 1..Len(records) /\ records'[i] = records[i]
      BY <2>1, <2>2, <2>4, PutAtEnd
    <3>2. \A i \in 1..Len(records) : records[i] # key[c]
      BY <2>4 DEF Fresh
    <3>3. \A i \in 1..Len(records') : records'[i] \in Nat => records'[i] < diskNext
      BY <2>4, <3>1 DEF Fresh, KeysInv
    <3>4. ASSUME NEW i \in 1..Len(records'), NEW j \in 1..Len(records'),
                 i # j, records'[i] \in Nat
          PROVE  records'[i] # records'[j]
      <4>1. CASE records'[j] \notin Nat
        BY <3>4, <4>1
      <4>2. CASE records'[j] \in Nat
        BY <3>1, <3>2, <3>4, <4>2 DEF KeysInv
      <4> QED
        BY <4>1, <4>2
    <3> QED
      BY <2>1, <3>3, <3>4 DEF KeysInv
  <2> QED
    BY <2>1, <2>3, <2>4 DEF RowInv, RowOK, Placed
<1>20. ASSUME NEW c \in Callers, ColumnsFail(c) PROVE KeysInv'
  <2>1. /\ diskNext' \in {diskNext, next[FileOf[c]]} /\ UNCHANGED records
    BY <1>20 DEF ColumnsFail, NextImage
  <2>2. diskNext <= next[FileOf[c]]
    BY <1>20, <1>f DEF ColumnsFail, CallInv, TurnInv
  <2>3. diskNext \in Nat /\ diskNext' \in Nat
    BY <1>f, <2>1 DEF TypeOK
  <2>4. \A i \in 1..Len(records) : records[i] \in Nat => records[i] < diskNext'
    BY <2>1, <2>2, <2>3 DEF KeysInv
  <2> QED
    BY <2>1, <2>4 DEF KeysInv
<1>21. ASSUME NEW c \in Callers, WriteFails(c) PROVE KeysInv'
  <2>1. CASE UNCHANGED records
    BY <1>21, <2>1 DEF WriteFails, KeysInv
  <2>2. CASE pc[c] = "record" /\ records' = PutAt(records, slot[c], Torn)
    <3>1. records \in Seq(Content) /\ slot[c] \in Nat
      BY <2>2 DEF TypeOK, CallInv, Placed
    <3>2. \A i \in 1..Len(records') : records'[i] \in Nat =>
             i \in 1..Len(records) /\ records'[i] = records[i]
      BY <2>2, <3>1, PutAtTorn
    <3>3. \A i \in 1..Len(records') : records'[i] \in Nat => records'[i] < diskNext
      BY <3>2 DEF KeysInv
    <3>4. ASSUME NEW i \in 1..Len(records'), NEW j \in 1..Len(records'),
                 i # j, records'[i] \in Nat
          PROVE  records'[i] # records'[j]
      <4>1. CASE records'[j] \notin Nat
        BY <3>4, <4>1
      <4>2. CASE records'[j] \in Nat
        BY <3>2, <3>4, <4>2 DEF KeysInv
      <4> QED
        BY <4>1, <4>2
    <3> QED
      BY <1>21, <3>3, <3>4 DEF WriteFails, KeysInv
  <2> QED
    BY <1>21, <2>1, <2>2 DEF WriteFails
<1>22. CASE UNCHANGED vars
  BY <1>22 DEF vars, KeysInv
<1> QED
  BY <1>1, <1>2, <1>3, <1>4, <1>5, <1>6, <1>7, <1>8, <1>9, <1>10, <1>11, <1>12,
     <1>13, <1>14, <1>15, <1>16, <1>17, <1>18, <1>19, <1>20, <1>21, <1>22 DEF
     Next, CallSteps

(***************************************************************************)
(* The row under way.                                                      *)
(***************************************************************************)
LEMMA InitRow == Init => RowInv
BY DEF Init, RowInv, RowOK, Placed, Critical

(* Nobody else is in a call, so only the caller that moves is to be looked *)
(* at.                                                                     *)
LEMMA NextRow ==
  ASSUME Serial, inTurn, TypeOK, CallInv, AloneInv, TurnInv, KeysInv, RowInv, AckedInv,
         [Next]_vars
  PROVE  RowInv'
<1> USE DEF disk, memory, local, Goto
<1>f. \A c \in Callers : FileOf[c] \in Files
  BY SharedAssumption
<1>o. \A c \in Callers : pc[c] # "idle" => stage[FileOf[c]] = "open"
  BY DEF CallInv
<1>r. \A d \in Callers : pc'[d] = "idle" => RowOK(d)'
  BY DEF RowOK, Placed, Critical
<1>i. /\ \A d \in Callers : pc'[d] = "idle" => RowOK(d)'
      /\ (\A d \in Callers : pc'[d] = "idle") => RowInv'
  BY <1>r DEF RowInv
<1>s. ASSUME NEW c \in Callers, pc[c] # "idle", RowOK(c)',
             \A d \in Callers \ {c} : pc'[d] = pc[d]
      PROVE  RowInv'
  <2>1. \A d \in Callers \ {c} : pc'[d] = "idle"
    BY <1>s, OneCall
  <2> QED
    BY <1>i, <1>s, <2>1 DEF RowInv
<1>b. ASSUME NEW c \in Callers, MayBegin(c), pc[c] = "idle"
      PROVE  \A d \in Callers : pc[d] = "idle"
  <2> SUFFICES ASSUME NEW d \in Callers, pc[d] # "idle" PROVE FALSE
    OBVIOUS
  <2>1. FileOf[d] = FileOf[c]
    BY <1>b, <1>f, <1>o DEF MayBegin, TurnInv
  <2> QED
    BY <1>b, <2>1 DEF MayBegin, CallersOf
<1>1. ASSUME NEW f \in Files, OpenHeader(f) PROVE RowInv'
  <2>1. \A c \in Callers : pc'[c] = "idle"
    BY <1>1, <1>f, <1>o DEF OpenHeader, MayOpen
  <2> QED
    BY <1>i, <2>1
<1>2. ASSUME NEW f \in Files, OpenColumns(f) PROVE RowInv'
  <2>1. \A c \in Callers : pc'[c] = "idle"
    BY <1>2, <1>f, <1>o DEF OpenColumns, TurnInv
  <2> QED
    BY <1>i, <2>1
<1>3. ASSUME NEW f \in Files, Close(f) PROVE RowInv'
  <2>1. \A c \in Callers : pc'[c] = "idle"
    BY <1>3, <1>f, <1>o DEF Close, CallersOf, TurnInv
  <2> QED
    BY <1>i, <2>1
<1>4. ASSUME NEW f \in Files, Crash(f) PROVE RowInv'
  <2>1. \A c \in Callers : pc'[c] = "idle"
    BY <1>4, <1>f, <1>o DEF Crash, TurnInv
  <2> QED
    BY <1>i, <2>1
<1>5. ASSUME NEW c \in Callers, TakeKey(c) PROVE RowInv'
  <2>1. /\ pc' = [pc EXCEPT ![c] = "raise"] /\ key' = [key EXCEPT ![c] = next[FileOf[c]]]
        /\ UNCHANGED next
    BY <1>5 DEF TakeKey
  <2>2. RowOK(c)'
    BY <2>1 DEF RowOK, Placed, Critical, TypeOK
  <2>3. \A d \in Callers \ {c} : pc'[d] = "idle"
    BY <1>5, <1>b, <2>1 DEF TakeKey, TypeOK
  <2> QED
    BY <1>i, <2>2, <2>3 DEF RowInv
<1>6. ASSUME NEW c \in Callers, RaiseKey(c) PROVE RowInv'
  <2>1. RowOK(c)'
    <3>1. key[c] = next[FileOf[c]] /\ diskNext <= next[FileOf[c]]
      BY <1>6, <1>f, <1>o DEF RaiseKey, RowInv, RowOK, TurnInv
    <3>2. /\ pc'[c] = "lockColumns" /\ key'[c] = key[c] /\ diskNext' = diskNext
          /\ next'[FileOf[c]] = next[FileOf[c]] + Step
      BY <1>6, <1>f, <3>1 DEF RaiseKey, TypeOK
    <3>3. Step \in Nat \ {0} /\ next[FileOf[c]] \in Nat
      BY <1>f, SharedAssumption DEF TypeOK
    <3> QED
      BY <3>1, <3>2, <3>3 DEF RowOK, Placed, Critical
  <2> QED
    BY <1>6, <1>s, <2>1 DEF RaiseKey, TypeOK
<1>7. ASSUME NEW c \in Callers, LockColumns(c) PROVE RowInv'
  <2>1. RowOK(c)'
    <3>1. /\ pc[c] = "lockColumns" /\ pc'[c] = "columns"
          /\ UNCHANGED <<key, diskNext, next>>
      BY <1>7 DEF LockColumns, TypeOK
    <3> QED
      BY <3>1 DEF RowOK, RowInv, Placed, Critical
  <2> QED
    BY <1>7, <1>s, <2>1 DEF LockColumns, TypeOK
<1>8. ASSUME NEW c \in Callers, WriteColumns(c) PROVE RowInv'
  <2>1. RowOK(c)'
    <3>1. /\ pc[c] = "columns" /\ pc'[c] = "row" /\ diskNext' = next[FileOf[c]]
          /\ UNCHANGED <<key, records>>
      BY <1>8 DEF WriteColumns, NextImage, TypeOK
    <3>2. diskNext <= key[c] /\ key[c] < next[FileOf[c]]
      BY <3>1 DEF RowInv, RowOK
    <3>3. \A i \in 1..Len(records) : records[i] # key[c]
      <4> key[c] \in Nat /\ diskNext \in Nat
        BY DEF TypeOK
      <4> \A i \in 1..Len(records) : records[i] \in Nat => records[i] < diskNext
        BY DEF KeysInv
      <4> QED
        BY <3>2
    <3>4. Fresh(c)'
      BY <3>1, <3>2, <3>3 DEF Fresh
    <3> QED
      BY <3>1, <3>4 DEF RowOK, Placed, Critical
  <2> QED
    BY <1>8, <1>s, <2>1 DEF WriteColumns, TypeOK
<1>9. ASSUME NEW c \in Callers, Add(c) PROVE RowInv'
  <2>1. RowOK(c)'
    <3>1. /\ pc[c] = "row" /\ pc'[c] = "enter" /\ pos'[c] = count[FileOf[c]] + 1
          /\ UNCHANGED <<key, count, diskNext, records, acked>>
      BY <1>9 DEF Add, TypeOK
    <3>2. Fresh(c)
      BY <3>1 DEF RowInv, RowOK
    <3>3. Fresh(c)' /\ key[c] \notin acked
      BY <3>1, <3>2 DEF Fresh, AckedInv
    <3> QED
      BY <3>1, <3>3 DEF RowOK, Placed, Critical
  <2> QED
    BY <1>9, <1>s, <2>1 DEF Add, TypeOK
<1>10. ASSUME NEW c \in Callers, Discard(c) PROVE RowInv'
  <2>1. pc' = [pc EXCEPT ![c] = "idle"] /\ pc[c] # "idle"
    BY <1>10 DEF Discard, Return
  <2> QED
    BY <1>i, <1>s, <2>1 DEF TypeOK
<1>11. ASSUME NEW c \in Callers, Rewrite(c) PROVE RowInv'
  <2>1. PICK i \in 1..Len(records) : /\ records[i] \in Nat
                                     /\ pos' = [pos EXCEPT ![c] = i - 1]
                                     /\ key' = [key EXCEPT ![c] = records[i]]
                                     /\ acked' = acked \ {records[i]}
    BY <1>11 DEF Rewrite
  <2>2. pc' = [pc EXCEPT ![c] = "enter"] /\ UNCHANGED records
    BY <1>11 DEF Rewrite
  <2>3. pc'[c] = "enter" /\ key'[c] = records[i] /\ pos'[c] = i - 1
    BY <2>1, <2>2 DEF TypeOK
  <2>4. Stored(c, pos[c])' /\ key'[c] \notin acked'
    BY <2>1, <2>2, <2>3 DEF Stored, TypeOK
  <2>5. RowOK(c)'
    BY <2>3, <2>4 DEF RowOK, Placed, Critical
  <2>6. \A d \in Callers \ {c} : pc'[d] = "idle"
    BY <1>11, <1>b, <2>2 DEF Rewrite, TypeOK
  <2> QED
    BY <1>i, <2>5, <2>6 DEF RowInv
<1>12. ASSUME NEW c \in Callers, Enter(c) PROVE RowInv'
  <2>1. RowOK(c)'
    <3>1. /\ pc[c] = "enter" /\ pc'[c] = "reserve"
          /\ UNCHANGED <<key, pos, count, diskNext, records, acked>>
      BY <1>12 DEF Enter, TypeOK
    <3> QED
      BY <3>1 DEF RowOK, RowInv, Placed, Critical, Fresh, Stored
  <2> QED
    BY <1>12, <1>s, <2>1 DEF Enter, TypeOK
<1>13. ASSUME NEW c \in Callers, TakeSlot(c) PROVE RowInv'
  <2>1. RowOK(c)'
    <3>1. /\ pc[c] = "reserve" /\ pc'[c] = "lockHeader" /\ slot'[c] = pos[c]
          /\ pos[c] < count[FileOf[c]] /\ pos[c] \in Nat /\ count[FileOf[c]] \in Nat
          /\ UNCHANGED <<key, records, acked>>
      BY <1>13, <1>f DEF TakeSlot, IsNew, TypeOK
    <3>2. Stored(c, pos[c]) /\ key[c] \notin acked
      BY <3>1 DEF RowInv, RowOK, Critical
    <3>3. Stored(c, slot[c])'
      BY <3>1, <3>2 DEF Stored
    <3> QED
      BY <3>1, <3>2, <3>3 DEF RowOK, Placed, Critical
  <2> QED
    BY <1>13, <1>s, <2>1 DEF TakeSlot, TypeOK
<1>14. ASSUME NEW c \in Callers, AppendSlot(c) PROVE RowInv'
  <2>1. RowOK(c)'
    <3>1. /\ pc[c] = "reserve" /\ pc'[c] = "lockHeader" /\ slot'[c] = pos[c] - 1
          /\ pos[c] >= count[FileOf[c]]
          /\ UNCHANGED <<key, diskNext, records, acked>>
      BY <1>14 DEF AppendSlot, IsNew, TypeOK
    <3>2. Len(records) <= diskCount /\ diskCount <= count[FileOf[c]]
      BY <1>f, <1>o, <3>1 DEF TurnInv
    <3>3. /\ Len(records) \in Nat /\ diskCount \in Nat /\ count[FileOf[c]] \in Nat
          /\ pos[c] \in Nat
      BY <1>f DEF TypeOK
    <3>4. ~Stored(c, pos[c])
      BY <3>1, <3>2, <3>3 DEF Stored
    <3>5. Fresh(c) /\ pos[c] = count[FileOf[c]] + 1 /\ key[c] \notin acked
      BY <3>1, <3>4 DEF RowInv, RowOK, Critical
    <3>6. Fresh(c)' /\ Len(records)' <= slot'[c]
      BY <3>1, <3>2, <3>3, <3>5 DEF Fresh
    <3> QED
      BY <3>1, <3>5, <3>6 DEF RowOK, Placed, Critical
  <2> QED
    BY <1>14, <1>s, <2>1 DEF AppendSlot, TypeOK
<1>15. ASSUME NEW c \in Callers, Refuse(c) PROVE RowInv'
  <2>1. pc' = [pc EXCEPT ![c] = "idle"] /\ pc[c] # "idle"
    BY <1>15 DEF Refuse, Leave, Return
  <2> QED
    BY <1>i, <1>s, <2>1 DEF TypeOK
<1>16. ASSUME NEW c \in Callers, LockHeader(c) PROVE RowInv'
  <2>1. RowOK(c)'
    <3>1. /\ pc[c] = "lockHeader" /\ pc'[c] = "header"
          /\ UNCHANGED <<key, slot, count, diskCount, diskNext, records, acked>>
      BY <1>16 DEF LockHeader, TypeOK
    <3> QED
      BY <3>1 DEF RowOK, RowInv, Placed, Critical, Fresh, Stored
  <2> QED
    BY <1>16, <1>s, <2>1 DEF LockHeader, TypeOK
<1>17. ASSUME NEW c \in Callers, WriteHeader(c) PROVE RowInv'
  <2>1. RowOK(c)'
    <3>1. /\ pc[c] = "header" /\ pc'[c] = "lockRecord" /\ diskCount' = count[FileOf[c]]
          /\ UNCHANGED <<key, slot, count, diskNext, records, acked>>
      BY <1>17 DEF WriteHeader, Image, TypeOK
    <3> QED
      BY <3>1 DEF RowOK, RowInv, Placed, Critical, Fresh, Stored
  <2> QED
    BY <1>17, <1>s, <2>1 DEF WriteHeader, TypeOK
<1>18. ASSUME NEW c \in Callers, LockRecord(c) PROVE RowInv'
  <2>1. RowOK(c)'
    <3>1. /\ pc[c] = "lockRecord" /\ pc'[c] = "record"
          /\ UNCHANGED <<key, slot, count, diskCount, diskNext, records, acked>>
      BY <1>18 DEF LockRecord, TypeOK
    <3> QED
      BY <3>1 DEF RowOK, RowInv, Placed, Critical, Fresh, Stored
  <2> QED
    BY <1>18, <1>s, <2>1 DEF LockRecord, TypeOK
<1>19. ASSUME NEW c \in Callers, WriteRecord(c) PROVE RowInv'
  <2>1. pc' = [pc EXCEPT ![c] = "idle"] /\ pc[c] # "idle"
    BY <1>19 DEF WriteRecord, Leave, Return
  <2> QED
    BY <1>i, <1>s, <2>1 DEF TypeOK
<1>20. ASSUME NEW c \in Callers, ColumnsFail(c) PROVE RowInv'
  <2>1. pc' = [pc EXCEPT ![c] = "idle"] /\ pc[c] # "idle"
    BY <1>20 DEF ColumnsFail, Return
  <2> QED
    BY <1>i, <1>s, <2>1 DEF TypeOK
<1>21. ASSUME NEW c \in Callers, WriteFails(c) PROVE RowInv'
  <2>1. pc' = [pc EXCEPT ![c] = "idle"] /\ pc[c] # "idle"
    BY <1>21 DEF WriteFails, Leave, Return
  <2> QED
    BY <1>i, <1>s, <2>1 DEF TypeOK
<1>22. CASE UNCHANGED vars
  <2> SUFFICES ASSUME NEW c \in Callers PROVE RowOK(c)'
    BY DEF RowInv
  <2> QED
    BY <1>22 DEF vars, RowInv, RowOK, Fresh, Stored, Placed, Critical
<1> QED
  BY <1>1, <1>2, <1>3, <1>4, <1>5, <1>6, <1>7, <1>8, <1>9, <1>10, <1>11, <1>12,
     <1>13, <1>14, <1>15, <1>16, <1>17, <1>18, <1>19, <1>20, <1>21, <1>22 DEF
     Next, CallSteps

(* What was acknowledged stays in a record: only the record of a row that  *)
(* is being written is changed.                                            *)
LEMMA InitAcked == Init => AckedInv
BY DEF Init, AckedInv

LEMMA NextAcked ==
  ASSUME TypeOK, CallInv, RowInv, AckedInv, [Next]_vars PROVE AckedInv'
<1> USE DEF disk, memory, local, Goto
<1>k. \A c \in Callers : key[c] \in Content /\ Torn \in Content
  BY DEF TypeOK, Content
<1>w. ASSUME NEW c \in Callers, pc[c] = "record", NEW content \in Content,
             NEW k \in acked
      PROVE  \E i \in 1..Len(PutAt(records, slot[c], content)) :
               PutAt(records, slot[c], content)[i] = k
  <2>1. PICK i \in 1..Len(records) : records[i] = k
    BY DEF AckedInv
  <2>2. records \in Seq(Content) /\ slot[c] \in Nat /\ k # key[c]
    BY <1>w DEF TypeOK, CallInv, Placed, RowInv, RowOK, Critical
  <2>3. Stored(c, slot[c]) \/ Len(records) <= slot[c]
    BY <1>w DEF RowInv, RowOK, Placed
  <2>4. i # slot[c] + 1
    BY <2>1, <2>2, <2>3 DEF Stored
  <2>5. i \in 1..Len(PutAt(records, slot[c], content))
    BY <2>2, PutAtType
  <2>6. PutAt(records, slot[c], content)[i] = records[i]
    BY <2>2, <2>4, PutAtElements
  <2> QED
    BY <2>1, <2>5, <2>6
<1>1. ASSUME NEW f \in Files, OpenHeader(f) PROVE AckedInv'
  BY <1>1 DEF OpenHeader, AckedInv
<1>2. ASSUME NEW f \in Files, OpenColumns(f) PROVE AckedInv'
  BY <1>2 DEF OpenColumns, AckedInv
<1>3. ASSUME NEW f \in Files, Close(f) PROVE AckedInv'
  BY <1>3 DEF Close, Gone, CallersOf, AckedInv
<1>4. ASSUME NEW f \in Files, Crash(f) PROVE AckedInv'
  BY <1>4 DEF Crash, Gone, AckedInv
<1>5. ASSUME NEW c \in Callers, TakeKey(c) PROVE AckedInv'
  BY <1>5 DEF TakeKey, MayBegin, CallersOf, AckedInv
<1>6. ASSUME NEW c \in Callers, RaiseKey(c) PROVE AckedInv'
  BY <1>6 DEF RaiseKey, AckedInv
<1>7. ASSUME NEW c \in Callers, LockColumns(c) PROVE AckedInv'
  BY <1>7 DEF LockColumns, AckedInv
<1>8. ASSUME NEW c \in Callers, WriteColumns(c) PROVE AckedInv'
  BY <1>8 DEF WriteColumns, NextImage, AckedInv
<1>9. ASSUME NEW c \in Callers, Add(c) PROVE AckedInv'
  BY <1>9 DEF Add, AckedInv
<1>10. ASSUME NEW c \in Callers, Discard(c) PROVE AckedInv'
  BY <1>10 DEF Discard, Return, AckedInv
<1>11. ASSUME NEW c \in Callers, Rewrite(c) PROVE AckedInv'
  <2>1. acked' \subseteq acked /\ UNCHANGED records
    BY <1>11 DEF Rewrite
  <2> QED
    BY <2>1 DEF AckedInv
<1>12. ASSUME NEW c \in Callers, Enter(c) PROVE AckedInv'
  BY <1>12 DEF Enter, AckedInv
<1>13. ASSUME NEW c \in Callers, TakeSlot(c) PROVE AckedInv'
  BY <1>13 DEF TakeSlot, IsNew, AckedInv
<1>14. ASSUME NEW c \in Callers, AppendSlot(c) PROVE AckedInv'
  BY <1>14 DEF AppendSlot, IsNew, AckedInv
<1>15. ASSUME NEW c \in Callers, Refuse(c) PROVE AckedInv'
  BY <1>15 DEF Refuse, Leave, Return, AckedInv
<1>16. ASSUME NEW c \in Callers, LockHeader(c) PROVE AckedInv'
  BY <1>16 DEF LockHeader, AckedInv
<1>17. ASSUME NEW c \in Callers, WriteHeader(c) PROVE AckedInv'
  BY <1>17 DEF WriteHeader, Image, AckedInv
<1>18. ASSUME NEW c \in Callers, LockRecord(c) PROVE AckedInv'
  BY <1>18 DEF LockRecord, AckedInv
<1>19. ASSUME NEW c \in Callers, WriteRecord(c) PROVE AckedInv'
  <2>1. /\ records' = PutAt(records, slot[c], key[c]) /\ pc[c] = "record"
        /\ acked' = acked \cup {key[c]}
    BY <1>19 DEF WriteRecord
  <2>2. records \in Seq(Content) /\ slot[c] \in Nat /\ key[c] \in Nat
    BY <2>1 DEF TypeOK, CallInv, Placed
  <2>3. \E i \in 1..Len(records') : records'[i] = key[c]
    <3>1. slot[c] + 1 \in 1..Len(records')
      BY <2>1, <2>2, <1>k, PutAtType
    <3> QED
      BY <2>1, <2>2, <3>1, PutAtElements
  <2>4. ASSUME NEW k \in acked PROVE \E i \in 1..Len(records') : records'[i] = k
    <3>1. key[c] \in Content /\ records' = PutAt(records, slot[c], key[c])
      BY <1>k, <2>1
    <3> QED
      BY <1>w, <2>1, <3>1
  <2> QED
    BY <2>1, <2>3, <2>4 DEF AckedInv
<1>20. ASSUME NEW c \in Callers, ColumnsFail(c) PROVE AckedInv'
  BY <1>20 DEF ColumnsFail, Return, NextImage, AckedInv
<1>21. ASSUME NEW c \in Callers, WriteFails(c) PROVE AckedInv'
  <2>1. CASE UNCHANGED records
    BY <1>21, <2>1 DEF WriteFails, AckedInv
  <2>2. CASE pc[c] = "record" /\ records' = PutAt(records, slot[c], Torn)
    <3>1. ASSUME NEW k \in acked PROVE \E i \in 1..Len(records') : records'[i] = k
      BY <1>k, <1>w, <2>2, <3>1
    <3> QED
      BY <1>21, <3>1 DEF WriteFails, AckedInv
  <2> QED
    BY <1>21, <2>1, <2>2 DEF WriteFails
<1>22. CASE UNCHANGED vars
  BY <1>22 DEF vars, AckedInv
<1> QED
  BY <1>1, <1>2, <1>3, <1>4, <1>5, <1>6, <1>7, <1>8, <1>9, <1>10, <1>11, <1>12,
     <1>13, <1>14, <1>15, <1>16, <1>17, <1>18, <1>19, <1>20, <1>21, <1>22 DEF
     Next, CallSteps

(***************************************************************************)
(* The theorems.                                                           *)
(***************************************************************************)
LEMMA NextInv == IInv /\ [Next]_vars => IInv'
<1> SUFFICES ASSUME IInv, [Next]_vars PROVE IInv'
  OBVIOUS
<1>1. TypeOK' /\ CallInv' /\ SizeInv'
  BY NextType, NextCall, NextSize DEF IInv
<1>2. Serial => AloneInv'
  BY NextAlone DEF IInv
<1>3. inTurn' = inTurn
  BY DEF Next, CallSteps, vars, OpenHeader, OpenColumns, Close, Crash, TakeKey, Add,
         Discard, Rewrite, RaiseKey, LockColumns, WriteColumns, Enter, TakeSlot,
         AppendSlot, Refuse, LockHeader, WriteHeader, LockRecord, WriteRecord,
         ColumnsFail, WriteFails
<1>4. Serial /\ inTurn => TurnInv' /\ KeysInv' /\ RowInv' /\ AckedInv'
  BY NextTurn, NextKeys, NextRow, NextAcked DEF IInv
<1> QED
  BY <1>1, <1>2, <1>3, <1>4 DEF IInv

(* Every *File, its header, columns and callers have their types always.   *)
THEOREM TypeCorrect == Spec => []TypeOK
<1>1. Init => TypeOK
  BY InitType
<1>2. TypeOK /\ [Next]_vars => TypeOK'
  BY NextType
<1> QED
  BY <1>1, <1>2, PTL DEF Spec

(* The invariant of the run, for every number of processes and goroutines, *)
(* whether they take turns or not and make calls one at a time or not.     *)
THEOREM Invariance == Spec => []IInv
<1>1. Init => IInv
  BY InitType, InitCall, InitSize, InitTurn, InitKeys, InitRow, InitAcked DEF IInv
<1>2. IInv /\ [Next]_vars => IInv'
  BY NextInv
<1> QED
  BY <1>1, <1>2, PTL DEF Spec

(* WriteRow never makes the file larger than MaxTableFileSize, whoever else*)
(* writes to it: the 32-bit product in FileSize does not wrap unnoticed.   *)
THEOREM SizeIsLimited == Spec => []SizeWithinLimit
<1>1. IInv => SizeWithinLimit
  BY DEF IInv, SizeInv, Fits, SizeWithinLimit
<1> QED
  BY <1>1, Invariance, PTL

(* Increment and WriteColumns give a key out once when processes take turns*)
(* and calls are made one at a time, over Close, crash and OpenTable.      *)
THEOREM KeysAreUnique == ASSUME Serial PROVE Spec => []KeysUnique
<1>1. IInv => KeysUnique
  BY DEF IInv, KeysInv, KeysUnique
<1> QED
  BY <1>1, Invariance, PTL

(* Under the same conditions a row whose Add or Write returned nil is in   *)
(* the file and counted in its header.                                     *)
THEOREM AddsAreKept == ASSUME Serial PROVE Spec => []AckedKeptInTurn
<1>1. ASSUME IInv, inTurn PROVE AckedKept
  <2>1. Len(records) <= diskCount /\ Len(records) \in Nat /\ diskCount \in Nat
    BY <1>1 DEF IInv, TurnInv, TypeOK
  <2>2. \A k \in acked : \E i \in 1..Len(records) : records[i] = k
    BY <1>1 DEF IInv, AckedInv
  <2> QED
    BY <2>1, <2>2 DEF AckedKept
<1>2. IInv => AckedKeptInTurn
  BY <1>1 DEF AckedKeptInTurn
<1> QED
  BY <1>2, Invariance, PTL
=============================================================================
