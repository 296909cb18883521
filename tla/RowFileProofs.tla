--------------------------- MODULE RowFileProofs ----------------------------
(* Theorems about RowFile for every number of goroutines, rows, calls and  *)
(* faults.                                                                 *)
EXTENDS RowFile, FiniteSetTheorems, SequenceTheorems, TLAPS

(***************************************************************************)
(* Writing into the slots.                                                 *)
(***************************************************************************)

(* A write at any offset leaves a sequence of contents, as long as it was  *)
(* or up to the slot that was written.                                     *)
LEMMA PutAtType ==
  ASSUME NEW s \in Seq(Content), NEW i \in Int, NEW c \in Content
  PROVE  /\ PutAt(s, i, c) \in Seq(Content)
         /\ Len(PutAt(s, i, c)) = IF i < Len(s) THEN Len(s) ELSE i + 1
<1> DEFINE n == IF i < Len(s) THEN Len(s) ELSE i + 1
           f == [k \in 1..n |->
                   IF k = i + 1 THEN c ELSE IF k <= Len(s) THEN s[k] ELSE Zero]
<1>1. n \in Nat
  OBVIOUS
<1>2. Zero \in Content
  BY DEF Content
<1>3. \A k \in 1..n : f[k] \in Content
  BY <1>1, <1>2
<1>4. f \in [1..n -> Content]
  BY <1>3
<1>5. f \in Seq(Content) /\ Len(f) = n
  BY <1>1, <1>4
<1>6. PutAt(s, i, c) = f
  BY DEF PutAt
<1> QED
  BY <1>5, <1>6

(* It changes the slot it is aimed at and no other.                        *)
LEMMA PutAtElements ==
  ASSUME NEW s \in Seq(Content), NEW i \in Nat, NEW c \in Content
  PROVE  /\ PutAt(s, i, c)[i + 1] = c
         /\ \A k \in 1..Len(s) : k # i + 1 => PutAt(s, i, c)[k] = s[k]
BY DEF PutAt

(***************************************************************************)
(* Types.                                                                  *)
(***************************************************************************)
LEMMA InitType == Init => TypeOK
<1> SUFFICES ASSUME Init PROVE TypeOK
  OBVIOUS
<1> USE SizesAssumption, RolesAssumption DEF Init
<1>1. LabelsOK
  BY DEF LabelsOK, AtRest, Procs, Writers, WriterPCs, ReaderPCs
<1>2. slots \in Seq(Content)
  BY DEF FirstRows, Content, Payload
<1>3. pos \in [Procs -> Nat]
  OBVIOUS
<1>4. NoRow \in Payload
  BY DEF NoRow, Payload
<1>5. /\ val \in [Procs -> Content \cup {Err}]
      /\ \A p \in Writers : val[p] \in Payload
  BY <1>4 DEF Content, Procs, Writers
<1>6. \A p \in Readers : pc[p] # "store"
  BY DEF AtRest, Procs
<1> QED
  BY <1>1, <1>2, <1>3, <1>5, <1>6 DEF TypeOK, InHeader, Procs

(* A goroutine moves to a label of its role. *)
LEMMA GotoLabels ==
  ASSUME LabelsOK, NEW p \in Procs, NEW label, Goto(p, label),
         p \in Writers => label \in WriterPCs,
         p \in Readers => label \in ReaderPCs
  PROVE  LabelsOK'
BY DEF LabelsOK, Goto, Procs, Writers

LEMMA NoLabelsChange == LabelsOK /\ UNCHANGED pc => LabelsOK'
BY DEF LabelsOK
(* Every step keeps the types; the steps that write need PutAtType.        *)
LEMMA NextType == TypeOK /\ [Next]_vars => TypeOK'
<1> SUFFICES ASSUME TypeOK, [Next]_vars PROVE TypeOK'
  OBVIOUS
<1> USE SizesAssumption DEF TypeOK, NewPosition, NextOp, Free, OldSlot, NewSlot, Counted,
        Uncounted, Image, RowOffset, ReadOffset, RowPosition
<1>0. /\ \A p \in Writers, k \in 0..MaxOps : [by |-> p, n |-> k] \in Payload
      /\ Payload \subseteq Content /\ {Zero, Torn, HdrBytes} \subseteq Content
  BY DEF Payload, Content, Procs, Writers
<1>w. \A p \in Writers : p \in Procs /\ p \notin Readers
  BY RolesAssumption DEF Procs, Writers
<1>r. \A p \in Readers : p \in Procs /\ p \notin Writers
  BY RolesAssumption DEF Procs, Writers
<1>l. ASSUME NEW p \in Writers, NEW label \in WriterPCs, Goto(p, label) PROVE LabelsOK'
  BY <1>l, <1>w, GotoLabels
<1>m. ASSUME NEW p \in Readers, NEW label \in ReaderPCs, Goto(p, label) PROVE LabelsOK'
  BY <1>m, <1>r, GotoLabels
<1>1. ASSUME NEW p \in Writers, NewRow(p) PROVE TypeOK'
  <2>1. LabelsOK'
    BY <1>1, <1>l DEF NewRow, WriterPCs
  <2>2. ops[p] + 1 \in 0..MaxOps
    BY <1>1, <1>w DEF NewRow
  <2> QED
    BY <1>1, <1>0, <1>w, <2>1, <2>2 DEF NewRow, Goto, shared, LabelsOK
<1>2. ASSUME NEW p \in Writers, SetValue(p) PROVE TypeOK'
  <2>1. LabelsOK'
    BY <1>2, <1>l DEF SetValue, WriterPCs
  <2>2. (ops[p] % MaxOps) + 1 \in 0..MaxOps
    BY <1>w
  <2> QED
    BY <1>2, <1>0, <1>w, <2>1, <2>2 DEF SetValue, Goto, shared, LabelsOK
<1>3. ASSUME NEW p \in Writers, Write(p) PROVE TypeOK'
  <2>1. LabelsOK'
    BY <1>3, <1>l DEF Write, WriterPCs
  <2> QED
    BY <1>3, <1>0, <1>w, <2>1, SMTT(30) DEF Write, Goto, shared, LabelsOK
<1>4. ASSUME NEW p \in Writers, Add(p) PROVE TypeOK'
  <2>1. LabelsOK'
    BY <1>4, <1>l DEF Add, WriterPCs
  <2> QED
    BY <1>4, <1>0, <1>w, <2>1 DEF Add, Goto, shared, LabelsOK
<1>5. ASSUME NEW p \in Writers, Lock(p) PROVE TypeOK'
  <2>1. LabelsOK'
    BY <1>5, <1>l DEF Lock, WriterPCs
  <2> QED
    BY <1>5, <1>0, <1>w, <2>1 DEF Lock, Goto, shared, LabelsOK
<1>6. ASSUME NEW p \in Writers, TakeSlot(p) PROVE TypeOK'
  <2>1. LabelsOK'
    BY <1>6, <1>l DEF TakeSlot, WriterPCs
  <2> QED
    BY <1>6, <1>0, <1>w, <2>1 DEF TakeSlot, Goto, shared, LabelsOK
<1>7. ASSUME NEW p \in Writers, AppendSlot(p) PROVE TypeOK'
  <2>1. LabelsOK'
    BY <1>7, <1>l DEF AppendSlot, WriterPCs
  <2> QED
    BY <1>7, <1>0, <1>w, <2>1 DEF AppendSlot, Goto, shared, LabelsOK
<1>8. ASSUME NEW p \in Writers, TableFull(p) PROVE TypeOK'
  <2>1. LabelsOK'
    BY <1>8, <1>l DEF TableFull, Leave, WriterPCs
  <2> QED
    BY <1>8, <1>0, <1>w, <2>1 DEF TableFull, Leave, Goto, shared, LabelsOK
<1>9. ASSUME NEW p \in Writers, Validate(p) PROVE TypeOK'
  <2>1. LabelsOK'
    BY <1>9, <1>l DEF Validate, WriterPCs
  <2> QED
    BY <1>9, <1>0, <1>w, <2>1 DEF Validate, Goto, shared, LabelsOK
<1>10. ASSUME NEW p \in Writers, FileTooLarge(p) PROVE TypeOK'
  <2>1. LabelsOK'
    BY <1>10, <1>l DEF FileTooLarge, Leave, WriterPCs
  <2> QED
    BY <1>10, <1>0, <1>w, <2>1 DEF FileTooLarge, Leave, Goto, shared, LabelsOK
<1>11. ASSUME NEW p \in Writers, HdrSeek(p) PROVE TypeOK'
  <2>1. LabelsOK'
    BY <1>11, <1>l DEF HdrSeek, WriterPCs
  <2> QED
    BY <1>11, <1>0, <1>w, <2>1 DEF HdrSeek, Goto, shared, LabelsOK, AtHeader
<1>12. ASSUME NEW p \in Writers, HdrWrite(p) PROVE TypeOK'
  <2>1. LabelsOK'
    BY <1>12, <1>l DEF HdrWrite, WriterPCs
  <2> QED
    BY <1>12, <1>0, <1>w, <2>1 DEF HdrWrite, Goto, shared, LabelsOK, AfterHeader
<1>13. ASSUME NEW p \in Writers, HdrMisplaced(p) PROVE TypeOK'
  <2>1. LabelsOK'
    BY <1>13, <1>l DEF HdrMisplaced, WriterPCs
  <2>2. PutAt(slots, cursor, HdrBytes) \in Seq(Content)
    BY <1>0, PutAtType
  <2>3. slots' \in Seq(Content) /\ cursor' \in Int
    BY <1>13, <2>2 DEF HdrMisplaced, InHeader, InRecord
  <2>4. columnsOK' \in BOOLEAN
    BY <1>13 DEF HdrMisplaced
  <2> QED
    BY <1>13, <1>0, <1>w, <2>1, <2>3, <2>4 DEF HdrMisplaced, Goto, shared, LabelsOK
<1>14. ASSUME NEW p \in Writers, RowSeek(p) PROVE TypeOK'
  <2>1. LabelsOK'
    BY <1>14, <1>l DEF RowSeek, WriterPCs
  <2> QED
    BY <1>14, <1>0, <1>w, <2>1 DEF RowSeek, Goto, shared, LabelsOK
<1>15. ASSUME NEW p \in Writers, RowWrite(p) PROVE TypeOK'
  <2>1. LabelsOK'
    BY <1>15, <1>l DEF RowWrite, Leave, WriterPCs
  <2>2. PutAt(slots, cursor, val[p]) \in Seq(Content)
    BY <1>0, PutAtType
  <2> QED
    BY <1>15, <1>0, <1>w, <2>1, <2>2 DEF RowWrite, Leave, Goto, shared, LabelsOK
<1>16. ASSUME NEW p \in Writers, WriteRefused(p) PROVE TypeOK'
  <2>1. LabelsOK'
    BY <1>16, <1>l DEF WriteRefused, Leave, WriterPCs
  <2> QED
    BY <1>16, <1>0, <1>w, <2>1 DEF WriteRefused, Leave, Goto, shared, LabelsOK
<1>17. ASSUME NEW p \in Writers, Return(p) PROVE TypeOK'
  <2>1. LabelsOK'
    <3>1. CASE pc' = [pc EXCEPT ![p] = "held"]
      BY <3>1, <1>l DEF Goto, WriterPCs
    <3>2. CASE pc' = [pc EXCEPT ![p] = "idle"]
      BY <3>2, <1>l DEF Goto, WriterPCs
    <3> QED
      BY <1>17, <3>1, <3>2 DEF Return, Goto
  <2> QED
    BY <1>17, <1>w, <2>1 DEF Return, Goto, shared, LabelsOK
<1>18. ASSUME NEW p \in Writers, HdrFail(p) PROVE TypeOK'
  <2>1. LabelsOK'
    BY <1>18, <1>l DEF HdrFail, Fault, Leave, WriterPCs
  <2> QED
    BY <1>18, <1>0, <1>w, <2>1 DEF HdrFail, Fault, Leave, Goto, shared, LabelsOK
<1>19. ASSUME NEW p \in Writers, RowFail(p) PROVE TypeOK'
  <2>1. LabelsOK'
    BY <1>19, <1>l DEF RowFail, Fault, Leave, WriterPCs
  <2>2. PutAt(slots, cursor, Torn) \in Seq(Content)
    BY <1>0, PutAtType
  <2> QED
    BY <1>19, <1>0, <1>w, <2>1, <2>2 DEF RowFail, Fault, Leave, Goto, shared, LabelsOK, InRecord
<1>20. ASSUME NEW p \in Readers, NextBegin(p) PROVE TypeOK'
  <2>1. LabelsOK'
    BY <1>20, <1>m DEF NextBegin, ReaderPCs
  <2> QED
    BY <1>20, <1>0, <1>r, <2>1, SMTT(30) DEF NextBegin, Goto, shared, LabelsOK
<1>21. ASSUME NEW p \in Readers, GoTo(p) PROVE TypeOK'
  BY <1>21, <1>r, SMTT(30) DEF GoTo, LabelsOK
<1>22. ASSUME NEW p \in Readers, CheckBounds(p) PROVE TypeOK'
  <2>1. LabelsOK'
    BY <1>22, <1>m DEF CheckBounds, ReaderPCs
  <2> QED
    BY <1>22, <1>0, <1>r, <2>1 DEF CheckBounds, Goto, shared, LabelsOK
<1>23. ASSUME NEW p \in Readers, OutOfRange(p) PROVE TypeOK'
  <2>1. LabelsOK'
    BY <1>23, <1>m DEF OutOfRange, ReaderPCs
  <2> QED
    BY <1>23, <1>0, <1>r, <2>1 DEF OutOfRange, Goto, shared, LabelsOK
<1>24. ASSUME NEW p \in Readers, ReadSeek(p) PROVE TypeOK'
  <2>1. LabelsOK'
    BY <1>24, <1>m DEF ReadSeek, ReaderPCs
  <2> QED
    BY <1>24, <1>0, <1>r, <2>1 DEF ReadSeek, Goto, shared, LabelsOK
<1>25. ASSUME NEW p \in Readers, ReadRecord(p) PROVE TypeOK'
  <2>1. LabelsOK'
    BY <1>25, <1>m DEF ReadRecord, ReaderPCs
  <2>2. Seen \subseteq Content \cup {Err}
    BY <1>0 DEF Seen
  <2>3. Advanced \in Int
    BY DEF Advanced, InRecord, InHeader
  <2> QED
    BY <1>25, <1>0, <1>r, <2>1, <2>2, <2>3 DEF ReadRecord, Goto, shared, LabelsOK
<1>26. ASSUME NEW p \in Readers, MakeRow(p) PROVE TypeOK'
  <2>1. LabelsOK'
    BY <1>26, <1>m DEF MakeRow, ReaderPCs
  <2> QED
    BY <1>26, <1>0, <1>r, <2>1 DEF MakeRow, Goto, shared, LabelsOK
<1>27. ASSUME NEW p \in Readers, SkipBegin(p) PROVE TypeOK'
  <2>1. LabelsOK'
    BY <1>27, <1>m DEF SkipBegin, ReaderPCs
  <2> QED
    BY <1>27, <1>0, <1>r, <2>1 DEF SkipBegin, Goto, shared, LabelsOK
<1>28. ASSUME NEW p \in Readers, SkipEnd(p) PROVE TypeOK'
  <2>1. LabelsOK'
    BY <1>28, <1>m DEF SkipEnd, ReaderPCs
  <2> QED
    BY <1>28, <1>0, <1>r, <2>1 DEF SkipEnd, Goto, shared, LabelsOK
<1>29. CASE Crash
  <2>1. LabelsOK' /\ \A p \in Readers : pc'[p] # "store"
    BY <1>29, <1>r DEF Crash, AtRest, LabelsOK, WriterPCs, ReaderPCs, Procs, Writers
  <2> QED
    BY <1>29, <2>1 DEF Crash, Fault, InHeader
<1>30. CASE UNCHANGED vars
  BY <1>30 DEF vars, shared, local, LabelsOK
<1> QED
  BY <1>1, <1>2, <1>3, <1>4, <1>5, <1>6, <1>7, <1>8, <1>9, <1>10, <1>11, <1>12, <1>13, <1>14, <1>15, <1>16, <1>17, <1>18, <1>19, <1>20, <1>21, <1>22, <1>23, <1>24, <1>25, <1>26, <1>27, <1>28, <1>29, <1>30
     DEF Next, WriteSteps, ReadSteps

(* RowFile is well typed, for every workload and every fault.              *)
THEOREM TypeCorrect == Spec => []TypeOK
BY InitType, NextType, PTL DEF Spec

(***************************************************************************)
(* The mutex.                                                              *)
(***************************************************************************)

(* A step by which p neither takes nor leaves the mutex. *)
LEMMA MutexKept ==
  ASSUME TypeOK, MutexOK, NEW p \in Procs, NEW label, Goto(p, label),
         UNCHANGED mutex, pc[p] \in Critical <=> label \in Critical
  PROVE  MutexOK'
BY DEF MutexOK, TypeOK, LabelsOK, Goto

(* A step by which p leaves WriteRow. *)
LEMMA MutexLeft ==
  ASSUME TypeOK, MutexOK, NEW p \in Procs, NEW label, Leave(p, label),
         pc[p] \in Critical, label \notin Critical
  PROVE  MutexOK'
BY RolesAssumption DEF MutexOK, TypeOK, LabelsOK, Leave, Goto

LEMMA NextMutex == TypeOK /\ MutexOK /\ [Next]_vars => MutexOK'
<1> SUFFICES ASSUME TypeOK, MutexOK, [Next]_vars PROVE MutexOK'
  OBVIOUS
<1> USE DEF Critical, Free
<1>w. \A p \in Writers : p \in Procs
  BY DEF Procs, Writers
<1>r. \A p \in Readers : p \in Procs
  BY DEF Procs
<1>1. ASSUME NEW p \in Writers, NewRow(p) \/ SetValue(p) \/ Write(p) \/ Add(p)
      PROVE  MutexOK'
  BY <1>1, <1>w, MutexKept DEF NewRow, SetValue, Write, Add, shared
<1>2. ASSUME NEW p \in Writers, Lock(p) PROVE MutexOK'
  BY <1>2, <1>w, RolesAssumption DEF Lock, Goto, MutexOK, TypeOK, LabelsOK
<1>3. ASSUME NEW p \in Writers,
             \/ TakeSlot(p) \/ AppendSlot(p) \/ Validate(p)
             \/ HdrSeek(p) \/ HdrWrite(p) \/ HdrMisplaced(p) \/ RowSeek(p)
      PROVE  MutexOK'
  BY <1>3, <1>w, MutexKept
     DEF TakeSlot, AppendSlot, Validate, HdrSeek, HdrWrite, HdrMisplaced, RowSeek, shared
<1>4. ASSUME NEW p \in Writers,
             \/ TableFull(p) \/ FileTooLarge(p) \/ RowWrite(p) \/ WriteRefused(p)
             \/ HdrFail(p) \/ RowFail(p)
      PROVE  MutexOK'
  BY <1>4, <1>w, MutexLeft
     DEF TableFull, FileTooLarge, RowWrite, WriteRefused, HdrFail, RowFail
<1>5. ASSUME NEW p \in Writers, Return(p) PROVE MutexOK'
  <2>1. CASE p \in Updaters \/ Reuse
    BY <1>5, <2>1, <1>w, MutexKept DEF Return, shared
  <2>2. CASE ~(p \in Updaters \/ Reuse)
    BY <1>5, <2>2, <1>w, MutexKept DEF Return, shared
  <2> QED
    BY <2>1, <2>2
<1>6. ASSUME NEW p \in Readers, GoTo(p) PROVE MutexOK'
  BY <1>6 DEF GoTo, MutexOK
<1>7. ASSUME NEW p \in Readers, NextBegin(p) \/ ReadSteps(p) PROVE MutexOK'
  BY <1>7, <1>r, MutexKept
     DEF NextBegin, ReadSteps, CheckBounds, OutOfRange, ReadSeek, ReadRecord, MakeRow,
         SkipBegin, SkipEnd, shared
<1>8. CASE Crash
  BY <1>8, RolesAssumption DEF Crash, AtRest, MutexOK
<1>9. CASE UNCHANGED vars
  BY <1>9 DEF vars, shared, local, MutexOK
<1> QED
  BY <1>1, <1>2, <1>3, <1>4, <1>5, <1>6, <1>7, <1>8, <1>9 DEF Next, WriteSteps

(* WriteRow is a critical section, whatever else runs and fails: who is in *)
(* it owns dbaseMutex, and every way out of it gives the mutex back.       *)
THEOREM MutualExclusion == Spec => []MutexOK
<1>1. Init => MutexOK
  BY RolesAssumption DEF Init, AtRest, MutexOK, Critical
<1> QED
  BY <1>1, TypeCorrect, NextMutex, PTL DEF Spec

(***************************************************************************)
(* Goroutines that are alone.                                              *)
(***************************************************************************)
LEMMA Roles ==
  /\ Procs = Writers \cup Readers /\ Writers = Appenders \cup Updaters
  /\ \A p \in Writers : p \notin Readers /\ (p \in Appenders <=> p \notin Updaters)
BY RolesAssumption DEF Procs, Writers

(* The next step of p, which is inside a call or may begin one.            *)
LEMMA AloneKept ==
  ASSUME Disciplined, TypeOK, AloneInv, NEW p \in Procs, NEW label, Goto(p, label),
         Busy(p) \/ MayBegin(p)
  PROVE  AloneInv'
<1>1. \A q \in Procs \ {p} : Busy(q)' = Busy(q)
  BY DEF Goto, Busy, TypeOK, LabelsOK
<1>2. ASSUME NEW q \in Procs \ {p}, Busy(q)
      PROVE  {p, q} \cap Updaters # {} /\ {p, q} \cap Readers = {}
  <2>1. CASE OuterLock
    BY <1>2, <2>1 DEF AloneInv, MayBegin, Busy
  <2>2. CASE ~OuterLock
    BY <1>2, <2>2, Roles DEF Disciplined
  <2> QED
    BY <2>1, <2>2
<1>3. ASSUME NEW q \in Procs, NEW r \in Procs, q # r, Busy(q)', Busy(r)'
      PROVE  {q, r} \cap Updaters # {} /\ {q, r} \cap Readers = {}
  <2>1. CASE q = p
    BY <1>1, <1>2, <1>3, <2>1
  <2>2. CASE r = p
    BY <1>1, <1>2, <1>3, <2>2
  <2>3. CASE q # p /\ r # p
    BY <1>1, <1>3, <2>3 DEF AloneInv
  <2> QED
    BY <2>1, <2>2, <2>3
<1> QED
  BY <1>3 DEF AloneInv

LEMMA NextAlone == ASSUME Disciplined, TypeOK, AloneInv, [Next]_vars PROVE AloneInv'
<1> USE Roles DEF Busy
<1>1. ASSUME NEW p \in Writers, NewRow(p) \/ SetValue(p) PROVE AloneInv'
  BY <1>1, AloneKept DEF NewRow, SetValue
<1>2. ASSUME NEW p \in Writers,
             \/ Write(p) \/ Add(p) \/ Lock(p) \/ TakeSlot(p) \/ AppendSlot(p) \/ Validate(p)
             \/ HdrSeek(p) \/ HdrWrite(p) \/ HdrMisplaced(p) \/ RowSeek(p) \/ Return(p)
      PROVE  AloneInv'
  BY <1>2, AloneKept
     DEF Write, Add, Lock, TakeSlot, AppendSlot, Validate, HdrSeek, HdrWrite, HdrMisplaced,
         RowSeek, Return
<1>3. ASSUME NEW p \in Writers,
             \/ TableFull(p) \/ FileTooLarge(p) \/ RowWrite(p) \/ WriteRefused(p)
             \/ HdrFail(p) \/ RowFail(p)
      PROVE  AloneInv'
  BY <1>3, AloneKept
     DEF TableFull, FileTooLarge, RowWrite, WriteRefused, HdrFail, RowFail, Leave
<1>4. ASSUME NEW p \in Readers, NextBegin(p) PROVE AloneInv'
  BY <1>4, AloneKept DEF NextBegin
<1>5. ASSUME NEW p \in Readers, ReadSteps(p) PROVE AloneInv'
  BY <1>5, AloneKept
     DEF ReadSteps, CheckBounds, OutOfRange, ReadSeek, ReadRecord, MakeRow, SkipBegin, SkipEnd
<1>6. ASSUME NEW p \in Readers, GoTo(p) PROVE AloneInv'
  BY <1>6 DEF GoTo, AloneInv
<1>7. CASE Crash
  BY <1>7 DEF Crash, AtRest, AloneInv
<1>8. CASE UNCHANGED vars
  BY <1>8 DEF vars, local, AloneInv
<1> QED
  BY <1>1, <1>2, <1>3, <1>4, <1>5, <1>6, <1>7, <1>8 DEF Next, WriteSteps

(* An appender inside a call is the only one, and nobody else calls while  *)
(* a reader does.                                                          *)
LEMMA Alone ==
  ASSUME AloneInv
  PROVE  /\ \A p, q \in Appenders : Busy(p) /\ Busy(q) => p = q
         /\ \A p \in Readers, q \in Procs : Busy(p) /\ Busy(q) => p = q
BY Roles DEF AloneInv

(* What a reader does, it does alone.                                      *)
LEMMA ReadersStep ==
  ASSUME Disciplined, TypeOK, AloneInv, NEW p \in Readers,
         NextBegin(p) \/ GoTo(p) \/ ReadSteps(p)
  PROVE  \A q \in Procs \ {p} : ~Busy(q) /\ pc'[q] = pc[q]
<1>1. \A q \in Procs \ {p} : pc'[q] = pc[q]
  BY Roles DEF NextBegin, GoTo, ReadSteps, CheckBounds, OutOfRange, ReadSeek, ReadRecord, MakeRow,
         SkipBegin, SkipEnd, Goto, TypeOK, LabelsOK
<1>2. CASE NextBegin(p) \/ GoTo(p)
  BY <1>1, <1>2, Roles DEF NextBegin, GoTo, MayBegin, Disciplined, Busy
<1>3. CASE ReadSteps(p)
  <2>1. Busy(p)
    BY <1>3 DEF ReadSteps, CheckBounds, OutOfRange, ReadSeek, ReadRecord, MakeRow, SkipBegin,
                SkipEnd, Busy
  <2> QED
    BY <1>1, <2>1, Alone
<1> QED
  BY <1>2, <1>3

(***************************************************************************)
(* A lock around appends and reads, or one appender and no readers, and    *)
(* any faults: what was added stays.                                       *)
(***************************************************************************)
LEMMA InitIInv == ASSUME Init PROVE IInv
<1> USE SizesAssumption, RolesAssumption DEF Init, AtRest
<1>1. TypeOK
  BY InitType
<1>2. MutexOK /\ AloneInv
  BY DEF MutexOK, Critical, AloneInv, Busy
<1>3. HandleInv /\ AppenderInv
  BY DEF HandleInv, AppenderInv, Reserving, Writers, Procs
<1>4. CountInv
  BY DEF CountInv, FirstRows
<1>5. UpdaterInv
  BY DEF UpdaterInv, Reserving, Procs
<1>6. AckedInv
  BY DEF AckedInv
<1>7. Len(slots) = InitRows /\ \A i \in 1..InitRows : slots[i] \in Payload /\ slots[i].by = NoOne /\ slots[i].n = i
  BY DEF FirstRows, Payload
<1>8. RowsInv
  BY <1>7 DEF RowsInv, RowsInTheirSlots, Critical, Writers, Procs
<1>9. ReadInv
  BY DEF ReadInv, Procs
<1>10. Missing = {}
  BY <1>7 DEF Missing
<1>11. DamageInv
  BY <1>10, FS_EmptySet DEF DamageInv, Adding, Reserving
<1> QED
  BY <1>1, <1>2, <1>3, <1>4, <1>5, <1>6, <1>8, <1>9, <1>11 DEF IInv

(* Counts, slots and rows that were added, step by step.                   *)
LEMMA NextCounts ==
  ASSUME Disciplined, IInv, [Next]_vars
  PROVE  HandleInv' /\ CountInv' /\ UpdaterInv' /\ AppenderInv' /\ AckedInv'
<1> DEFINE Kept == HandleInv' /\ CountInv' /\ UpdaterInv' /\ AppenderInv' /\ AckedInv'
<1> USE SizesAssumption, RolesAssumption DEF IInv
<1>u. Reuse = FALSE
  BY DEF Disciplined
<1>s. /\ Appenders \subseteq Writers /\ Updaters \subseteq Writers
      /\ Writers \subseteq Procs
      /\ \A p \in Writers : p \in Appenders <=> p \notin Updaters
  BY DEF Procs, Writers
(* Only one goroutine is inside WriteRow. *)
<1>o. \A p, q \in Procs : pc[p] \in Critical /\ pc[q] \in Critical => p = q
  BY DEF MutexOK
<1>a. \A p, q \in Appenders : Busy(p) /\ Busy(q) => p = q
  BY Alone
<1>f. /\ count \in Nat /\ diskCount \in Nat /\ slots \in Seq(Content) /\ Len(slots) \in Nat
      /\ pc \in [Procs -> WriterPCs \cup ReaderPCs]
      /\ pos \in [Procs -> Nat] /\ tgt \in [Procs -> Int] /\ cursor \in Int
  BY DEF TypeOK, LabelsOK
<1> USE DEF Goto, shared, Critical, Reserving, NewPosition, NextOp, Free, OldSlot, NewSlot,
            Counted, Uncounted, Image, RowOffset
<1>1. ASSUME NEW p \in Writers, NewRow(p) PROVE Kept
  <2>1. HandleInv'
    BY <1>1, <1>s, <1>o, <1>f DEF HandleInv, NewRow
  <2>2. CountInv' /\ AckedInv'
    BY <1>1 DEF CountInv, AckedInv, NewRow
  <2>3. UpdaterInv'
    BY <1>1, <1>s, <1>o, <1>f DEF UpdaterInv, CountInv, NewRow
  <2>4. AppenderInv'
    BY <1>1, <1>s, <1>o, <1>f DEF AppenderInv, NewRow
  <2> QED
    BY <2>1, <2>2, <2>3, <2>4
<1>2. ASSUME NEW p \in Writers, SetValue(p) PROVE Kept
  <2>1. HandleInv'
    BY <1>2, <1>s, <1>o, <1>f DEF HandleInv, SetValue
  <2>2. CountInv' /\ AckedInv'
    BY <1>2 DEF CountInv, AckedInv, SetValue
  <2>3. UpdaterInv'
    BY <1>2, <1>s, <1>o, <1>f DEF UpdaterInv, CountInv, SetValue
  <2>4. AppenderInv'
    BY <1>2, <1>s, <1>o, <1>f DEF AppenderInv, SetValue
  <2> QED
    BY <2>1, <2>2, <2>3, <2>4
<1>3. ASSUME NEW p \in Writers, Write(p) \/ Add(p) PROVE Kept
  <2>1. HandleInv'
    BY <1>3, <1>s, <1>o, <1>f DEF HandleInv, Write, Add
  <2>2. CountInv' /\ AckedInv'
    BY <1>3 DEF CountInv, AckedInv, Write, Add
  <2>3. UpdaterInv'
    BY <1>3, <1>s, <1>o, <1>f DEF UpdaterInv, CountInv, Write, Add
  <2>4. AppenderInv'
    BY <1>3, <1>s, <1>o, <1>f DEF AppenderInv, Write, Add
  <2> QED
    BY <2>1, <2>2, <2>3, <2>4
<1>4. ASSUME NEW p \in Writers, Lock(p) PROVE Kept
  <2>1. HandleInv'
    BY <1>4, <1>s, <1>o, <1>f DEF HandleInv, Lock
  <2>2. CountInv' /\ AckedInv'
    BY <1>4 DEF CountInv, AckedInv, Lock
  <2>3. UpdaterInv'
    BY <1>4, <1>s, <1>o, <1>f DEF UpdaterInv, CountInv, Lock
  <2>4. AppenderInv'
    BY <1>4, <1>s, <1>o, <1>f DEF AppenderInv, Lock
  <2> QED
    BY <2>1, <2>2, <2>3, <2>4
<1>5. ASSUME NEW p \in Writers, TakeSlot(p) PROVE Kept
  <2>1. HandleInv'
    BY <1>5, <1>s, <1>o, <1>f DEF HandleInv, TakeSlot, IsNew
  <2>2. CountInv' /\ AckedInv'
    BY <1>5 DEF CountInv, AckedInv, TakeSlot, IsNew
  <2>3. UpdaterInv'
    BY <1>5, <1>s, <1>o, <1>f DEF UpdaterInv, CountInv, TakeSlot, IsNew
  <2>4. AppenderInv'
    BY <1>5, <1>s, <1>o, <1>f DEF AppenderInv, TakeSlot, IsNew
  <2> QED
    BY <2>1, <2>2, <2>3, <2>4
<1>6. ASSUME NEW p \in Writers, AppendSlot(p) PROVE Kept
  <2>1. p \in Appenders /\ pos[p] = count + 1
    BY <1>6, <1>s, <1>f DEF AppendSlot, IsNew, UpdaterInv, AppenderInv, CountInv
  <2>2. \A q \in Writers : q # p => /\ pc[q] \notin Reserving
                                  /\ (q \in Appenders => pc[q] = "idle")
    BY <1>6, <2>1, <1>s, <1>o, <1>a DEF AppendSlot, AppenderInv, Busy
  <2>3. HandleInv'
    BY <1>6, <2>2, <1>s, <1>f DEF AppendSlot, HandleInv
  <2>4. CountInv' /\ AckedInv'
    BY <1>6, <1>f DEF AppendSlot, CountInv, AckedInv
  <2>5. UpdaterInv'
    BY <1>6, <2>1, <2>2, <1>s, <1>f DEF AppendSlot, UpdaterInv
  <2>6. AppenderInv'
    BY <1>6, <2>1, <2>2, <1>s, <1>f DEF AppendSlot, AppenderInv, CountInv
  <2> QED
    BY <2>3, <2>4, <2>5, <2>6
<1>7. ASSUME NEW p \in Writers, TableFull(p) PROVE Kept
  <2>1. HandleInv'
    BY <1>7, <1>s, <1>o, <1>f DEF HandleInv, TableFull, Leave
  <2>2. CountInv' /\ AckedInv'
    BY <1>7 DEF CountInv, AckedInv, TableFull, Leave
  <2>3. UpdaterInv'
    BY <1>7, <1>s, <1>o, <1>f DEF UpdaterInv, CountInv, TableFull, Leave
  <2>4. AppenderInv'
    BY <1>7, <1>s, <1>o, <1>f DEF AppenderInv, TableFull, Leave
  <2> QED
    BY <2>1, <2>2, <2>3, <2>4
<1>8. ASSUME NEW p \in Writers, Validate(p) PROVE Kept
  <2>1. HandleInv'
    BY <1>8, <1>s, <1>o, <1>f DEF HandleInv, Validate
  <2>2. CountInv' /\ AckedInv'
    BY <1>8 DEF CountInv, AckedInv, Validate
  <2>3. UpdaterInv'
    BY <1>8, <1>s, <1>o, <1>f DEF UpdaterInv, CountInv, Validate
  <2>4. AppenderInv'
    BY <1>8, <1>s, <1>o, <1>f DEF AppenderInv, Validate
  <2> QED
    BY <2>1, <2>2, <2>3, <2>4
<1>9. ASSUME NEW p \in Writers, FileTooLarge(p) PROVE Kept
  <2>1. p \in Appenders /\ diskCount < count /\ Len(slots) < count
    BY <1>9, <1>s DEF FileTooLarge, UpdaterInv, AppenderInv
  <2>2. \A q \in Writers : q # p => /\ pc[q] \notin Reserving
                                  /\ (q \in Appenders => pc[q] = "idle")
    BY <1>9, <2>1, <1>s, <1>o, <1>a DEF FileTooLarge, AppenderInv, Busy
  <2>3. HandleInv'
    BY <1>9, <2>2, <1>s, <1>f DEF FileTooLarge, Leave, HandleInv
  <2>4. CountInv' /\ AckedInv'
    BY <1>9, <2>1, <1>f DEF FileTooLarge, CountInv, AckedInv
  <2>5. UpdaterInv'
    BY <1>9, <2>1, <2>2, <1>s, <1>f DEF FileTooLarge, Leave, UpdaterInv
  <2>6. AppenderInv'
    BY <1>9, <2>1, <2>2, <1>s, <1>f DEF FileTooLarge, Leave, AppenderInv
  <2> QED
    BY <2>3, <2>4, <2>5, <2>6
<1>10. ASSUME NEW p \in Writers, HdrSeek(p) PROVE Kept
  <2>1. HandleInv'
    BY <1>10, <1>s, <1>o, <1>f DEF HandleInv, HdrSeek
  <2>2. CountInv' /\ AckedInv'
    BY <1>10 DEF CountInv, AckedInv, HdrSeek
  <2>3. UpdaterInv'
    BY <1>10, <1>s, <1>o, <1>f DEF UpdaterInv, CountInv, HdrSeek
  <2>4. AppenderInv'
    BY <1>10, <1>s, <1>o, <1>f DEF AppenderInv, HdrSeek
  <2> QED
    BY <2>1, <2>2, <2>3, <2>4
<1>11. ASSUME NEW p \in Writers, HdrWrite(p) PROVE Kept
  <2>1. HandleInv'
    BY <1>11, <1>s, <1>o, <1>f DEF HdrWrite, HandleInv
  <2>2. CountInv' /\ AckedInv'
    BY <1>11, <1>f DEF HdrWrite, CountInv, AckedInv
  <2>3. UpdaterInv'
    BY <1>11, <1>s, <1>f DEF HdrWrite, UpdaterInv
  <2>4. AppenderInv'
    BY <1>11, <1>s, <1>f, <1>o DEF HdrWrite, AppenderInv
  <2> QED
    BY <2>1, <2>2, <2>3, <2>4
<1>12. ASSUME NEW p \in Writers, HdrMisplaced(p) PROVE Kept
  BY <1>12 DEF HdrMisplaced, HandleInv
<1>13. ASSUME NEW p \in Writers, RowSeek(p) PROVE Kept
  <2>1. HandleInv'
    BY <1>13, <1>s, <1>o, <1>f DEF HandleInv, RowSeek
  <2>2. CountInv' /\ AckedInv'
    BY <1>13 DEF CountInv, AckedInv, RowSeek
  <2>3. UpdaterInv'
    BY <1>13, <1>s, <1>o, <1>f DEF UpdaterInv, CountInv, RowSeek
  <2>4. AppenderInv'
    BY <1>13, <1>s, <1>o, <1>f DEF AppenderInv, RowSeek
  <2> QED
    BY <2>1, <2>2, <2>3, <2>4
<1>14. ASSUME NEW p \in Writers, RowWrite(p) PROVE Kept
  <2>1. cursor = tgt[p] /\ diskCount = count /\ pc[p] \in Reserving
    BY <1>14 DEF RowWrite, HandleInv
  <2>2. /\ p \in Updaters => cursor \in 0..(InitRows - 1)
        /\ p \in Appenders => cursor = count - 1 /\ Len(slots) <= cursor
    BY <2>1, <1>s, <1>f DEF UpdaterInv, AppenderInv
  <2>3. cursor \in Nat
    BY <2>2, <1>s, <1>f
  <2>4. val[p] \in Content
    BY DEF TypeOK, Content
  <2>5. /\ slots' = PutAt(slots, cursor, val[p])
        /\ Len(slots') = IF cursor < Len(slots) THEN Len(slots) ELSE cursor + 1
        /\ slots'[cursor + 1] = val[p]
        /\ \A k \in 1..Len(slots) : k # cursor + 1 => slots'[k] = slots[k]
    <3>1. slots' = PutAt(slots, cursor, val[p])
      BY <1>14 DEF RowWrite
    <3>2. Len(PutAt(slots, cursor, val[p])) = IF cursor < Len(slots) THEN Len(slots) ELSE cursor + 1
      BY <1>f, <2>4, PutAtType
    <3>3. /\ PutAt(slots, cursor, val[p])[cursor + 1] = val[p]
          /\ \A k \in 1..Len(slots) : k # cursor + 1 => PutAt(slots, cursor, val[p])[k] = slots[k]
      BY <1>f, <2>3, <2>4, PutAtElements, SMTT(30)
    <3> QED
      BY <3>1, <3>2, <3>3
  <2>6. HandleInv'
    BY <1>14, <1>s, <1>o, <1>f DEF RowWrite, Leave, HandleInv
  <2>7. CountInv'
    BY <1>14, <2>1, <2>2, <2>5, <1>s, <1>f DEF RowWrite, CountInv
  <2>8. UpdaterInv'
    BY <1>14, <1>s, <1>f DEF RowWrite, Leave, UpdaterInv
  <2>9. AppenderInv'
    BY <1>14, <1>s, <1>o, <1>f DEF RowWrite, Leave, AppenderInv
  <2>10. AckedInv'
    <3>1. ASSUME NEW v \in acked PROVE \E i \in (InitRows + 1)..Len(slots') : slots'[i] = v
      <4>1. PICK i \in (InitRows + 1)..Len(slots) : slots[i] = v
        BY DEF AckedInv
      <4>2. i \in 1..Len(slots) /\ i # cursor + 1
        BY <4>1, <2>2, <1>s, <1>f
      <4> QED
        BY <4>1, <4>2, <2>5, <1>f
    <3>2. CASE p \in Appenders
      <4>1. cursor + 1 \in (InitRows + 1)..Len(slots')
        BY <3>2, <2>2, <2>5, <1>f DEF CountInv
      <4> QED
        BY <1>14, <3>1, <4>1, <2>5 DEF RowWrite, AckedInv
    <3>3. CASE p \notin Appenders
      BY <1>14, <3>1, <3>3 DEF RowWrite, AckedInv
    <3> QED
      BY <3>2, <3>3
  <2> QED
    BY <2>6, <2>7, <2>8, <2>9, <2>10
<1>15. ASSUME NEW p \in Writers, WriteRefused(p) PROVE Kept
  <2>1. HandleInv'
    BY <1>15, <1>s, <1>o, <1>f DEF HandleInv, WriteRefused, Leave
  <2>2. CountInv' /\ AckedInv'
    BY <1>15 DEF CountInv, AckedInv, WriteRefused, Leave
  <2>3. UpdaterInv'
    BY <1>15, <1>s, <1>o, <1>f DEF UpdaterInv, CountInv, WriteRefused, Leave
  <2>4. AppenderInv'
    BY <1>15, <1>s, <1>o, <1>f DEF AppenderInv, WriteRefused, Leave
  <2> QED
    BY <2>1, <2>2, <2>3, <2>4
<1>16. ASSUME NEW p \in Writers, Return(p) PROVE Kept
  <2>1. HandleInv'
    BY <1>16, <1>s, <1>o, <1>f DEF HandleInv, Return
  <2>2. CountInv' /\ AckedInv'
    BY <1>16 DEF CountInv, AckedInv, Return
  <2>3. UpdaterInv'
    BY <1>16, <1>s, <1>o, <1>f DEF UpdaterInv, CountInv, Return
  <2>4. AppenderInv'
    BY <1>16, <1>u, <1>s, <1>o, <1>f DEF AppenderInv, Return
  <2> QED
    BY <2>1, <2>2, <2>3, <2>4
<1>17. ASSUME NEW p \in Writers, HdrFail(p) PROVE Kept
  <2>1. HandleInv'
    BY <1>17, <1>s, <1>o, <1>f DEF HandleInv, HdrFail, Leave
  <2>2. CountInv' /\ AckedInv'
    BY <1>17 DEF CountInv, AckedInv, HdrFail, Leave
  <2>3. UpdaterInv'
    BY <1>17, <1>s, <1>o, <1>f DEF UpdaterInv, CountInv, HdrFail, Leave
  <2>4. AppenderInv'
    BY <1>17, <1>s, <1>o, <1>f DEF AppenderInv, HdrFail, Leave
  <2> QED
    BY <2>1, <2>2, <2>3, <2>4
<1>18. ASSUME NEW p \in Writers, RowFail(p) PROVE Kept
  <2>1. cursor = tgt[p] /\ diskCount = count /\ pc[p] \in Reserving
    BY <1>18 DEF RowFail, HandleInv
  <2>2. /\ p \in Updaters => cursor \in 0..(InitRows - 1)
        /\ p \in Appenders => cursor = count - 1 /\ Len(slots) <= cursor
    BY <2>1, <1>s, <1>f DEF UpdaterInv, AppenderInv
  <2>3. cursor \in Nat
    BY <2>2, <1>s, <1>f
  <2>4. Torn \in Content
    BY DEF Content
  <2>5. /\ Len(PutAt(slots, cursor, Torn)) = IF cursor < Len(slots) THEN Len(slots) ELSE cursor + 1
        /\ \A k \in 1..Len(slots) : k # cursor + 1 => PutAt(slots, cursor, Torn)[k] = slots[k]
    <3>1. Len(PutAt(slots, cursor, Torn)) = IF cursor < Len(slots) THEN Len(slots) ELSE cursor + 1
      BY <1>f, <2>4, PutAtType
    <3>2. \A k \in 1..Len(slots) : k # cursor + 1 => PutAt(slots, cursor, Torn)[k] = slots[k]
      BY <1>f, <2>3, <2>4, PutAtElements
    <3> QED
      BY <3>1, <3>2
  <2>6. HandleInv'
    BY <1>18, <1>s, <1>o, <1>f DEF RowFail, Leave, HandleInv
  <2>7. CountInv'
    BY <1>18, <2>1, <2>2, <2>5, <1>s, <1>f DEF RowFail, CountInv
  <2>8. UpdaterInv'
    BY <1>18, <1>s, <1>f DEF RowFail, Leave, UpdaterInv
  <2>9. AppenderInv'
    BY <1>18, <1>s, <1>o, <1>f DEF RowFail, Leave, AppenderInv
  <2>10. AckedInv'
    <3>1. ASSUME NEW v \in acked PROVE \E i \in (InitRows + 1)..Len(slots') : slots'[i] = v
      <4>1. PICK i \in (InitRows + 1)..Len(slots) : slots[i] = v
        BY DEF AckedInv
      <4>2. i \in 1..Len(slots) /\ i # cursor + 1
        BY <4>1, <2>2, <1>s, <1>f
      <4> QED
        BY <1>18, <4>1, <4>2, <2>5, <1>f DEF RowFail
    <3> QED
      BY <1>18, <3>1 DEF RowFail, AckedInv
  <2> QED
    BY <2>6, <2>7, <2>8, <2>9, <2>10
<1>19. ASSUME Crash PROVE Kept
  <2>1. \A p \in Procs : pc'[p] \in {"idle", "held"} /\ (p \in Appenders => pc'[p] = "idle")
    BY <1>19 DEF Crash, AtRest
  <2>2. HandleInv' /\ AppenderInv'
    BY <2>1, <1>s DEF HandleInv, AppenderInv
  <2>3. CountInv' /\ AckedInv'
    BY <1>19, <1>f DEF Crash, CountInv, AckedInv
  <2>4. UpdaterInv'
    BY <1>19, <2>1, <1>s DEF Crash, UpdaterInv
  <2> QED
    BY <2>2, <2>3, <2>4
<1>20. ASSUME UNCHANGED vars PROVE Kept
  BY <1>20 DEF vars, local, HandleInv, CountInv, UpdaterInv, AppenderInv, AckedInv
<1>21. ASSUME NEW p \in Readers, NextBegin(p) \/ GoTo(p) \/ ReadSteps(p) PROVE Kept
  <2>1. \A q \in Writers : pc[q] \in {"idle", "held"} /\ pc'[q] = pc[q]
    BY <1>21, <1>s, ReadersStep DEF Busy
  <2>2. /\ UNCHANGED <<count, diskCount, slots, acked>>
        /\ \A q \in Updaters : pos'[q] = pos[q]
    BY <1>21, <1>s, <1>f
       DEF NextBegin, GoTo, ReadSteps, CheckBounds, OutOfRange, ReadSeek, ReadRecord, MakeRow,
           SkipBegin, SkipEnd
  <2>3. HandleInv' /\ AppenderInv'
    BY <2>1, <1>s DEF HandleInv, AppenderInv
  <2>4. CountInv' /\ AckedInv'
    BY <2>2 DEF CountInv, AckedInv
  <2>5. UpdaterInv'
    BY <2>1, <2>2, <1>s DEF UpdaterInv
  <2> QED
    BY <2>3, <2>4, <2>5
<1> QED
  BY <1>1, <1>2, <1>3, <1>4, <1>5, <1>6, <1>7, <1>8, <1>9, <1>10, <1>11, <1>12, <1>13, <1>14, <1>15, <1>16, <1>17, <1>18, <1>19, <1>20, <1>21
     DEF Next, WriteSteps

(* The record p writes goes where p wants it, and no step of WriteRow      *)
(* misses the end of a table in memory.                                    *)
LEMMA RowSpot ==
  ASSUME IInv, NEW p \in Writers, pc[p] = "rowWrite"
  PROVE  /\ cursor = tgt[p] /\ cursor \in Nat /\ diskCount = count
         /\ p \in Updaters => cursor = pos[p] /\ cursor < InitRows /\ InitRows <= Len(slots)
         /\ p \in Appenders => cursor = count - 1 /\ Len(slots) < count
<1>1. cursor = tgt[p] /\ diskCount = count
  BY DEF IInv, HandleInv
<1>2. p \in Updaters => tgt[p] = pos[p] /\ pos[p] < InitRows /\ pos[p] \in Nat /\ InitRows <= Len(slots)
  BY Roles DEF IInv, UpdaterInv, Reserving, TypeOK, CountInv
<1>3. p \in Appenders => tgt[p] = count - 1 /\ Len(slots) < count /\ count \in Nat /\ Len(slots) \in Nat
  BY DEF IInv, AppenderInv, Reserving, TypeOK
<1> QED
  BY <1>1, <1>2, <1>3, Roles

LEMMA MissingFinite ==
  ASSUME TypeOK
  PROVE  IsFiniteSet(Missing) /\ Cardinality(Missing) \in Nat
<1>1. IsFiniteSet(1..count)
  BY FS_Interval DEF TypeOK
<1>2. Missing \in SUBSET (1..count)
  BY DEF Missing
<1>3. IsFiniteSet(Missing)
  BY <1>1, <1>2, FS_Subset
<1> QED
  BY <1>3, FS_CardinalityType

LEMMA NeverRefused ==
  ASSUME IInv, NEW p \in Writers, pc[p] \in {"hdrWrite", "rowWrite"}
  PROVE  ~Refused
<1> SUFFICES ASSUME Refused PROVE FALSE
  OBVIOUS
<1>f. /\ count \in Nat /\ slots \in Seq(Content) /\ Len(slots) \in Nat
      /\ IsFiniteSet(Missing) /\ Cardinality(Missing) \in Nat
  BY MissingFinite DEF IInv, TypeOK
<1>1. CASE pc[p] = "hdrWrite"
  BY <1>1, <1>f DEF Refused, IInv, HandleInv, AtHeader
<1>2. CASE pc[p] = "rowWrite" /\ p \in Updaters
  BY <1>2, <1>f, RowSpot, SizesAssumption DEF Refused
<1>3. CASE pc[p] = "rowWrite" /\ p \in Appenders
  <2>1. count - 1 > Len(slots)
    BY <1>3, RowSpot DEF Refused
  <2>2. (count - 1)..count \in SUBSET Missing
    <3>1. \A i \in (count - 1)..count : i \in 1..count /\ i > Len(slots)
      BY <1>f, <2>1
    <3> QED
      BY <3>1 DEF Missing
  <2>3. Cardinality((count - 1)..count) = 2
    BY <1>f, FS_Interval
  <2>4. 2 <= Cardinality(Missing)
    BY <1>f, <2>2, <2>3, FS_Subset
  <2>5. Cardinality(Missing) <= 1
    BY <1>f DEF Refused, IInv, DamageInv
  <2> QED
    BY <1>f, <2>4, <2>5
<1> QED
  BY <1>1, <1>2, <1>3, Roles

(* Of the four marks no two are the same. *)
LEMMA AtMostThree == ASSUME NEW a, NEW b, NEW c PROVE Cardinality({a, b, c}) # 4
<1>1. IsFiniteSet({a}) /\ Cardinality({a}) = 1
  BY FS_Singleton
<1>2. IsFiniteSet({a} \cup {b}) /\ Cardinality({a} \cup {b}) \in {1, 2}
  BY <1>1, FS_AddElement
<1>3. Cardinality(({a} \cup {b}) \cup {c}) \in {1, 2, 3}
  BY <1>2, FS_AddElement
<1>4. ({a} \cup {b}) \cup {c} = {a, b, c}
  OBVIOUS
<1> QED
  BY <1>3, <1>4

LEMMA Marks ==
  /\ Zero # Torn /\ Zero # HdrBytes /\ Zero # Err /\ Torn # HdrBytes /\ Torn # Err /\ HdrBytes # Err
  /\ Zero \notin Payload /\ Torn \notin Payload /\ HdrBytes \notin Payload /\ Err \notin Payload
<1> USE RolesAssumption
<1>1. \A a, b, c : {Zero, Torn, HdrBytes, Err} # {a, b, c}
  BY AtMostThree
<1>2. /\ Zero = Torn \/ Zero = HdrBytes \/ Zero = Err =>
             {Zero, Torn, HdrBytes, Err} = {Torn, HdrBytes, Err}
      /\ Torn = HdrBytes \/ Torn = Err => {Zero, Torn, HdrBytes, Err} = {Zero, HdrBytes, Err}
      /\ HdrBytes = Err => {Zero, Torn, HdrBytes, Err} = {Zero, Torn, Err}
  OBVIOUS
<1> QED
  BY <1>1, <1>2

(* What a write leaves in each slot. *)
LEMMA PutAtSlots ==
  ASSUME NEW s \in Seq(Content), NEW i \in Nat, NEW c \in Content
  PROVE  \A k \in 1..Len(PutAt(s, i, c)) :
           PutAt(s, i, c)[k] = IF k = i + 1 THEN c ELSE IF k <= Len(s) THEN s[k] ELSE Zero
BY DEF PutAt

(* The slots after the last step of p in WriteRow, in which c was written. *)
LEMMA SlotsWritten ==
  ASSUME IInv, NEW p \in Writers, pc[p] = "rowWrite", NEW c \in Content,
         slots' = PutAt(slots, cursor, c)
  PROVE  /\ slots' \in Seq(Content)
         /\ Len(slots') = IF p \in Updaters THEN Len(slots) ELSE count
         /\ \A k \in 1..Len(slots') :
              slots'[k] = IF k = cursor + 1 THEN c ELSE IF k <= Len(slots) THEN slots[k] ELSE Zero
<1>f. slots \in Seq(Content) /\ Len(slots) \in Nat /\ cursor \in Nat /\ count \in Nat
  BY RowSpot DEF IInv, TypeOK
<1>1. /\ slots' \in Seq(Content)
      /\ Len(slots') = IF cursor < Len(slots) THEN Len(slots) ELSE cursor + 1
  BY <1>f, PutAtType
<1>2. Len(slots') = IF p \in Updaters THEN Len(slots) ELSE count
  BY <1>f, <1>1, RowSpot, Roles, SizesAssumption
<1>3. \A k \in 1..Len(slots') :
        slots'[k] = IF k = cursor + 1 THEN c ELSE IF k <= Len(slots) THEN slots[k] ELSE Zero
  BY <1>f, PutAtSlots
<1> QED
  BY <1>1, <1>2, <1>3

(* A step of a writer, and what it finds the readers doing: nothing. *)
WriterStep(p) == \/ NewRow(p) \/ SetValue(p) \/ Write(p) \/ Add(p)
                 \/ WriteSteps(p) \/ HdrFail(p) \/ RowFail(p)

LEMMA WritersStep ==
  ASSUME Disciplined, TypeOK, AloneInv, NEW p \in Writers, WriterStep(p)
  PROVE  /\ \A q \in Readers : ~Busy(q)
         /\ \A q \in Procs \ {p} : pc'[q] = pc[q]
<1>1. \A q \in Procs \ {p} : pc'[q] = pc[q]
  BY Roles
     DEF WriterStep, WriteSteps, NewRow, SetValue, Write, Add, Lock, TakeSlot, AppendSlot, TableFull,
         Validate, FileTooLarge, HdrSeek, HdrWrite, HdrMisplaced, RowSeek, RowWrite, WriteRefused,
         Return, HdrFail, RowFail, Leave, Goto, TypeOK, LabelsOK
<1>2. CASE Busy(p)
  BY <1>1, <1>2, Alone, Roles
<1>3. CASE ~Busy(p)
  <2>1. MayBegin(p)
    BY <1>3
       DEF WriterStep, WriteSteps, NewRow, SetValue, Write, Add, Lock, TakeSlot, AppendSlot, TableFull,
           Validate, FileTooLarge, HdrSeek, HdrWrite, HdrMisplaced, RowSeek, RowWrite, WriteRefused,
           Return, HdrFail, RowFail, Busy
  <2> QED
    BY <1>1, <2>1, Roles DEF MayBegin, Disciplined, Busy
<1> QED
  BY <1>2, <1>3

LEMMA NextRows == ASSUME Disciplined, IInv, [Next]_vars PROVE RowsInv'
<1>f. /\ slots \in Seq(Content) /\ Len(slots) \in Nat /\ count \in Nat
      /\ pc \in [Procs -> WriterPCs \cup ReaderPCs] /\ pos \in [Procs -> Nat]
      /\ val \in [Procs -> Content \cup {Err}] /\ ops \in [Procs -> 0..MaxOps]
  BY DEF IInv, TypeOK, LabelsOK
<1> DEFINE Own == \A p \in Writers : pc[p] \in {"ready", "lock"} \cup Critical => val[p].by = p
           Fit(q, i, c) == /\ c # HdrBytes
                           /\ c \in Payload =>
                                \/ c.by = NoOne /\ c.n = i
                                \/ c.by \in Appenders /\ i > InitRows
                                \/ c.by \in Updaters /\ q[c.by] = i - 1
<1>d. /\ RowsInv <=> Own /\ \A i \in 1..Len(slots) : Fit(pos, i, slots[i])
      /\ RowsInv' <=> Own' /\ \A i \in 1..Len(slots') : Fit(pos', i, slots'[i])
  BY DEF RowsInv, RowsInTheirSlots
<1>i. Own /\ \A i \in 1..Len(slots) : Fit(pos, i, slots[i])
  BY <1>d DEF IInv
(* Steps that leave the slots alone. *)
<1>k. ASSUME slots' = slots, \A q \in Updaters : pos'[q] = pos[q] PROVE \A i \in 1..Len(slots') : Fit(pos', i, slots'[i])
  BY <1>i, <1>k
<1>o. ASSUME NEW p \in Writers, \A q \in Procs \ {p} : pc'[q] = pc[q],
             UNCHANGED val, pc[p] \in {"ready", "lock"} \cup Critical
      PROVE  Own'
  BY <1>i, <1>o, Roles
<1>1. ASSUME NEW p \in Writers, NewRow(p) \/ SetValue(p) PROVE RowsInv'
  <2>1. Own'
    BY <1>1, <1>i, <1>f, Roles DEF NewRow, SetValue, Goto
  <2>2. slots' = slots /\ \A q \in Updaters : pos'[q] = pos[q]
    BY <1>1, <1>f, Roles DEF NewRow, SetValue, shared
  <2> QED
    BY <1>d, <1>k, <2>1, <2>2
<1>2. ASSUME NEW p \in Writers,
             \/ Write(p) \/ Add(p) \/ Lock(p) \/ TakeSlot(p) \/ AppendSlot(p) \/ TableFull(p)
             \/ Validate(p) \/ FileTooLarge(p) \/ HdrSeek(p) \/ HdrWrite(p)
             \/ RowSeek(p) \/ WriteRefused(p) \/ Return(p) \/ HdrFail(p)
      PROVE  RowsInv'
  <2> USE <1>2 DEF Write, Add, Lock, TakeSlot, AppendSlot, TableFull, Validate, FileTooLarge, HdrSeek,
                   HdrWrite, RowSeek, WriteRefused, Return, HdrFail, Leave, Goto, Critical
  <2>1. UNCHANGED <<slots, val>> /\ \A q \in Updaters : pos'[q] = pos[q]
    BY <1>f, Roles DEF shared
  <2>2. CASE Return(p)
    BY <1>d, <1>i, <1>f, <1>k, <2>1, <2>2
  <2>3. CASE ~Return(p)
    <3>1. pc[p] \in {"ready", "lock"} \cup Critical
      BY <2>3
    <3>2. \A q \in Procs \ {p} : pc'[q] = pc[q]
      BY <1>f
    <3> QED
      BY <1>d, <1>k, <1>o, <2>1, <3>1, <3>2
  <2> QED
    BY <2>2, <2>3
<1>3. ASSUME NEW p \in Writers, NEW c \in {val[p], Torn}, pc[p] = "rowWrite",
             slots' = PutAt(slots, cursor, c), UNCHANGED <<val, pos>>,
             \A q \in Procs \ {p} : pc'[q] = pc[q]
      PROVE  RowsInv'
  <2>1. c \in Content /\ c # HdrBytes /\ (c \in Payload => c.by = p)
    BY <1>3, <1>i, Marks DEF IInv, TypeOK, Content, Critical
  <2>2. /\ Len(slots') = IF p \in Updaters THEN Len(slots) ELSE count
        /\ \A k \in 1..Len(slots') :
             slots'[k] = IF k = cursor + 1 THEN c ELSE IF k <= Len(slots) THEN slots[k] ELSE Zero
    BY <1>3, <2>1, SlotsWritten
  <2>3. Fit(pos, cursor + 1, c)
    BY <1>3, <1>f, <2>1, RowSpot, Roles, SizesAssumption DEF IInv, CountInv
  <2>4. \A i \in 1..Len(slots') : Fit(pos', i, slots'[i])
    <3>1. ASSUME NEW i \in 1..Len(slots') PROVE Fit(pos, i, slots'[i])
      <4>1. CASE i = cursor + 1
        BY <2>2, <2>3, <4>1
      <4>2. CASE i # cursor + 1 /\ i <= Len(slots)
        BY <1>f, <1>i, <2>2, <4>2
      <4>3. CASE i # cursor + 1 /\ ~(i <= Len(slots))
        BY <2>2, <4>3, Marks
      <4> QED
        BY <4>1, <4>2, <4>3
    <3> QED
      BY <1>3, <3>1
  <2>5. Own'
    BY <1>3, <1>o DEF Critical
  <2> QED
    BY <1>d, <2>4, <2>5
<1>4. ASSUME NEW p \in Writers, RowWrite(p) PROVE RowsInv'
  BY <1>3, <1>4, <1>f DEF RowWrite, Leave, Goto
<1>5. ASSUME NEW p \in Writers, RowFail(p) PROVE RowsInv'
  <2>1. \A q \in Procs \ {p} : pc'[q] = pc[q]
    BY <1>5, <1>f DEF RowFail, Leave, Goto
  <2>2. CASE slots' = slots
    BY <1>5, <1>d, <1>k, <1>o, <2>1, <2>2 DEF RowFail, Critical
  <2>3. CASE slots' = PutAt(slots, cursor, Torn)
    BY <1>3, <1>5, <2>1, <2>3 DEF RowFail
  <2> QED
    BY <1>5, <2>2, <2>3 DEF RowFail
<1>6. ASSUME NEW p \in Writers, HdrMisplaced(p) PROVE FALSE
  BY <1>6 DEF HdrMisplaced, IInv, HandleInv
<1>7. ASSUME NEW p \in Readers, NextBegin(p) \/ GoTo(p) \/ ReadSteps(p) PROVE RowsInv'
  <2>1. \A q \in Writers : pc[q] \in {"idle", "held"} /\ pc'[q] = pc[q]
    BY <1>7, Roles, ReadersStep DEF IInv, Busy
  <2>2. slots' = slots /\ \A q \in Updaters : pos'[q] = pos[q]
    BY <1>7, <1>f, Roles
       DEF NextBegin, GoTo, ReadSteps, CheckBounds, OutOfRange, ReadSeek, ReadRecord, MakeRow,
           SkipBegin, SkipEnd, shared
  <2>3. Own'
    BY <2>1 DEF Critical
  <2> QED
    BY <1>d, <1>k, <2>2, <2>3
<1>8. CASE Crash
  <2>1. Own'
    BY <1>8, Roles DEF Crash, AtRest, Critical
  <2> QED
    BY <1>8, <1>d, <1>k, <2>1 DEF Crash
<1>9. CASE UNCHANGED vars
  <2>1. Own'
    BY <1>9, <1>i DEF vars, local
  <2> QED
    BY <1>9, <1>d, <1>k, <2>1 DEF vars, shared, local
<1> QED
  BY <1>1, <1>2, <1>4, <1>5, <1>6, <1>7, <1>8, <1>9 DEF Next, WriteSteps

LEMMA NextRead == ASSUME Disciplined, IInv, [Next]_vars PROVE ReadInv'
<1>f. /\ slots \in Seq(Content) /\ Len(slots) \in Nat /\ ptr \in Nat
      /\ pc \in [Procs -> WriterPCs \cup ReaderPCs] /\ pos \in [Procs -> Nat]
      /\ val \in [Procs -> Content \cup {Err}] /\ tgt \in [Procs -> Int]
  BY DEF IInv, TypeOK, LabelsOK
<1>q. ASSUME \A q \in Readers : pc'[q] = "idle" PROVE ReadInv'
  BY <1>q DEF ReadInv
<1>r. \A q \in Readers : ~Busy(q) => pc[q] = "idle"
  BY DEF IInv, TypeOK, LabelsOK, Busy, ReaderPCs
<1>1. ASSUME NEW p \in Writers, WriterStep(p) PROVE ReadInv'
  BY <1>1, <1>q, <1>r, WritersStep, Roles DEF IInv
<1>2. ASSUME NEW p \in Readers, NextBegin(p) \/ GoTo(p) \/ ReadSteps(p) PROVE ReadInv'
  <2>1. \A q \in Readers \ {p} : pc'[q] = "idle"
    BY <1>2, <1>r, Roles, ReadersStep DEF IInv
  <2> DEFINE Right(q) ==
        /\ pc[q] \in {"check", "readSeek", "read", "row"} => tgt[q] = ptr
        /\ pc[q] = "read" => cursor = tgt[q]
        /\ pc[q] = "row" /\ val[q] # Err => tgt[q] < Len(slots) /\ slots[tgt[q] + 1] = val[q]
        /\ pc[q] = "skip" /\ val[q] # Err =>
             /\ pos[q] = tgt[q]
             /\ tgt[q] < Len(slots) /\ slots[tgt[q] + 1] = val[q]
  <2>i. Right(p)
    BY DEF IInv, ReadInv
  <2>2. Right(p)'
    <3>1. CASE NextBegin(p)
      BY <3>1, <1>f, Roles DEF NextBegin, Goto, shared
    <3>6. CASE GoTo(p)
      BY <3>6, <1>f, Roles DEF GoTo
    <3>2. CASE CheckBounds(p) \/ OutOfRange(p) \/ ReadSeek(p)
      BY <3>2, <2>i, <1>f, Roles DEF CheckBounds, OutOfRange, ReadSeek, Goto, ReadOffset, shared
    <3>3. CASE ReadRecord(p)
      <4>1. pc' = [pc EXCEPT ![p] = "row"] /\ UNCHANGED <<slots, tgt, ptr>>
            /\ cursor = tgt[p] /\ tgt[p] = ptr
        BY <3>3, <2>i DEF ReadRecord, Goto
      <4>2. PICK v \in Seen : val' = [val EXCEPT ![p] = v]
        BY <3>3 DEF ReadRecord
      <4>3. v # Err => cursor \in 0..(Len(slots) - 1) /\ slots[cursor + 1] = v
        BY <4>1, <1>f DEF Seen, InHeader, InRecord
      <4> QED
        BY <4>1, <4>2, <4>3, <1>f, Roles
    <3>4. CASE MakeRow(p)
      BY <3>4, <2>i, <1>f, Roles DEF MakeRow, Goto, RowPosition, shared
    <3>5. CASE SkipBegin(p) \/ SkipEnd(p)
      BY <3>5, <1>f, Roles DEF SkipBegin, SkipEnd, Goto
    <3> QED
      BY <1>2, <3>1, <3>2, <3>3, <3>4, <3>5, <3>6 DEF ReadSteps
  <2> QED
    BY <2>1, <2>2 DEF ReadInv
<1>3. CASE Crash
  BY <1>3, <1>q, Roles DEF Crash, AtRest
<1>4. CASE UNCHANGED vars
  BY <1>4 DEF IInv, ReadInv, vars, shared, local
<1> QED
  BY <1>1, <1>2, <1>3, <1>4 DEF Next, WriterStep

(* The rows that may be missing besides those that faults cost. *)
Allowed == IF Adding THEN 1 ELSE 0

LEMMA Bounds ==
  ASSUME NEW m \in Nat, NEW n \in Nat, NEW f \in Nat, NEW g \in Nat, NEW x \in Nat, NEW y \in Nat,
         n <= f + x
  PROVE  /\ m <= n /\ g + y >= f + x => m <= g + y
         /\ m <= n + 1 /\ g + y >= f + x + 1 => m <= g + y
OBVIOUS

LEMMA Monotone == ASSUME NEW f \in Nat, NEW x \in Nat, NEW y \in Nat, y >= x PROVE f + y >= f + x
OBVIOUS

(* A step that loses no row, or one more for a fault. *)
LEMMA NoMoreMissing ==
  ASSUME IInv, Missing' \subseteq Missing, faults' \in Nat,
         (Medium = "bytes" => faults' = 0), faults' + Allowed' >= faults + Allowed
  PROVE  DamageInv'
<1>1. IsFiniteSet(Missing) /\ Cardinality(Missing) \in Nat
  BY MissingFinite DEF IInv
<1>2. Cardinality(Missing') <= Cardinality(Missing) /\ Cardinality(Missing') \in Nat
  BY <1>1, FS_Subset, FS_CardinalityType
<1>3. Cardinality(Missing) <= faults + Allowed /\ faults \in Nat
  BY DEF IInv, DamageInv, Allowed, TypeOK
<1>4. Allowed \in Nat /\ Allowed' \in Nat
  BY DEF Allowed
<1>5. Cardinality(Missing') <= faults' + Allowed'
  BY <1>1, <1>2, <1>3, <1>4, Bounds
<1> QED
  BY <1>5 DEF DamageInv, Allowed

LEMMA OneMoreMissing ==
  ASSUME IInv, NEW i, Missing' \subseteq Missing \cup {i}, faults' \in Nat,
         (Medium = "bytes" => faults' = 0), faults' + Allowed' >= faults + Allowed + 1
  PROVE  DamageInv'
<1>1. IsFiniteSet(Missing) /\ Cardinality(Missing) \in Nat
  BY MissingFinite DEF IInv
<1>2. /\ IsFiniteSet(Missing \cup {i})
      /\ Cardinality(Missing \cup {i}) = Cardinality(Missing)
           \/ Cardinality(Missing \cup {i}) = Cardinality(Missing) + 1
  BY <1>1, FS_AddElement
<1>3. Cardinality(Missing') <= Cardinality(Missing \cup {i}) /\ Cardinality(Missing') \in Nat
  BY <1>2, FS_Subset, FS_CardinalityType
<1>4. Cardinality(Missing) <= faults + Allowed /\ faults \in Nat
  BY DEF IInv, DamageInv, Allowed, TypeOK
<1>5. Allowed \in Nat /\ Allowed' \in Nat
  BY DEF Allowed
<1>6. Cardinality(Missing') <= faults' + Allowed'
  <2>1. Cardinality(Missing') <= Cardinality(Missing) + 1
    BY <1>1, <1>2, <1>3
  <2> QED
    BY <2>1, <1>1, <1>3, <1>4, <1>5, Bounds
<1> QED
  BY <1>6 DEF DamageInv, Allowed

(* The row that was being added is there, or no longer counted. *)
LEMMA OneLessMissing ==
  ASSUME IInv, NEW i \in Missing, Missing' \subseteq Missing \ {i}, faults' = faults
  PROVE  DamageInv'
<1>1. IsFiniteSet(Missing) /\ Cardinality(Missing) \in Nat
  BY MissingFinite DEF IInv
<1>2. IsFiniteSet(Missing \ {i}) /\ Cardinality(Missing \ {i}) = Cardinality(Missing) - 1
  BY <1>1, FS_RemoveElement
<1>3. Cardinality(Missing') <= Cardinality(Missing) - 1 /\ Cardinality(Missing') \in Nat
  BY <1>2, FS_Subset, FS_CardinalityType
<1>4. Cardinality(Missing) <= faults + 1 /\ faults \in Nat /\ (Medium = "bytes" => faults = 0)
  BY <1>1 DEF IInv, DamageInv, TypeOK
<1> QED
  BY <1>1, <1>3, <1>4 DEF DamageInv

LEMMA NextDamage == ASSUME Disciplined, IInv, [Next]_vars PROVE DamageInv'
<1>f. /\ slots \in Seq(Content) /\ Len(slots) \in Nat /\ count \in Nat /\ diskCount \in Nat
      /\ pc \in [Procs -> WriterPCs \cup ReaderPCs] /\ faults \in Nat
      /\ Allowed \in Nat /\ Allowed' \in Nat /\ (Medium = "bytes" => faults = 0)
  BY DEF IInv, TypeOK, LabelsOK, Allowed, DamageInv
<1>m. MutexOK /\ CountInv /\ AppenderInv /\ UpdaterInv
  BY DEF IInv
(* Only one goroutine is inside WriteRow. *)
<1>o. \A p, q \in Procs : pc[p] \in Critical /\ pc[q] \in Critical => p = q
  BY <1>m DEF MutexOK
<1>k. ASSUME UNCHANGED <<slots, count>> PROVE Missing' = Missing
  BY <1>k DEF Missing
(* Who is adding a row now, and after a step of p. *)
<1>c. ASSUME NEW p \in Writers, pc[p] \in Critical, p \in Updaters \/ pc[p] \notin Reserving
      PROVE  Allowed = 0
  BY <1>c, <1>o, Roles DEF Allowed, Adding, Critical, Reserving
<1>d. ASSUME \A q \in Appenders : pc'[q] \in Reserving <=> pc[q] \in Reserving
      PROVE  Allowed' = Allowed
  BY <1>d DEF Allowed, Adding
(* What is left to show of each step. *)
<1>e. ASSUME Missing' \subseteq Missing, faults' = faults, Allowed' >= Allowed PROVE DamageInv'
  <2>1. faults' \in Nat /\ (Medium = "bytes" => faults' = 0) /\ faults + Allowed' >= faults + Allowed
    BY <1>e, <1>f, Monotone
  <2>2. faults' + Allowed' >= faults + Allowed
    BY <1>e, <2>1
  <2> QED
    BY <1>e, <2>1, <2>2, NoMoreMissing
<1>g. ASSUME Missing' \subseteq Missing, faults' = faults + 1, Medium # "bytes" PROVE DamageInv'
  <2>1. faults' \in Nat /\ (Medium = "bytes" => faults' = 0) /\ faults' + Allowed' >= faults + Allowed
    BY <1>g, <1>f DEF Allowed
  <2> QED
    BY <1>g, <2>1, NoMoreMissing
<1>h. ASSUME NEW i, Missing' \subseteq Missing \cup {i},
             \/ faults' = faults + 1 /\ Medium # "bytes"
             \/ faults' = faults /\ Allowed' = 1,
             Allowed = 0
      PROVE  DamageInv'
  <2>1. faults' \in Nat /\ (Medium = "bytes" => faults' = 0) /\ faults' + Allowed' >= faults + Allowed + 1
    BY <1>h, <1>f
  <2> QED
    BY <1>h, <2>1, OneMoreMissing
<1> USE DEF Goto, shared, Leave
<1>1. ASSUME NEW p \in Writers,
             \/ NewRow(p) \/ SetValue(p) \/ Write(p) \/ Add(p) \/ Lock(p) \/ Return(p)
             \/ Validate(p) \/ HdrSeek(p) \/ HdrWrite(p) \/ RowSeek(p)
      PROVE  DamageInv'
  <2> USE <1>1 DEF NewRow, SetValue, Write, Add, Lock, Return, Validate, HdrSeek, HdrWrite, RowSeek
  <2>1. Missing' = Missing /\ faults' = faults
    BY <1>k
  <2>2. \A q \in Appenders : pc'[q] \in Reserving <=> pc[q] \in Reserving
    BY <1>f, Roles DEF Reserving
  <2>3. Allowed' = Allowed
    BY <1>d, <2>2
  <2> QED
    BY <1>e, <1>f, <2>1, <2>3
<1>2. ASSUME NEW p \in Writers, TakeSlot(p) \/ TableFull(p) PROVE DamageInv'
  <2> USE <1>2 DEF TakeSlot, TableFull
  <2>1. Missing' = Missing /\ faults' = faults
    BY <1>k
  <2>2. Allowed = 0
    BY <1>c DEF Critical, Reserving
  <2> QED
    BY <1>e, <1>f, <2>1, <2>2
<1>3. ASSUME NEW p \in Writers, AppendSlot(p) PROVE DamageInv'
  <2>1. p \in Appenders
    <3>1. pos[p] >= count
      BY <1>3 DEF AppendSlot, IsNew
    <3>2. p \in Updaters => pos[p] < InitRows /\ InitRows <= count /\ pos[p] \in Nat
      BY <1>f, <1>m, Roles, SizesAssumption DEF UpdaterInv, CountInv, IInv, TypeOK
    <3> QED
      BY <1>f, <3>1, <3>2, Roles, SizesAssumption
  <2>2. Allowed = 0 /\ Allowed' = 1
    BY <1>3, <1>c, <1>f, <2>1, Roles DEF AppendSlot, Critical, Reserving, Allowed, Adding
  <2>3. Missing' \subseteq Missing \cup {count + 1} /\ faults' = faults
    BY <1>3, <1>f DEF AppendSlot, Counted, Missing
  <2> QED
    BY <1>h, <2>2, <2>3
<1>4. ASSUME NEW p \in Writers, FileTooLarge(p) PROVE DamageInv'
  <2>1. Len(slots) < count
    BY <1>4, <1>m, Roles DEF FileTooLarge, AppenderInv, UpdaterInv, Reserving
  <2>2. count \in Missing
    BY <1>f, <2>1 DEF Missing
  <2>3. Missing' \subseteq Missing \ {count} /\ faults' = faults
    BY <1>4, <1>f DEF FileTooLarge, Uncounted, Missing
  <2> QED
    BY <2>2, <2>3, OneLessMissing
<1>5. ASSUME NEW p \in Writers, RowWrite(p) PROVE DamageInv'
  <2>1. val[p] \in Content /\ val[p] \notin {Zero, Torn}
    BY Marks DEF IInv, TypeOK, Content
  <2>2. /\ Len(slots') = IF p \in Updaters THEN Len(slots) ELSE count
        /\ \A k \in 1..Len(slots') :
             slots'[k] = IF k = cursor + 1 THEN val[p] ELSE IF k <= Len(slots) THEN slots[k] ELSE Zero
    BY <1>5, <2>1, SlotsWritten DEF RowWrite
  <2>3. count' = count /\ faults' = faults
    BY <1>5 DEF RowWrite
  <2>4. Missing' \subseteq Missing \ {cursor + 1}
    <3> SUFFICES ASSUME NEW i \in Missing' PROVE i \in Missing /\ i # cursor + 1
      OBVIOUS
    <3>1. i \in 1..count /\ (i > Len(slots') \/ slots'[i] \in {Zero, Torn})
      BY <2>3 DEF Missing
    <3>2. i # cursor + 1
      <4>1. /\ cursor \in Nat /\ (p \in Updaters => cursor < Len(slots))
            /\ (p \in Appenders => cursor + 1 = count)
        BY <1>5, <1>f, RowSpot, Roles, SizesAssumption DEF RowWrite
      <4>2. cursor + 1 \in 1..Len(slots')
        BY <1>f, <2>2, <4>1, Roles
      <4>3. slots'[cursor + 1] = val[p]
        BY <2>2, <4>2
      <4> QED
        BY <1>f, <2>1, <3>1, <4>2, <4>3
    <3>3. i > Len(slots) \/ slots[i] \in {Zero, Torn}
      BY <1>f, <2>2, <3>1, <3>2
    <3> QED
      BY <3>1, <3>2, <3>3 DEF Missing
  <2>5. CASE p \in Appenders
    <3>1. cursor + 1 = count /\ Len(slots) < count
      BY <1>5, <1>f, <2>5, RowSpot DEF RowWrite
    <3>2. count \in Missing
      BY <1>f, <3>1 DEF Missing
    <3> QED
      BY <2>3, <2>4, <3>1, <3>2, OneLessMissing
  <2>6. CASE p \in Updaters
    <3>1. Allowed = 0
      BY <1>5, <1>c, <2>6 DEF RowWrite, Critical
    <3> QED
      BY <1>e, <1>f, <2>3, <2>4, <3>1
  <2> QED
    BY <2>5, <2>6, Roles
<1>6. ASSUME NEW p \in Writers, HdrMisplaced(p) \/ WriteRefused(p) PROVE FALSE
  BY <1>6, NeverRefused DEF HdrMisplaced, WriteRefused, IInv, HandleInv
<1>7. ASSUME NEW p \in Writers, HdrFail(p) PROVE DamageInv'
  <2>1. Missing' = Missing /\ faults' = faults + 1 /\ Medium # "bytes"
    BY <1>7, <1>k DEF HdrFail, Fault
  <2> QED
    BY <1>g, <2>1
<1>8. ASSUME NEW p \in Writers, RowFail(p) PROVE DamageInv'
  <2>1. faults' = faults + 1 /\ Medium # "bytes" /\ count' = count
    BY <1>8 DEF RowFail, Fault
  <2>2. CASE slots' = slots
    BY <1>g, <1>k, <2>1, <2>2
  <2>3. CASE slots' = PutAt(slots, cursor, Torn)
    <3>1. /\ Len(slots') = IF p \in Updaters THEN Len(slots) ELSE count
          /\ \A k \in 1..Len(slots') :
               slots'[k] = IF k = cursor + 1 THEN Torn ELSE IF k <= Len(slots) THEN slots[k] ELSE Zero
      BY <1>8, <2>3, SlotsWritten DEF RowFail, Content
    <3>2. Missing' \subseteq Missing \cup {cursor + 1}
      <4> SUFFICES ASSUME NEW i \in Missing', i # cursor + 1 PROVE i \in Missing
        OBVIOUS
      <4>1. i \in 1..count /\ (i > Len(slots') \/ slots'[i] \in {Zero, Torn})
        BY <2>1 DEF Missing
      <4>2. i > Len(slots) \/ slots[i] \in {Zero, Torn}
        BY <1>f, <3>1, <4>1
      <4> QED
        BY <4>1, <4>2 DEF Missing
    <3>3. CASE p \in Appenders
      <4>1. cursor + 1 = count /\ Len(slots) < count
        BY <1>8, <1>f, <3>3, RowSpot DEF RowFail
      <4>2. cursor + 1 \in Missing
        BY <1>f, <4>1 DEF Missing
      <4> QED
        BY <1>g, <2>1, <3>2, <4>2
    <3>4. CASE p \in Updaters
      <4>1. Allowed = 0
        BY <1>8, <1>c, <3>4 DEF RowFail, Critical
      <4> QED
        BY <1>h, <2>1, <3>2, <4>1
    <3> QED
      BY <3>3, <3>4, Roles
  <2> QED
    BY <1>8, <2>2, <2>3 DEF RowFail
<1>9. ASSUME NEW p \in Readers, NextBegin(p) \/ GoTo(p) \/ ReadSteps(p) PROVE DamageInv'
  <2>1. Missing' = Missing /\ faults' = faults
    BY <1>9, <1>k
       DEF NextBegin, GoTo, ReadSteps, CheckBounds, OutOfRange, ReadSeek, ReadRecord, MakeRow,
           SkipBegin, SkipEnd
  <2>2. Allowed' = Allowed
    BY <1>9, <1>d, Roles, ReadersStep DEF IInv
  <2> QED
    BY <1>e, <1>f, <2>1, <2>2
<1>10. CASE Crash
  <2>1. faults' = faults + 1 /\ Medium # "bytes"
    BY <1>10 DEF Crash, Fault
  <2>2. Missing' \subseteq Missing
    BY <1>10, <1>f, <1>m DEF Crash, Missing, CountInv
  <2> QED
    BY <1>g, <2>1, <2>2
<1>11. CASE UNCHANGED vars
  <2>1. Missing' = Missing /\ faults' = faults /\ Allowed' = Allowed
    BY <1>11, <1>k, <1>d DEF vars, local
  <2> QED
    BY <1>e, <1>f, <2>1
<1> QED
  BY <1>1, <1>2, <1>3, <1>4, <1>5, <1>6, <1>7, <1>8, <1>9, <1>10, <1>11 DEF Next, WriteSteps

LEMMA NextIInv == ASSUME Disciplined, IInv, [Next]_vars PROVE IInv'
BY NextType, NextMutex, NextAlone, NextCounts, NextRows, NextRead, NextDamage DEF IInv

(* The inductive invariant holds for every disciplined program. *)
THEOREM Invariance == ASSUME Disciplined PROVE Spec => []IInv
BY InitIInv, NextIInv, PTL DEF Spec

(* No row whose Add or Write returned nil is ever lost: not by later calls,*)
(* not by I/O errors, not by a crash.                                      *)
THEOREM AddsAreKept == ASSUME Disciplined PROVE Spec => []AckedKept
<1>1. IInv => AckedKept
  BY SizesAssumption DEF IInv, TypeOK, CountInv, AckedInv, AckedKept
<1> QED
  BY <1>1, Invariance, PTL

(* No record lies behind the count of the header, in memory or on disk.    *)
THEOREM RecordsAreCounted == ASSUME Disciplined PROVE Spec => []RowsWithinHeader
<1>1. IInv => RowsWithinHeader
  BY DEF IInv, TypeOK, CountInv, RowsWithinHeader
<1> QED
  BY <1>1, Invariance, PTL

(* WriteRow puts every record where it was addressed to: the first rows    *)
(* and their updates stay where they are, new rows go behind them, whatever*)
(* fails on the way.                                                       *)
THEOREM RowsStayInTheirSlots == ASSUME Disciplined PROVE Spec => []RowsInTheirSlots
<1>1. IInv => RowsInTheirSlots
  BY DEF IInv, RowsInv
<1> QED
  BY <1>1, Invariance, PTL

(* Next returns the row at the row pointer, its content and its position.  *)
THEOREM ReadsAreHonest == ASSUME Disciplined PROVE Spec => []ReadHonest
<1>1. IInv => ReadHonest
  BY DEF IInv, ReadInv, ReadHonest
<1> QED
  BY <1>1, Invariance, PTL

(* Of the rows the header on disk counts, I/O errors and crashes cost no   *)
(* more than one each.                                                     *)
THEOREM DamageIsBounded == ASSUME Disciplined PROVE Spec => []DamageBounded
<1>1. ASSUME IInv, mutex = NoOne
      PROVE  Cardinality({i \in 1..diskCount : i > Len(slots) \/ slots[i] \in {Zero, Torn}}) <= faults
  <2> DEFINE Lost == {i \in 1..diskCount : i > Len(slots) \/ slots[i] \in {Zero, Torn}}
  <2>1. \A p \in Appenders : pc[p] \notin Reserving
    BY <1>1, RolesAssumption DEF IInv, MutexOK, Critical, Reserving, Procs
  <2>2. Cardinality(Missing) <= faults /\ faults \in Nat
    <3>1. ~Adding
      BY <2>1 DEF Adding
    <3> QED
      BY <1>1, <3>1, MissingFinite DEF IInv, DamageInv, TypeOK
  <2>3. diskCount <= count /\ diskCount \in Nat /\ count \in Nat
    BY <1>1 DEF IInv, CountInv, TypeOK
  <2>4. Lost \in SUBSET Missing
    BY <2>3 DEF Missing
  <2>5. IsFiniteSet(Missing) /\ Cardinality(Missing) \in Nat
    BY <1>1, MissingFinite DEF IInv
  <2>6. Cardinality(Lost) <= Cardinality(Missing) /\ Cardinality(Lost) \in Nat
    BY <2>4, <2>5, FS_Subset, FS_CardinalityType
  <2> QED
    BY <2>2, <2>5, <2>6
<1>2. IInv => DamageBounded
  BY <1>1 DEF DamageBounded
<1> QED
  BY <1>2, Invariance, PTL

(***************************************************************************)
(* Without faults the header is exact.                                     *)
(***************************************************************************)
LEMMA NextExact ==
  ASSUME Disciplined, MaxFaults = 0, IInv, ExactInv, [Next]_vars PROVE ExactInv'
<1> USE SizesAssumption, RolesAssumption DEF IInv, Adding
<1>s. /\ Appenders \subseteq Writers /\ Updaters \subseteq Writers
      /\ Writers \subseteq Procs
      /\ \A p \in Writers : p \in Appenders <=> p \notin Updaters
  BY DEF Procs, Writers
<1>o. \A p, q \in Procs : pc[p] \in Critical /\ pc[q] \in Critical => p = q
  BY DEF MutexOK
<1>f. /\ count \in Nat /\ diskCount \in Nat /\ slots \in Seq(Content) /\ Len(slots) \in Nat
      /\ pc \in [Procs -> WriterPCs \cup ReaderPCs]
      /\ pos \in [Procs -> Nat] /\ tgt \in [Procs -> Int] /\ cursor \in Int
  BY DEF TypeOK, LabelsOK
<1>n. ~Fault
  BY DEF TypeOK, Fault
<1> USE DEF Goto, shared, Critical, Reserving, NewPosition, NextOp, Free, OldSlot, NewSlot,
            Counted, Uncounted, Image, RowOffset
<1>1. ASSUME NEW p \in Writers,
             NewRow(p) \/ SetValue(p) \/ Write(p) \/ Add(p) \/ Lock(p) \/ Return(p)
      PROVE  ExactInv'
  <2>1. /\ UNCHANGED <<count, diskCount, slots>>
        /\ \A q \in Procs : pc'[q] \in Reserving <=> pc[q] \in Reserving
        /\ \A q \in Procs : pc'[q] # pc[q] =>
                            pc'[q] \notin Reserving /\ pc[q] \notin Reserving
    BY <1>1, <1>s, <1>f DEF NewRow, SetValue, Write, Add, Lock, Return
  <2> QED
    BY <2>1, <1>s DEF ExactInv
<1>2. ASSUME NEW p \in Writers, TakeSlot(p) \/ TableFull(p) PROVE ExactInv'
  <2>1. TakeSlot(p) => p \notin Appenders
    BY <1>f DEF TakeSlot, IsNew, AppenderInv
  <2>2. \A q \in Appenders : pc[q] \notin Reserving /\ pc'[q] \notin Reserving
    BY <1>2, <2>1, <1>s, <1>o, <1>f DEF TakeSlot, TableFull, Leave
  <2> QED
    BY <1>2, <2>2 DEF ExactInv, TakeSlot, TableFull
<1>3. ASSUME NEW p \in Writers, AppendSlot(p) PROVE ExactInv'
  <2>1. p \in Appenders
    BY <1>3, <1>s, <1>f DEF AppendSlot, IsNew, UpdaterInv, CountInv
  <2>2. \A q \in Appenders : pc[q] \notin Reserving
    BY <1>3, <2>1, <1>s, <1>o DEF AppendSlot
  <2> QED
    BY <1>3, <2>1, <2>2, <1>s, <1>f DEF ExactInv, AppendSlot
<1>4. ASSUME NEW p \in Writers, Validate(p) \/ HdrSeek(p) PROVE ExactInv'
  BY <1>4, <1>s, <1>f DEF ExactInv, Validate, HdrSeek
<1>5. ASSUME NEW p \in Writers, FileTooLarge(p) PROVE ExactInv'
  <2>1. p \in Appenders
    BY <1>5, <1>s DEF FileTooLarge, UpdaterInv
  <2>2. \A q \in Appenders : pc'[q] \notin Reserving
    BY <1>5, <2>1, <1>s, <1>o, <1>f DEF FileTooLarge, Leave
  <2> QED
    BY <1>5, <2>1, <2>2, <1>f DEF ExactInv, FileTooLarge
<1>6. ASSUME NEW p \in Writers, HdrWrite(p) PROVE ExactInv'
  <2>1. \A q \in Appenders : pc'[q] \notin {"validate", "hdrSeek", "hdrWrite"}
    BY <1>6, <1>s, <1>o, <1>f DEF HdrWrite
  <2>2. \A q \in Appenders : pc'[q] \in Reserving <=> pc[q] \in Reserving
    BY <1>6, <1>s, <1>f DEF HdrWrite
  <2> QED
    BY <1>6, <2>1, <2>2 DEF ExactInv, HdrWrite
<1>7. ASSUME NEW p \in Writers, RowSeek(p) PROVE ExactInv'
  BY <1>7, <1>s, <1>f DEF ExactInv, RowSeek
<1>8. ASSUME NEW p \in Writers, RowWrite(p) PROVE ExactInv'
  <2>1. val[p] \in Content
    BY DEF TypeOK, Content
  <2>2. Len(slots') = IF cursor < Len(slots) THEN Len(slots) ELSE cursor + 1
    BY <1>8, <1>f, <2>1, PutAtType DEF RowWrite
  <2>3. \A q \in Appenders : pc'[q] \notin Reserving
    BY <1>8, <1>s, <1>o, <1>f DEF RowWrite, Leave
  <2>4. count' = count /\ diskCount' = diskCount /\ diskCount = count
    BY <1>8 DEF RowWrite, HandleInv
  <2>5. CASE p \in Appenders
    <3>1. cursor = count - 1 /\ Len(slots) = count - 1
      BY <1>8, <2>5, <1>s, <1>f DEF RowWrite, HandleInv, AppenderInv, ExactInv
    <3> QED
      BY <2>2, <2>3, <2>4, <3>1, <1>f DEF ExactInv
  <2>6. CASE p \in Updaters
    <3>1. cursor < InitRows /\ \A q \in Appenders : pc[q] \notin Reserving
      BY <1>8, <2>6, <1>s, <1>o, <1>f DEF RowWrite, HandleInv, UpdaterInv
    <3>2. Len(slots') = Len(slots)
      BY <2>2, <3>1, <1>f DEF CountInv
    <3> QED
      BY <2>3, <2>4, <3>1, <3>2 DEF ExactInv
  <2> QED
    BY <2>5, <2>6, <1>s
<1>9. ASSUME NEW p \in Writers, HdrMisplaced(p) PROVE ExactInv'
  BY <1>9 DEF HdrMisplaced, HandleInv
<1>10. ASSUME NEW p \in Writers, WriteRefused(p) PROVE ExactInv'
  BY <1>10, NeverRefused DEF WriteRefused
<1>11. ASSUME UNCHANGED vars PROVE ExactInv'
  BY <1>11 DEF vars, local, ExactInv
<1>12. ASSUME NEW p \in Readers, NextBegin(p) \/ GoTo(p) \/ ReadSteps(p) PROVE ExactInv'
  <2>1. \A q \in Appenders : pc'[q] = pc[q]
    BY <1>12, <1>s, ReadersStep
  <2>2. UNCHANGED <<count, diskCount, slots>>
    BY <1>12
       DEF NextBegin, GoTo, ReadSteps, CheckBounds, OutOfRange, ReadSeek, ReadRecord, MakeRow,
           SkipBegin, SkipEnd
  <2> QED
    BY <2>1, <2>2 DEF ExactInv
<1> QED
  BY <1>1, <1>2, <1>3, <1>4, <1>5, <1>6, <1>7, <1>8, <1>9, <1>10, <1>11, <1>12, <1>n
     DEF Next, WriteSteps, HdrFail, RowFail, Crash

LEMMA InitExact == ASSUME Init PROVE ExactInv
BY SizesAssumption, RolesAssumption
   DEF Init, AtRest, FirstRows, ExactInv, Adding, Reserving, Procs

(* Whenever nobody is inside WriteRow, RowsCount is the number of records  *)
(* in the file, in memory and on disk.                                     *)
THEOREM HeaderIsExact ==
  ASSUME Disciplined, MaxFaults = 0 PROVE Spec => []HeaderCountsRows
<1>1. IInv /\ ExactInv => HeaderCountsRows
  <2> SUFFICES ASSUME IInv, ExactInv, mutex = NoOne
               PROVE  count = diskCount /\ diskCount = Len(slots)
    BY DEF HeaderCountsRows
  <2>1. \A p \in Appenders : pc[p] \notin Reserving
    BY RolesAssumption DEF IInv, MutexOK, Critical, Reserving, Procs
  <2> QED
    BY <2>1 DEF ExactInv, Adding, Reserving
<1> QED
  BY <1>1, InitExact, NextExact, Invariance, PTL DEF Spec

(***************************************************************************)
(* The refinement, under faults.                                           *)
(***************************************************************************)
Calls == [p \in Procs |-> CallOf(p)]

(* The rows as FaultyStore has them. *)
Shown(s) == [i \in DOMAIN s |-> IF s[i] = Zero THEN Torn ELSE s[i]]

LEMMA ShownSeq ==
  ASSUME NEW s \in Seq(Content)
  PROVE  /\ Shown(s) \in Seq(Content) /\ Len(Shown(s)) = Len(s) /\ DOMAIN Shown(s) = 1..Len(s)
         /\ \A i \in 1..Len(s) : Shown(s)[i] = IF s[i] = Zero THEN Torn ELSE s[i]
BY DEF Shown, Content

(* A record that is written is shown as a replacement, as the next row, or *)
(* as a row behind holes.                                                  *)
LEMMA ShownPut ==
  ASSUME NEW s \in Seq(Content), NEW i \in Nat, NEW c \in Content, c # Zero
  PROVE  /\ i < Len(s) => Shown(PutAt(s, i, c)) = [Shown(s) EXCEPT ![i + 1] = c]
         /\ i = Len(s) => Shown(PutAt(s, i, c)) = Append(Shown(s), c)
         /\ i > Len(s) => Shown(PutAt(s, i, c)) =
                            Shown(s) \o [k \in 1..(i - Len(s)) |-> Torn] \o <<c>>
         /\ i >= Len(s) /\ c = Torn => Shown(PutAt(s, i, c)) =
                            Shown(s) \o [k \in 1..(i + 1 - Len(s)) |-> Torn]
<1> DEFINE t == PutAt(s, i, c)
           n == IF i < Len(s) THEN Len(s) ELSE i + 1
<1>0. Len(s) \in Nat /\ Torn \in Content /\ n \in Nat
  BY DEF Content
<1>1. t \in Seq(Content) /\ Len(t) = n
  BY PutAtType
<1>2. \A k \in 1..n : t[k] = IF k = i + 1 THEN c ELSE IF k <= Len(s) THEN s[k] ELSE Zero
  BY <1>1, PutAtSlots
<1>3. /\ Shown(t) \in Seq(Content) /\ Len(Shown(t)) = n
      /\ Shown(s) \in Seq(Content) /\ Len(Shown(s)) = Len(s)
  BY <1>1, ShownSeq
<1>4. \A k \in 1..n : Shown(t)[k] = IF k = i + 1 THEN c
                                    ELSE IF k <= Len(s) THEN Shown(s)[k] ELSE Torn
  <2>1. \A k \in 1..n : Shown(t)[k] = IF t[k] = Zero THEN Torn ELSE t[k]
    BY <1>1, ShownSeq
  <2>2. \A k \in 1..Len(s) : Shown(s)[k] = IF s[k] = Zero THEN Torn ELSE s[k]
    BY ShownSeq
  <2> QED
    BY <1>0, <1>2, <2>1, <2>2
<1> HIDE DEF t
<1>5. ASSUME i < Len(s) PROVE Shown(t) = [Shown(s) EXCEPT ![i + 1] = c]
  <2> DEFINE u == [Shown(s) EXCEPT ![i + 1] = c]
  <2>0. i + 1 \in 1..Len(Shown(s))
    BY <1>0, <1>3, <1>5
  <2>1. u \in Seq(Content) /\ Len(u) = Len(s)
    BY <1>3, <2>0, ExceptSeq
  <2>2. \A k \in 1..Len(s) : u[k] = IF k = i + 1 THEN c ELSE Shown(s)[k]
    BY <1>3, <2>0, ExceptSeq
  <2> HIDE DEF u
  <2>3. \A k \in 1..Len(s) : Shown(t)[k] = u[k]
    BY <1>0, <1>4, <1>5, <2>2
  <2>4. Shown(t) = u
    BY <1>3, <1>5, <2>1, <2>3, SeqEqual
  <2> QED
    BY <2>4 DEF u
<1>6. ASSUME i = Len(s) PROVE Shown(t) = Append(Shown(s), c)
  <2> DEFINE u == Append(Shown(s), c)
  <2>1. u \in Seq(Content) /\ Len(u) = n
    BY <1>3, <1>6, AppendProperties
  <2>2. \A k \in 1..n : u[k] = IF k = i + 1 THEN c ELSE Shown(s)[k]
    <3>1. /\ \A k \in 1..Len(Shown(s)) : u[k] = Shown(s)[k]
          /\ u[Len(Shown(s)) + 1] = c
      BY <1>3, AppendProperties
    <3> QED
      BY <1>0, <1>3, <1>6, <3>1
  <2> HIDE DEF u
  <2>3. \A k \in 1..n : Shown(t)[k] = u[k]
    BY <1>0, <1>4, <1>6, <2>2
  <2>4. Shown(t) = u
    BY <1>3, <2>1, <2>3, SeqEqual
  <2> QED
    BY <2>4 DEF u
<1>7. ASSUME NEW h \in Nat
      PROVE  /\ [k \in 1..h |-> Torn] \in Seq(Content) /\ Len([k \in 1..h |-> Torn]) = h
             /\ \A k \in 1..h : [j \in 1..h |-> Torn][k] = Torn
  BY <1>0
<1>8. ASSUME i > Len(s)
      PROVE  Shown(t) = Shown(s) \o [k \in 1..(i - Len(s)) |-> Torn] \o <<c>>
  <2> DEFINE h == [k \in 1..(i - Len(s)) |-> Torn]
             v == Shown(s) \o h
             u == v \o <<c>>
  <2>1. /\ h \in Seq(Content) /\ Len(h) = i - Len(s)
        /\ \A k \in 1..(i - Len(s)) : h[k] = Torn
    BY <1>0, <1>7, <1>8
  <2> HIDE DEF h
  <2>a. /\ v \in Seq(Content) /\ Len(v) = Len(Shown(s)) + Len(h)
        /\ \A k \in 1..(Len(Shown(s)) + Len(h)) :
             v[k] = IF k <= Len(Shown(s)) THEN Shown(s)[k] ELSE h[k - Len(Shown(s))]
    BY <1>3, <2>1, ConcatProperties
  <2>b. Len(Shown(s)) + Len(h) = i
    BY <1>0, <1>3, <2>1
  <2>2. v \in Seq(Content) /\ Len(v) = i
    BY <2>a, <2>b
  <2>3. \A k \in 1..i : v[k] = IF k <= Len(s) THEN Shown(s)[k] ELSE h[k - Len(s)]
    BY <1>3, <2>a, <2>b
  <2> HIDE DEF v
  <2>c. <<c>> \in Seq(Content) /\ Len(<<c>>) = 1 /\ <<c>>[1] = c
    OBVIOUS
  <2>d. /\ u \in Seq(Content) /\ Len(u) = i + 1
        /\ \A k \in 1..(i + 1) : u[k] = IF k <= i THEN v[k] ELSE <<c>>[k - i]
    BY <2>2, <2>c, ConcatProperties
  <2>4. u \in Seq(Content) /\ Len(u) = n
    BY <1>8, <1>0, <2>d
  <2>5. \A k \in 1..n : u[k] = IF k = i + 1 THEN c ELSE v[k]
    <3>1. \A k \in 1..n : k = i + 1 \/ (k \in 1..i /\ k # i + 1)
      BY <1>8, <1>0
    <3>2. u[i + 1] = c
      BY <2>c, <2>d
    <3>3. \A k \in 1..i : u[k] = v[k]
      BY <2>d
    <3> QED
      BY <3>1, <3>2, <3>3
  <2> HIDE DEF u
  <2>6. \A k \in 1..n : Shown(t)[k] = u[k]
    BY <1>0, <1>4, <1>8, <2>1, <2>3, <2>5
  <2>7. Shown(t) = u
    BY <1>3, <2>4, <2>6, SeqEqual
  <2> QED
    BY <2>7 DEF u, v, h
<1>9. ASSUME i >= Len(s), c = Torn
      PROVE  Shown(t) = Shown(s) \o [k \in 1..(i + 1 - Len(s)) |-> Torn]
  <2> DEFINE h == [k \in 1..(i + 1 - Len(s)) |-> Torn]
             u == Shown(s) \o h
  <2>1. /\ h \in Seq(Content) /\ Len(h) = i + 1 - Len(s)
        /\ \A k \in 1..(i + 1 - Len(s)) : h[k] = Torn
    BY <1>0, <1>7, <1>9
  <2> HIDE DEF h
  <2>a. /\ u \in Seq(Content) /\ Len(u) = Len(Shown(s)) + Len(h)
        /\ \A k \in 1..(Len(Shown(s)) + Len(h)) :
             u[k] = IF k <= Len(Shown(s)) THEN Shown(s)[k] ELSE h[k - Len(Shown(s))]
    BY <1>3, <2>1, ConcatProperties
  <2>b. Len(Shown(s)) + Len(h) = n
    BY <1>0, <1>3, <1>9, <2>1
  <2>2. u \in Seq(Content) /\ Len(u) = n
    BY <2>a, <2>b
  <2>3. \A k \in 1..n : u[k] = IF k <= Len(s) THEN Shown(s)[k] ELSE h[k - Len(s)]
    <3>1. Len(Shown(s)) = Len(s)
      BY <1>3
    <3>2. \A k \in 1..n :
            u[k] = IF k <= Len(Shown(s)) THEN Shown(s)[k] ELSE h[k - Len(Shown(s))]
      BY <2>a, <2>b, Zenon
    <3> QED
      BY <3>1, <3>2, Zenon
  <2> HIDE DEF u
  <2>4. \A k \in 1..n : Shown(t)[k] = u[k]
    <3> SUFFICES ASSUME NEW k \in 1..n PROVE Shown(t)[k] = u[k]
      OBVIOUS
    <3>1. CASE k <= Len(s)
      BY <1>0, <1>4, <1>9, <2>3, <3>1
    <3>2. CASE ~(k <= Len(s))
      <4>1. k - Len(s) \in 1..(i + 1 - Len(s))
        BY <1>0, <1>9, <3>2
      <4>2. u[k] = Torn
        BY <2>1, <2>3, <3>2, <4>1
      <4>3. Shown(t)[k] = Torn
        BY <1>0, <1>4, <1>9, <3>2
      <4> QED
        BY <4>2, <4>3
    <3> QED
      BY <3>1, <3>2
  <2>5. Shown(t) = u
    BY <1>3, <2>2, <2>4, SeqEqual
  <2> QED
    BY <2>5 DEF u, h
<1> QED
  BY <1>5, <1>6, <1>8, <1>9 DEF t

LEMMA ShownReplaced ==
  ASSUME NEW s \in Seq(Content), NEW i \in Nat, NEW c \in Content, c # Zero, i < Len(s)
  PROVE  Shown(PutAt(s, i, c)) = [Shown(s) EXCEPT ![i + 1] = c]
BY ShownPut

LEMMA ShownAdded ==
  ASSUME NEW s \in Seq(Content), NEW i \in Nat, NEW c \in Content, c # Zero
  PROVE  /\ i = Len(s) => Shown(PutAt(s, i, c)) = Append(Shown(s), c)
         /\ i > Len(s) => Shown(PutAt(s, i, c)) =
                            Shown(s) \o [k \in 1..(i - Len(s)) |-> Torn] \o <<c>>
BY ShownPut

(* Holes are rows that faults cost. *)
LEMMA FewHoles ==
  ASSUME IInv, Len(slots) < count
  PROVE  count - Len(slots) <= faults + 1
<1>1. /\ count \in Nat /\ Len(slots) \in Nat /\ faults \in Nat
      /\ IsFiniteSet(Missing) /\ Cardinality(Missing) \in Nat
  BY MissingFinite DEF IInv, TypeOK
<1>2. (Len(slots) + 1)..count \in SUBSET Missing
  <2>1. \A i \in (Len(slots) + 1)..count : i \in 1..count /\ i > Len(slots)
    BY <1>1
  <2> QED
    BY <2>1 DEF Missing
<1>3. Cardinality((Len(slots) + 1)..count) = count - Len(slots)
  BY <1>1, FS_Interval
<1>4. count - Len(slots) <= Cardinality(Missing)
  BY <1>1, <1>2, <1>3, FS_Subset
<1>5. Cardinality(Missing) <= faults + 1
  BY <1>1 DEF IInv, DamageInv
<1> QED
  BY <1>1, <1>4, <1>5

LEMMA FewDamaged ==
  IInv /\ mutex = NoOne => Cardinality(Faulty!DamagedRows(Shown(slots))) <= faults
<1> SUFFICES ASSUME IInv, mutex = NoOne
             PROVE  Cardinality(Faulty!DamagedRows(Shown(slots))) <= faults
  OBVIOUS
<1>1. ~Adding
  BY RolesAssumption DEF IInv, MutexOK, Critical, Reserving, Procs, Adding
<1>2. Cardinality(Missing) <= faults /\ faults \in Nat
  BY <1>1, MissingFinite DEF IInv, DamageInv, TypeOK
<1>3. IsFiniteSet(Missing) /\ Cardinality(Missing) \in Nat
  BY MissingFinite DEF IInv
<1>4. Len(slots) <= count /\ slots \in Seq(Content) /\ count \in Nat /\ Len(slots) \in Nat
  BY DEF IInv, CountInv, TypeOK
<1>5. Faulty!DamagedRows(Shown(slots)) \in SUBSET Missing
  <2>1. \A i \in 1..Len(slots) : Shown(slots)[i] = Torn => slots[i] \in {Zero, Torn}
    BY <1>4, ShownSeq
  <2> QED
    BY <1>4, <2>1, ShownSeq DEF Faulty!DamagedRows, Missing
<1>6. /\ Cardinality(Faulty!DamagedRows(Shown(slots))) <= Cardinality(Missing)
      /\ Cardinality(Faulty!DamagedRows(Shown(slots))) \in Nat
  BY <1>3, <1>5, FS_Subset, FS_CardinalityType
<1> QED
  BY <1>2, <1>3, <1>6

(* A call is read off the label. *)
LEMMA CallLabels ==
  ASSUME NEW p \in Procs
  PROVE  /\ pc[p] \in Critical \cup {"lock"} => CallOf(p) = WriteCall(p, "asked")
         /\ pc[p] = "ret" => CallOf(p) = WriteCall(p, "done")
         /\ pc[p] = "err" => CallOf(p) = WriteCall(p, "refused")
         /\ pc[p] \in {"idle", "held", "ready", "check"} => CallOf(p) = NoCall
         /\ pc[p] \in {"readSeek", "read"} => CallOf(p) =
              IF tgt[p] < Len(slots) THEN ReadCall(tgt[p] + 1, None, "asked") ELSE NoCall
         /\ pc[p] = "row" => CallOf(p) =
              IF val[p] # Err THEN ReadCall(tgt[p] + 1, val[p], "done") ELSE NoCall
         /\ pc[p] \in {"skip", "store"} => CallOf(p) =
              IF val[p] # Err THEN ReadCall(pos[p] + 1, val[p], "done") ELSE NoCall
BY DEF CallOf, Critical

LEMMA CallLabelsNext ==
  ASSUME NEW p \in Procs
  PROVE  /\ pc'[p] \in Critical \cup {"lock"} => CallOf(p)' = WriteCall(p, "asked")'
         /\ pc'[p] = "ret" => CallOf(p)' = WriteCall(p, "done")'
         /\ pc'[p] = "err" => CallOf(p)' = WriteCall(p, "refused")'
         /\ pc'[p] \in {"idle", "held", "ready", "check"} => CallOf(p)' = NoCall
         /\ pc'[p] \in {"readSeek", "read"} => CallOf(p)' =
              IF tgt'[p] < Len(slots') THEN ReadCall(tgt'[p] + 1, None, "asked") ELSE NoCall
         /\ pc'[p] = "row" => CallOf(p)' =
              IF val'[p] # Err THEN ReadCall(tgt'[p] + 1, val'[p], "done") ELSE NoCall
         /\ pc'[p] \in {"skip", "store"} => CallOf(p)' =
              IF val'[p] # Err THEN ReadCall(pos'[p] + 1, val'[p], "done") ELSE NoCall
BY DEF CallOf, Critical, NoCall, None, ReadCall

ReaderStep(p) == NextBegin(p) \/ GoTo(p) \/ ReadSteps(p)

(* A step of p leaves the calls of the others alone.                       *)
LEMMA OtherCalls ==
  ASSUME Disciplined, IInv, NEW p \in Procs,
         \/ p \in Writers /\ WriterStep(p)
         \/ p \in Readers /\ ReaderStep(p)
  PROVE  \A q \in Procs \ {p} : CallOf(q)' = CallOf(q)
<1>f. LabelsOK /\ pos \in [Procs -> Nat] /\ val \in [Procs -> Content \cup {Err}] /\ tgt \in [Procs -> Int]
  BY DEF IInv, TypeOK
<1>1. ASSUME NEW q \in Procs \ {p}, ~Busy(q), pc'[q] = pc[q] PROVE CallOf(q)' = CallOf(q)
  BY <1>1, CallLabels, CallLabelsNext DEF Busy
<1>2. CASE p \in Readers /\ ReaderStep(p)
  BY <1>1, <1>2, ReadersStep DEF ReaderStep, IInv
<1>3. CASE p \in Writers /\ WriterStep(p)
  <2>1. /\ \A q \in Readers : ~Busy(q)
        /\ \A q \in Procs \ {p} : pc'[q] = pc[q]
    BY <1>3, WritersStep DEF IInv
  <2>2. \A q \in Procs \ {p} : pos'[q] = pos[q] /\ val'[q] = val[q]
    BY <1>3, <1>f
       DEF WriterStep, WriteSteps, NewRow, SetValue, Write, Add, Lock, TakeSlot, AppendSlot, TableFull,
           Validate, FileTooLarge, HdrSeek, HdrWrite, HdrMisplaced, RowSeek, RowWrite, WriteRefused,
           Return, HdrFail, RowFail
  <2>3. ASSUME NEW q \in Writers, q # p PROVE CallOf(q)' = CallOf(q)
    <3>1. q \in Procs \ {p} /\ pc[q] \in WriterPCs
      BY <1>f, <2>3, Roles DEF LabelsOK
    <3>2. \/ pc[q] \in Critical \cup {"lock"} \/ pc[q] = "ret" \/ pc[q] = "err"
          \/ pc[q] \in {"idle", "held", "ready", "check"}
      BY <3>1 DEF WriterPCs, Critical
    <3>3. \A st : WriteCall(q, st)' = WriteCall(q, st)
      BY <2>2, <3>1 DEF WriteCall
    <3> QED
      BY <2>1, <3>1, <3>2, <3>3, CallLabels, CallLabelsNext
  <2> QED
    BY <1>1, <2>1, <2>3, Roles
<1> QED
  BY <1>2, <1>3

(* What the abstract variables are after a step of p. *)
LEMMA OneCallChanges ==
  ASSUME NEW p \in Procs, \A q \in Procs \ {p} : CallOf(q)' = CallOf(q)
  PROVE  /\ Calls' = [Calls EXCEPT ![p] = CallOf(p)']
         /\ CallOf(p)' = CallOf(p) => Calls' = Calls
         /\ \A st : CallOf(p)' = [CallOf(p) EXCEPT !.st = st] =>
                      Calls' = [Calls EXCEPT ![p].st = st]
BY DEF Calls

LEMMA RecordUpdate ==
  ASSUME NEW o, NEW a, NEW v, NEW s, NEW t
  PROVE  [[op |-> o, at |-> a, val |-> v, st |-> s] EXCEPT !.st = t]
           = [op |-> o, at |-> a, val |-> v, st |-> t]
OBVIOUS

LEMMA SameWriteCall ==
  ASSUME NEW p \in Procs, NEW s, NEW t, pos'[p] = pos[p], val'[p] = val[p]
  PROVE  /\ WriteCall(p, t)' = [WriteCall(p, s) EXCEPT !.st = t]
         /\ WriteCall(p, s)' = WriteCall(p, s)
BY RecordUpdate DEF WriteCall

(* The steps of FaultyStore, over the rows shown and the calls. *)
LEMMA FaultyStutter ==
  Shown(slots') = Shown(slots) /\ Calls' = Calls /\ faults' = faults => UNCHANGED Faulty!faultyVars
BY DEF Faulty!faultyVars, Faulty!vars, Shown, Calls

LEMMA FaultyBegin ==
  ASSUME NEW p
  PROVE  Faulty!Begin(p) <=> /\ Calls[p] = NoCall
                             /\ Calls'[p] \in Faulty!Requests
                             /\ Calls' = [Calls EXCEPT ![p] = Calls'[p]]
                             /\ Shown(slots') = Shown(slots)
BY DEF Faulty!Begin, Shown, Calls, NoCall, Faulty!NoCall

LEMMA FaultyRefuse ==
  ASSUME NEW p
  PROVE  Faulty!Refuse(p) <=> /\ Calls[p].st = "asked"
                              /\ Calls' = [Calls EXCEPT ![p].st = "refused"]
                              /\ Shown(slots') = Shown(slots)
BY DEF Faulty!Refuse, Shown, Calls

LEMMA FaultyReturn ==
  ASSUME NEW p
  PROVE  Faulty!Return(p) <=> /\ Calls[p].st \in {"done", "refused"}
                              /\ Calls' = [Calls EXCEPT ![p] = NoCall]
                              /\ Shown(slots') = Shown(slots)
BY DEF Faulty!Return, Shown, Calls, NoCall, Faulty!NoCall

LEMMA FaultyReadFails ==
  ASSUME NEW p
  PROVE  Faulty!ReadFails(p) <=> /\ Calls[p].st = "asked" /\ Calls[p].op = "read"
                                 /\ Calls[p].at \in Faulty!DamagedRows(Shown(slots))
                                 /\ Calls' = [Calls EXCEPT ![p] = NoCall]
                                 /\ Shown(slots') = Shown(slots)
BY DEF Faulty!ReadFails, Shown, Calls, NoCall, Faulty!NoCall

LEMMA SameCardinality == \A S : Faulty!Cardinality(S) = Cardinality(S)
BY DEF Faulty!Cardinality, Cardinality

LEMMA FaultyApply ==
  ASSUME NEW p
  PROVE  Faulty!Apply(p) <=>
           /\ Calls[p].st = "asked"
           /\ \/ /\ Calls[p].op = "append"
                 /\ Shown(slots') = Append(Shown(slots), Calls[p].val)
                 /\ Calls' = [Calls EXCEPT ![p].st = "done"]
              \/ /\ Calls[p].op = "update"
                 /\ Calls[p].at \in DOMAIN Shown(slots)
                 /\ Shown(slots') = [Shown(slots) EXCEPT ![Calls[p].at] = Calls[p].val]
                 /\ Calls' = [Calls EXCEPT ![p].st = "done"]
              \/ /\ Calls[p].op = "read"
                 /\ Calls[p].at \in DOMAIN Shown(slots)
                 /\ Calls' = [Calls EXCEPT ![p].val = Shown(slots)[Calls[p].at], ![p].st = "done"]
                 /\ Shown(slots') = Shown(slots)
BY DEF Faulty!Apply, Shown, Calls

LEMMA FaultyAppendPastHoles ==
  ASSUME NEW p
  PROVE  Faulty!AppendPastHoles(p) <=>
           /\ Calls[p].st = "asked" /\ Calls[p].op = "append"
           /\ \E holes \in 1..faults :
                Shown(slots') = Shown(slots) \o [i \in 1..holes |-> Torn] \o <<Calls[p].val>>
           /\ Cardinality(Faulty!DamagedRows(Shown(slots'))) <= faults
           /\ Calls' = [Calls EXCEPT ![p].st = "done"]
BY SameCardinality DEF Faulty!AppendPastHoles, Shown, Calls

LEMMA FaultyLeftBehind ==
  ASSUME NEW p
  PROVE  Faulty!LeftBehind(p) <=>
           \/ Shown(slots') = Shown(slots)
           \/ /\ Calls[p].op = "update" /\ Calls[p].at \in DOMAIN Shown(slots)
              /\ \E content \in {Calls[p].val, Torn} :
                   Shown(slots') = [Shown(slots) EXCEPT ![Calls[p].at] = content]
           \/ /\ Calls[p].op = "append"
              /\ \E holes \in 1..faults' :
                   Shown(slots') = Shown(slots) \o [i \in 1..holes |-> Torn]
BY DEF Faulty!LeftBehind, Shown, Calls

LEMMA FaultyLose ==
  ASSUME NEW p
  PROVE  Faulty!Lose(p) <=>
           /\ Calls[p].st \in {"asked", "done"}
           /\ faults' = faults + 1
           /\ Faulty!LeftBehind(p)
           /\ Cardinality(Faulty!DamagedRows(Shown(slots'))) <= faults'
           /\ \E ended \in {NoCall, [Calls[p] EXCEPT !.st = "refused"]} :
                Calls' = [Calls EXCEPT ![p] = ended]
BY SameCardinality DEF Faulty!Lose, Shown, Calls, NoCall, Faulty!NoCall

LEMMA FaultyCrash ==
  Faulty!Crash <=> /\ faults' = faults + 1
                   /\ Calls' = [c \in Procs |-> NoCall]
                   /\ Shown(slots') = Shown(slots)
BY DEF Faulty!Crash, Shown, Calls, NoCall, Faulty!NoCall

LEMMA FewDamagedNext ==
  IInv' /\ mutex' = NoOne => Cardinality(Faulty!DamagedRows(Shown(slots'))) <= faults'
<1>1. (IInv /\ mutex = NoOne => Cardinality(Faulty!DamagedRows(Shown(slots))) <= faults)'
  BY FewDamaged, PTL
<1> QED
  BY <1>1 DEF Shown, Faulty!DamagedRows

LEMMA WriterTypes ==
  ASSUME TypeOK, NEW p \in Writers
  PROVE  /\ p \in Procs /\ p \notin Readers /\ (p \in Appenders <=> p \notin Updaters)
         /\ count \in Nat /\ slots \in Seq(Content) /\ Len(slots) \in Nat /\ faults \in Nat
         /\ pc \in [Procs -> WriterPCs \cup ReaderPCs]
         /\ pos \in [Procs -> Nat] /\ val \in [Procs -> Content \cup {Err}]
         /\ val[p] \in Payload /\ val[p] \in Content /\ pos[p] \in Nat
BY Roles DEF TypeOK, LabelsOK, Content

(* Writers: a call begins with Write or Add, takes effect when its record  *)
(* is written, and is lost to a fault.                                     *)
LEMMA WritersAreFaithful ==
  ASSUME Disciplined, IInv, IInv', NEW p \in Writers, WriterStep(p)
  PROVE  Faulty!FaultyNext \/ UNCHANGED Faulty!faultyVars
<1>s. p \in Procs /\ p \notin Readers /\ (p \in Appenders <=> p \notin Updaters)
  BY Roles
<1>f. /\ count \in Nat /\ slots \in Seq(Content) /\ Len(slots) \in Nat /\ faults \in Nat
      /\ pc \in [Procs -> WriterPCs \cup ReaderPCs]
      /\ pos \in [Procs -> Nat] /\ val \in [Procs -> Content \cup {Err}]
      /\ val[p] \in Payload /\ val[p] \in Content
  BY WriterTypes DEF IInv
<1>g. val'[p] \in Payload /\ pos'[p] \in Nat
  BY <1>s DEF IInv, TypeOK
<1>d. DOMAIN Shown(slots) = 1..Len(slots)
  BY <1>f, ShownSeq
<1>o. \A q \in Procs \ {p} : CallOf(q)' = CallOf(q)
  BY <1>s, OtherCalls
<1>c. /\ Calls[p] = CallOf(p) /\ Calls' = [Calls EXCEPT ![p] = CallOf(p)']
      /\ Calls'[p] = CallOf(p)'
      /\ CallOf(p)' = CallOf(p) => Calls' = Calls
      /\ \A st : CallOf(p)' = [CallOf(p) EXCEPT !.st = st] => Calls' = [Calls EXCEPT ![p].st = st]
  BY <1>s, <1>o, OneCallChanges DEF Calls
<1>w. \A st : /\ WriteCall(p, st).st = st /\ WriteCall(p, st).val = val[p]
              /\ p \in Updaters => WriteCall(p, st).op = "update" /\ WriteCall(p, st).at = pos[p] + 1
              /\ p \in Appenders => WriteCall(p, st).op = "append"
  BY <1>s DEF WriteCall
<1>u. \A c \in Procs : /\ Faulty!Step(c) /\ faults' = faults => Faulty!FaultyNext
                       /\ Faulty!AppendPastHoles(c) /\ faults' = faults => Faulty!FaultyNext
                       /\ Faulty!Lose(c) => Faulty!FaultyNext
  BY DEF Faulty!FaultyNext
<1> USE DEF Goto, shared, Leave
<1>1. CASE NewRow(p) \/ SetValue(p)
  <2>1. /\ pc[p] \in {"idle", "held"} /\ pc'[p] = "ready" /\ slots' = slots /\ faults' = faults
    BY <1>1, <1>s, <1>f DEF NewRow, SetValue
  <2>2. CallOf(p) = NoCall /\ CallOf(p)' = NoCall
    BY <1>s, <2>1, CallLabels, CallLabelsNext
  <2> QED
    BY <1>c, <2>1, <2>2, FaultyStutter
<1>2. CASE Lock(p) \/ TakeSlot(p) \/ AppendSlot(p) \/ Validate(p) \/ HdrSeek(p) \/ HdrWrite(p) \/ RowSeek(p)
  <2>1. /\ pc[p] \in Critical \cup {"lock"} /\ pc'[p] \in Critical \cup {"lock"}
        /\ UNCHANGED <<slots, pos, val, faults>>
    BY <1>2, <1>s, <1>f
       DEF Lock, TakeSlot, AppendSlot, Validate, HdrSeek, HdrWrite, RowSeek, Critical
  <2>2. CallOf(p) = WriteCall(p, "asked") /\ CallOf(p)' = WriteCall(p, "asked")'
    BY <1>s, <2>1, CallLabels, CallLabelsNext
  <2>3. CallOf(p)' = CallOf(p)
    BY <1>s, <2>1, <2>2, SameWriteCall
  <2> QED
    BY <1>c, <2>1, <2>3, FaultyStutter
<1>3. CASE Write(p) \/ Add(p)
  <2>1. /\ pc[p] = "ready" /\ pc'[p] = "lock" /\ slots' = slots /\ faults' = faults
        /\ p \in Updaters => pos'[p] = pos[p]
    BY <1>3, <1>s, <1>f DEF Write, Add
  <2>2. CallOf(p) = NoCall /\ CallOf(p)' = WriteCall(p, "asked")'
    BY <1>s, <2>1, CallLabels, CallLabelsNext
  <2>3. WriteCall(p, "asked")' \in Faulty!Requests
    <3>1. CASE p \in Appenders
      BY <3>1, <1>s, <1>g DEF WriteCall, Faulty!Requests
    <3>2. CASE p \in Updaters
      <4>1. pos[p] < InitRows /\ InitRows <= Len(slots) /\ pos'[p] = pos[p]
        BY <3>2, <2>1 DEF IInv, UpdaterInv, CountInv
      <4>2. pos'[p] + 1 \in DOMAIN slots
        BY <4>1, <1>f, <1>g, SizesAssumption
      <4> QED
        BY <3>2, <4>2, <1>s, <1>g DEF WriteCall, Faulty!Requests
    <3> QED
      BY <3>1, <3>2, <1>s, Roles
  <2>4. Faulty!Begin(p)
    <3>1. Calls[p] = NoCall /\ Calls'[p] \in Faulty!Requests
      BY <1>c, <2>2, <2>3
    <3>2. Calls' = [Calls EXCEPT ![p] = Calls'[p]] /\ Shown(slots') = Shown(slots)
      BY <1>c, <2>1
    <3> QED
      BY <3>1, <3>2, FaultyBegin
  <2> QED
    BY <1>s, <1>u, <2>1, <2>4 DEF Faulty!Step
<1>4. CASE TableFull(p) \/ FileTooLarge(p)
  <2>1. /\ pc[p] \in Critical /\ pc'[p] = "err" /\ UNCHANGED <<slots, pos, val, faults>>
    BY <1>4, <1>s, <1>f DEF TableFull, FileTooLarge, Critical
  <2>2. CallOf(p) = WriteCall(p, "asked") /\ CallOf(p)' = WriteCall(p, "refused")'
    BY <1>s, <2>1, CallLabels, CallLabelsNext
  <2>3. CallOf(p)' = [CallOf(p) EXCEPT !.st = "refused"]
    BY <1>s, <2>1, <2>2, SameWriteCall
  <2>4. Faulty!Refuse(p)
    <3>1. Calls[p].st = "asked" /\ Calls' = [Calls EXCEPT ![p].st = "refused"]
      BY <1>c, <1>w, <2>2, <2>3
    <3>2. Shown(slots') = Shown(slots)
      BY <2>1
    <3> QED
      BY <3>1, <3>2, FaultyRefuse
  <2> QED
    BY <1>s, <1>u, <2>1, <2>4 DEF Faulty!Step
<1>5. CASE RowWrite(p)
  <2>1. /\ pc[p] = "rowWrite" /\ pc'[p] = "ret" /\ UNCHANGED <<pos, val, faults>> /\ mutex' = NoOne
        /\ slots' = PutAt(slots, cursor, val[p])
    BY <1>5, <1>s, <1>f DEF RowWrite
  <2>2. CallOf(p) = WriteCall(p, "asked") /\ CallOf(p)' = WriteCall(p, "done")'
    BY <1>s, <2>1, CallLabels, CallLabelsNext DEF Critical
  <2>3. CallOf(p)' = [CallOf(p) EXCEPT !.st = "done"]
    BY <1>s, <2>1, <2>2, SameWriteCall
  <2>4. Calls[p].st = "asked" /\ Calls' = [Calls EXCEPT ![p].st = "done"]
    BY <1>c, <1>w, <2>2, <2>3
  <2>5. cursor \in Nat /\ val[p] # Zero
    BY <1>f, <2>1, RowSpot, Marks
  <2>p. /\ cursor < Len(slots) =>
             Shown(slots') = [Shown(slots) EXCEPT ![cursor + 1] = val[p]]
        /\ cursor = Len(slots) => Shown(slots') = Append(Shown(slots), val[p])
        /\ cursor > Len(slots) =>
             Shown(slots') = Shown(slots) \o [k \in 1..(cursor - Len(slots)) |-> Torn] \o <<val[p]>>
    <3>1. slots \in Seq(Content) /\ cursor \in Nat /\ val[p] \in Content /\ val[p] # Zero
      BY <1>f, <2>5
    <3>2. slots' = PutAt(slots, cursor, val[p])
      BY <2>1
    <3>3. cursor < Len(slots) =>
            Shown(PutAt(slots, cursor, val[p])) = [Shown(slots) EXCEPT ![cursor + 1] = val[p]]
      BY <3>1, ShownReplaced
    <3>4. /\ cursor = Len(slots) =>
               Shown(PutAt(slots, cursor, val[p])) = Append(Shown(slots), val[p])
          /\ cursor > Len(slots) =>
               Shown(PutAt(slots, cursor, val[p])) =
                 Shown(slots) \o [k \in 1..(cursor - Len(slots)) |-> Torn] \o <<val[p]>>
      BY <3>1, ShownAdded
    <3> QED
      BY <3>2, <3>3, <3>4
  <2>6. CASE p \in Updaters
    <3>1. cursor = pos[p] /\ cursor < Len(slots)
      BY <1>f, <2>1, <2>5, <2>6, RowSpot, SizesAssumption
    <3>2. Shown(slots') = [Shown(slots) EXCEPT ![pos[p] + 1] = val[p]]
      BY <2>p, <3>1
    <3>3. Calls[p].op = "update" /\ Calls[p].at = pos[p] + 1 /\ Calls[p].val = val[p]
      BY <1>c, <1>w, <2>2, <2>6
    <3>4. Calls[p].at \in DOMAIN Shown(slots)
      BY <1>f, <1>d, <2>5, <3>1, <3>3
    <3>5. Shown(slots') = [Shown(slots) EXCEPT ![Calls[p].at] = Calls[p].val]
      BY <3>2, <3>3, Zenon
    <3>6. Faulty!Apply(p)
      <4>1. /\ Calls[p].st = "asked" /\ Calls[p].op = "update"
            /\ Calls[p].at \in DOMAIN Shown(slots)
            /\ Shown(slots') = [Shown(slots) EXCEPT ![Calls[p].at] = Calls[p].val]
            /\ Calls' = [Calls EXCEPT ![p].st = "done"]
            => Faulty!Apply(p)
        BY FaultyApply, Zenon
      <4> QED
        BY <2>4, <3>3, <3>4, <3>5, <4>1
    <3> QED
      BY <1>s, <1>u, <2>1, <3>6 DEF Faulty!Step
  <2>7. CASE p \in Appenders
    <3>1. cursor = count - 1 /\ Len(slots) < count
      BY <2>1, <2>7, RowSpot
    <3>2. Calls[p].op = "append" /\ Calls[p].val = val[p]
      BY <1>c, <1>w, <2>2, <2>7
    <3>3. CASE cursor = Len(slots)
      <4>1. Shown(slots') = Append(Shown(slots), val[p])
        BY <2>p, <3>3
      <4>2. Faulty!Apply(p)
        BY <2>4, <3>2, <4>1, FaultyApply
      <4> QED
        BY <1>s, <1>u, <2>1, <4>2 DEF Faulty!Step
    <3>4. CASE cursor # Len(slots)
      <4>1. cursor > Len(slots) /\ cursor - Len(slots) \in 1..faults
        BY <1>f, <2>5, <3>1, <3>4, FewHoles
      <4>2. Shown(slots') = Shown(slots) \o [k \in 1..(cursor - Len(slots)) |-> Torn] \o <<val[p]>>
        BY <2>p, <4>1
      <4>3. Cardinality(Faulty!DamagedRows(Shown(slots'))) <= faults
        BY <2>1, FewDamagedNext
      <4>4. Faulty!AppendPastHoles(p)
        BY <2>4, <3>2, <4>1, <4>2, <4>3, FaultyAppendPastHoles
      <4> QED
        BY <1>s, <1>u, <2>1, <4>4
    <3> QED
      BY <3>3, <3>4
  <2> QED
    BY <2>6, <2>7, <1>s
<1>6. CASE HdrMisplaced(p) \/ WriteRefused(p)
  BY <1>6, NeverRefused DEF HdrMisplaced, WriteRefused, IInv, HandleInv
<1>7. CASE Return(p)
  <2>1. /\ pc[p] \in {"ret", "err"} /\ pc'[p] \in {"idle", "held"} /\ slots' = slots /\ faults' = faults
    BY <1>7, <1>s, <1>f DEF Return
  <2>2. CallOf(p).st \in {"done", "refused"} /\ CallOf(p)' = NoCall
    BY <1>s, <1>w, <2>1, CallLabels, CallLabelsNext
  <2>3. Faulty!Return(p)
    BY <1>c, <2>1, <2>2, FaultyReturn
  <2> QED
    BY <1>s, <1>u, <2>1, <2>3 DEF Faulty!Step
<1>8. CASE HdrFail(p) \/ RowFail(p)
  <2>1. /\ pc[p] \in Critical /\ pc'[p] = "err" /\ UNCHANGED <<pos, val>> /\ mutex' = NoOne
        /\ faults' = faults + 1
    BY <1>8, <1>s, <1>f DEF HdrFail, RowFail, Fault, Critical
  <2>2. CallOf(p) = WriteCall(p, "asked") /\ CallOf(p)' = WriteCall(p, "refused")'
    BY <1>s, <2>1, CallLabels, CallLabelsNext
  <2>3. CallOf(p)' = [CallOf(p) EXCEPT !.st = "refused"]
    BY <1>s, <2>1, <2>2, SameWriteCall
  <2>4. Calls[p].st = "asked" /\ Calls' = [Calls EXCEPT ![p] = [Calls[p] EXCEPT !.st = "refused"]]
    BY <1>c, <1>w, <2>2, <2>3
  <2>5. Cardinality(Faulty!DamagedRows(Shown(slots'))) <= faults'
    BY <2>1, FewDamagedNext
  <2>6. Faulty!LeftBehind(p)
    <3>1. CASE slots' = slots
      BY <3>1, FaultyLeftBehind
    <3>2. CASE slots' # slots
      <4>1. pc[p] = "rowWrite" /\ slots' = PutAt(slots, cursor, Torn) /\ Torn \in Content /\ Torn # Zero
        BY <1>8, <3>2, Marks DEF HdrFail, RowFail, Content
      <4>2. CASE p \in Updaters
        <5>1. cursor = pos[p] /\ cursor \in Nat /\ cursor < Len(slots)
          BY <1>f, <4>1, <4>2, RowSpot, SizesAssumption
        <5>2. Shown(slots') = [Shown(slots) EXCEPT ![pos[p] + 1] = Torn]
          <6>1. Shown(PutAt(slots, cursor, Torn)) = [Shown(slots) EXCEPT ![cursor + 1] = Torn]
            <7>1. slots \in Seq(Content) /\ cursor \in Nat /\ Torn \in Content /\ Torn # Zero
              BY <1>f, <4>1, <5>1
            <7> QED
              BY <5>1, <7>1, ShownReplaced
          <6> QED
            BY <4>1, <5>1, <6>1
        <5>3. Calls[p].op = "update" /\ Calls[p].at = pos[p] + 1
          BY <1>c, <1>w, <2>2, <4>2
        <5>4. Calls[p].at \in DOMAIN Shown(slots)
          BY <1>f, <1>d, <5>1, <5>3
        <5> QED
          BY <5>2, <5>3, <5>4, FaultyLeftBehind
      <4>3. CASE p \in Appenders
        <5>1. cursor = count - 1 /\ Len(slots) < count /\ cursor \in Nat
          BY <4>1, <4>3, RowSpot
        <5>2. cursor >= Len(slots) /\ cursor + 1 - Len(slots) \in 1..faults'
          BY <1>f, <2>1, <5>1, FewHoles
        <5>3. Shown(slots') = Shown(slots) \o [k \in 1..(cursor + 1 - Len(slots)) |-> Torn]
          BY <1>f, <4>1, <5>1, <5>2, ShownPut
        <5>4. Calls[p].op = "append"
          BY <1>c, <1>w, <2>2, <4>3
        <5> QED
          BY <5>2, <5>3, <5>4, FaultyLeftBehind
      <4> QED
        BY <4>2, <4>3, <1>s
    <3> QED
      BY <3>1, <3>2
  <2>7. Faulty!Lose(p)
    BY <2>1, <2>4, <2>5, <2>6, FaultyLose
  <2> QED
    BY <1>s, <1>u, <2>7
<1> QED
  BY <1>1, <1>2, <1>3, <1>4, <1>5, <1>6, <1>7, <1>8 DEF WriterStep, WriteSteps

LEMMA ReaderTypes ==
  ASSUME TypeOK, NEW p \in Readers
  PROVE  /\ p \in Procs /\ p \notin Writers
         /\ count \in Nat /\ slots \in Seq(Content) /\ Len(slots) \in Nat /\ ptr \in Nat
         /\ pc \in [Procs -> WriterPCs \cup ReaderPCs] /\ pos \in [Procs -> Nat]
         /\ val \in [Procs -> Content \cup {Err}] /\ tgt \in [Procs -> Int]
BY Roles DEF TypeOK, LabelsOK

(* What a reader finds at its offset is the row there, damage or nothing. *)
LEMMA WhatIsSeen ==
  ASSUME IInv, NEW p \in Readers, pc[p] = "read", NEW v \in Seen
  PROVE  /\ tgt[p] \in Nat
         /\ tgt[p] >= Len(slots) => v = Err
         /\ tgt[p] < Len(slots) => /\ tgt[p] + 1 \in 1..Len(slots)
                                   /\ \/ v # Err /\ v = Shown(slots)[tgt[p] + 1]
                                      \/ v = Err /\ Shown(slots)[tgt[p] + 1] = Torn
<1>f. slots \in Seq(Content) /\ Len(slots) \in Nat /\ ptr \in Nat
  BY ReaderTypes DEF IInv
<1>1. cursor = tgt[p] /\ tgt[p] \in Nat
  BY <1>f DEF IInv, ReadInv
<1>2. CASE tgt[p] >= Len(slots)
  BY <1>f, <1>1, <1>2 DEF Seen, InHeader, InRecord
<1>3. CASE tgt[p] < Len(slots)
  <2>1. tgt[p] + 1 \in 1..Len(slots) /\ cursor \in 0..(Len(slots) - 1)
    BY <1>f, <1>1, <1>3
  <2>2. slots[tgt[p] + 1] \in Payload \cup {Zero, Torn}
    BY <1>f, <2>1 DEF IInv, RowsInv, Content
  <2>3. Shown(slots)[tgt[p] + 1] = IF slots[tgt[p] + 1] = Zero THEN Torn ELSE slots[tgt[p] + 1]
    BY <1>f, <2>1, ShownSeq
  <2>4. Zero \notin Payload /\ Torn \notin Payload /\ Zero # Torn /\ Err \notin Payload /\ Torn # Err
    BY Marks
  <2>5. v \in CASE slots[cursor + 1] \in Payload -> {slots[cursor + 1]}
                [] slots[cursor + 1] = Torn       -> {Torn, Err}
                [] OTHER                          -> {Err}
    BY <2>1 DEF Seen
  <2>6. CASE slots[tgt[p] + 1] \in Payload
    BY <1>1, <2>1, <2>3, <2>4, <2>5, <2>6, <1>3
  <2>7. CASE slots[tgt[p] + 1] = Torn
    BY <1>1, <2>1, <2>3, <2>4, <2>5, <2>7, <1>3
  <2>8. CASE slots[tgt[p] + 1] = Zero
    BY <1>1, <2>1, <2>3, <2>4, <2>5, <2>8, <1>3
  <2> QED
    BY <2>2, <2>6, <2>7, <2>8
<1> QED
  BY <1>f, <1>1, <1>2, <1>3

LEMMA ReadAnswered ==
  ASSUME NEW a, NEW v
  PROVE  [ReadCall(a, None, "asked") EXCEPT !.val = v, !.st = "done"] = ReadCall(a, v, "done")
<1> DEFINE r == ReadCall(a, None, "asked")
<1>1. /\ r = [op |-> "read", at |-> a, val |-> None, st |-> "asked"]
      /\ ReadCall(a, v, "done") = [op |-> "read", at |-> a, val |-> v, st |-> "done"]
  BY DEF ReadCall
<1> HIDE DEF r
<1>2. [r EXCEPT !.val = v, !.st = "done"] = [[r EXCEPT !.val = v] EXCEPT !.st = "done"]
  BY <1>1
<1>3. [r EXCEPT !.val = v] = [op |-> "read", at |-> a, val |-> v, st |-> "asked"]
  BY <1>1
<1>4. [[op |-> "read", at |-> a, val |-> v, st |-> "asked"] EXCEPT !.st = "done"]
        = [op |-> "read", at |-> a, val |-> v, st |-> "done"]
  OBVIOUS
<1> QED
  BY <1>1, <1>2, <1>3, <1>4, Zenon DEF r

(* Readers: a call begins when the row pointer is found to be in range,    *)
(* takes effect when the record is read, and returns with Skip.            *)
LEMMA ReadersAreFaithful ==
  ASSUME Disciplined, IInv, NEW p \in Readers, ReaderStep(p)
  PROVE  Faulty!FaultyNext \/ UNCHANGED Faulty!faultyVars
<1>f. /\ p \in Procs /\ p \notin Writers
      /\ count \in Nat /\ slots \in Seq(Content) /\ Len(slots) \in Nat /\ ptr \in Nat
      /\ pc \in [Procs -> WriterPCs \cup ReaderPCs] /\ pos \in [Procs -> Nat]
      /\ val \in [Procs -> Content \cup {Err}] /\ tgt \in [Procs -> Int]
  BY ReaderTypes DEF IInv
<1>d. DOMAIN Shown(slots) = 1..Len(slots)
  BY <1>f, ShownSeq
<1>o. \A q \in Procs \ {p} : CallOf(q)' = CallOf(q)
  BY <1>f, OtherCalls
<1>c. /\ Calls[p] = CallOf(p) /\ Calls' = [Calls EXCEPT ![p] = CallOf(p)']
      /\ Calls'[p] = CallOf(p)'
      /\ CallOf(p)' = CallOf(p) => Calls' = Calls
  BY <1>f, <1>o, OneCallChanges DEF Calls
<1>r. \A a, v, st : /\ ReadCall(a, v, st).op = "read" /\ ReadCall(a, v, st).at = a
                    /\ ReadCall(a, v, st).st = st
  BY DEF ReadCall
<1>u. \A c \in Procs : /\ Faulty!Step(c) /\ faults' = faults => Faulty!FaultyNext
                       /\ Faulty!ReadFails(c) /\ faults' = faults => Faulty!FaultyNext
  BY DEF Faulty!FaultyNext
<1>n. slots' = slots /\ faults' = faults
  BY DEF ReaderStep, ReadSteps, NextBegin, GoTo, CheckBounds, OutOfRange, ReadSeek, ReadRecord,
         MakeRow, SkipBegin, SkipEnd, shared
<1>v. ASSUME CallOf(p)' = CallOf(p) PROVE UNCHANGED Faulty!faultyVars
  BY <1>c, <1>n, <1>v, FaultyStutter
<1> USE DEF Goto, shared
<1>1. CASE NextBegin(p) \/ GoTo(p)
  <2>1. pc[p] = "idle" /\ pc'[p] \in {"idle", "check"}
    BY <1>1, <1>f DEF NextBegin, GoTo
  <2> QED
    BY <1>f, <1>v, <2>1, CallLabels, CallLabelsNext
<1>2. CASE CheckBounds(p)
  <2>1. pc[p] = "check" /\ pc'[p] = "readSeek" /\ tgt' = tgt /\ tgt[p] \in Nat
    BY <1>2, <1>f DEF CheckBounds, IInv, ReadInv
  <2>2. /\ CallOf(p) = NoCall
        /\ CallOf(p)' = IF tgt[p] < Len(slots) THEN ReadCall(tgt[p] + 1, None, "asked") ELSE NoCall
    BY <1>f, <1>n, <2>1, CallLabels, CallLabelsNext
  <2>3. CASE tgt[p] < Len(slots)
    <3>1. CallOf(p)' = ReadCall(tgt[p] + 1, None, "asked") /\ tgt[p] + 1 \in DOMAIN slots
      BY <1>f, <2>1, <2>2, <2>3
    <3>2. CallOf(p)' \in Faulty!Requests
      BY <3>1 DEF ReadCall, Faulty!Requests
    <3>3. Faulty!Begin(p)
      <4>1. Calls[p] = NoCall /\ Calls'[p] \in Faulty!Requests
        BY <1>c, <2>2, <3>2
      <4>2. Calls' = [Calls EXCEPT ![p] = Calls'[p]] /\ Shown(slots') = Shown(slots)
        BY <1>c, <1>n
      <4> QED
        BY <4>1, <4>2, FaultyBegin
    <3> QED
      BY <1>f, <1>n, <1>u, <3>3 DEF Faulty!Step
  <2>4. CASE ~(tgt[p] < Len(slots))
    BY <1>v, <2>2, <2>4
  <2> QED
    BY <2>3, <2>4
<1>3. CASE OutOfRange(p)
  <2>1. pc[p] = "check" /\ pc'[p] = "skip" /\ val'[p] = Err
    BY <1>3, <1>f DEF OutOfRange
  <2> QED
    BY <1>f, <1>v, <2>1, CallLabels, CallLabelsNext
<1>4. CASE ReadSeek(p)
  <2>1. pc[p] = "readSeek" /\ pc'[p] = "read" /\ tgt' = tgt
    BY <1>4, <1>f DEF ReadSeek
  <2> QED
    BY <1>f, <1>n, <1>v, <2>1, CallLabels, CallLabelsNext
<1>5. CASE ReadRecord(p)
  <2>1. pc[p] = "read" /\ pc'[p] = "row" /\ tgt' = tgt
    BY <1>5, <1>f DEF ReadRecord
  <2>2. PICK v \in Seen : val' = [val EXCEPT ![p] = v]
    BY <1>5 DEF ReadRecord
  <2>3. /\ CallOf(p) = IF tgt[p] < Len(slots) THEN ReadCall(tgt[p] + 1, None, "asked") ELSE NoCall
        /\ CallOf(p)' = IF v # Err THEN ReadCall(tgt[p] + 1, v, "done") ELSE NoCall
    BY <1>f, <2>1, <2>2, CallLabels, CallLabelsNext
  <2>4. CASE ~(tgt[p] < Len(slots))
    <3>1. v = Err
      BY <1>f, <2>1, <2>4, WhatIsSeen
    <3> QED
      BY <1>v, <2>3, <2>4, <3>1
  <2>5. CASE tgt[p] < Len(slots)
    <3>1. /\ tgt[p] + 1 \in 1..Len(slots)
          /\ \/ v # Err /\ v = Shown(slots)[tgt[p] + 1]
             \/ v = Err /\ Shown(slots)[tgt[p] + 1] = Torn
      BY <2>1, <2>5, WhatIsSeen
    <3>2. /\ Calls[p] = ReadCall(tgt[p] + 1, None, "asked")
          /\ Calls[p].op = "read" /\ Calls[p].st = "asked" /\ Calls[p].at = tgt[p] + 1
          /\ Calls[p].at \in DOMAIN Shown(slots)
      BY <1>c, <1>d, <1>r, <2>3, <2>5, <3>1
    <3>3. CASE v # Err
      <4>1. v = Shown(slots)[Calls[p].at]
        BY <3>1, <3>2, <3>3
      <4>2. Calls' = [Calls EXCEPT ![p] = [Calls[p] EXCEPT !.val = v, !.st = "done"]]
        <5>1. CallOf(p)' = [Calls[p] EXCEPT !.val = v, !.st = "done"]
          <6>1. CallOf(p)' = ReadCall(tgt[p] + 1, v, "done")
            BY <2>3, <3>3
          <6>2. [ReadCall(tgt[p] + 1, None, "asked") EXCEPT !.val = v, !.st = "done"]
                  = ReadCall(tgt[p] + 1, v, "done")
            BY ReadAnswered, Zenon
          <6> QED
            BY <3>2, <6>1, <6>2, Zenon
        <5> QED
          BY <1>c, <5>1
      <4>3. Calls' = [Calls EXCEPT ![p].val = v, ![p].st = "done"]
        BY <1>f, <4>2 DEF Calls
      <4>4. Faulty!Apply(p)
        BY <1>n, <3>2, <4>1, <4>3, FaultyApply
      <4> QED
        BY <1>f, <1>n, <1>u, <4>4 DEF Faulty!Step
    <3>4. CASE v = Err
      <4>1. Shown(slots)[Calls[p].at] = Torn
        BY <3>1, <3>2, <3>4
      <4>2. Calls[p].at \in Faulty!DamagedRows(Shown(slots))
        BY <3>2, <4>1 DEF Faulty!DamagedRows
      <4>3. Calls' = [Calls EXCEPT ![p] = NoCall]
        BY <1>c, <2>3, <3>4
      <4>4. Faulty!ReadFails(p)
        BY <1>n, <3>2, <4>2, <4>3, FaultyReadFails
      <4> QED
        BY <1>f, <1>n, <1>u, <4>4
    <3> QED
      BY <3>3, <3>4
  <2> QED
    BY <2>4, <2>5
<1>6. CASE MakeRow(p)
  <2>1. pc[p] = "row" /\ pc'[p] = "skip" /\ val' = val
    BY <1>6, <1>f DEF MakeRow
  <2>2. val[p] # Err => pos'[p] = tgt[p]
    BY <1>6, <1>f DEF MakeRow, RowPosition, IInv, ReadInv
  <2> QED
    BY <1>f, <1>v, <2>1, <2>2, CallLabels, CallLabelsNext
<1>7. CASE SkipBegin(p)
  <2>1. pc[p] = "skip" /\ pc'[p] = "store" /\ val' = val /\ pos' = pos
    BY <1>7, <1>f DEF SkipBegin
  <2> QED
    BY <1>f, <1>v, <2>1, CallLabels, CallLabelsNext
<1>8. CASE SkipEnd(p)
  <2>1. pc[p] = "store" /\ pc'[p] = "idle"
    BY <1>8, <1>f DEF SkipEnd
  <2>2. /\ CallOf(p) = IF val[p] # Err THEN ReadCall(pos[p] + 1, val[p], "done") ELSE NoCall
        /\ CallOf(p)' = NoCall
    BY <1>f, <2>1, CallLabels, CallLabelsNext
  <2>3. CASE val[p] # Err
    <3>1. Calls[p].st = "done" /\ Calls' = [Calls EXCEPT ![p] = NoCall]
      BY <1>c, <1>r, <2>2, <2>3
    <3>2. Faulty!Return(p)
      BY <1>n, <3>1, FaultyReturn
    <3> QED
      BY <1>f, <1>n, <1>u, <3>2 DEF Faulty!Step
  <2>4. CASE val[p] = Err
    BY <1>v, <2>2, <2>4
  <2> QED
    BY <2>3, <2>4
<1> QED
  BY <1>1, <1>2, <1>3, <1>4, <1>5, <1>6, <1>7, <1>8 DEF ReaderStep, ReadSteps

LEMMA CrashIsFaithful == ASSUME TypeOK, Crash PROVE Faulty!FaultyNext
<1>1. \A p \in Procs : pc'[p] \in {"idle", "held"}
  BY DEF Crash, AtRest
<1>2. Calls' = [c \in Procs |-> NoCall]
  BY <1>1, CallLabelsNext DEF Calls
<1>3. faults' = faults + 1 /\ slots' = slots
  BY DEF Crash, Fault
<1> QED
  BY <1>2, <1>3, FaultyCrash DEF Faulty!FaultyNext

LEMMA StutterIsFaithful == ASSUME UNCHANGED vars PROVE UNCHANGED Faulty!faultyVars
<1>1. \A p \in Procs : CallOf(p)' = CallOf(p)
  BY DEF vars, local, shared, CallOf, WriteCall, ReadCall, NoCall, None
<1>2. Calls' = Calls /\ slots' = slots /\ faults' = faults
  BY <1>1 DEF Calls, vars, shared
<1> QED
  BY <1>2, FaultyStutter

LEMMA NextFaulty ==
  ASSUME Disciplined, IInv, IInv', [Next]_vars
  PROVE  [Faulty!FaultyNext]_(Faulty!faultyVars)
<1>1. ASSUME NEW p \in Writers, WriterStep(p)
      PROVE  Faulty!FaultyNext \/ UNCHANGED Faulty!faultyVars
  BY <1>1, WritersAreFaithful
<1>2. ASSUME NEW p \in Readers, ReaderStep(p)
      PROVE  Faulty!FaultyNext \/ UNCHANGED Faulty!faultyVars
  BY <1>2, ReadersAreFaithful
<1>3. CASE Crash
  BY <1>3, CrashIsFaithful DEF IInv
<1>4. CASE UNCHANGED vars
  BY <1>4, StutterIsFaithful
<1> QED
  BY <1>1, <1>2, <1>3, <1>4 DEF Next, WriterStep, ReaderStep

LEMMA InitFaulty == ASSUME Init PROVE Faulty!FaultyInit
<1>1. \A p \in Procs : pc[p] \in {"idle", "held"}
  BY DEF Init, AtRest
<1>2. Calls = [c \in Procs |-> NoCall]
  BY <1>1, CallLabels DEF Calls
<1>3. slots = FirstRows /\ faults = 0
  BY DEF Init
<1>4. Shown(FirstRows) = FirstRows
  <2>1. \A i \in 1..InitRows : FirstRows[i] # Zero
    BY SizesAssumption, Marks DEF FirstRows, Payload
  <2>2. DOMAIN FirstRows = 1..InitRows
    BY DEF FirstRows
  <2> QED
    BY <2>1, <2>2 DEF Shown, FirstRows
<1> QED
  BY <1>2, <1>3, <1>4 DEF Faulty!FaultyInit, Faulty!Init, Shown, Calls, NoCall, Faulty!NoCall

(* I/O errors, torn records and crashes cost the rows under way, at most   *)
(* one each, and leave every other row and every call that has returned as *)
(* they were: the disciplined programs implement FaultyStore, whatever the *)
(* number of goroutines, rows, calls and faults.                           *)
THEOREM RefinementUnderFaults == ASSUME Disciplined PROVE Spec => RefinesFaulty
<1>1. Init => Faulty!FaultyInit
  BY InitFaulty
<1>2. IInv /\ IInv' /\ [Next]_vars => [Faulty!FaultyNext]_(Faulty!faultyVars)
  BY NextFaulty
<1> QED
  BY <1>1, <1>2, Invariance, PTL DEF Spec, RefinesFaulty, Faulty!FaultySpec

(***************************************************************************)
(* The refinement, without faults: FaultyStore without faults is RowStore. *)
(***************************************************************************)
LEMMA NoDamage ==
  ASSUME IInv, ExactInv, MaxFaults = 0
  PROVE  Shown(slots) = slots /\ \A i \in DOMAIN slots : slots[i] # Torn
<1>f. /\ count \in Nat /\ slots \in Seq(Content) /\ Len(slots) \in Nat /\ faults = 0
      /\ IsFiniteSet(Missing) /\ Cardinality(Missing) \in Nat
  BY MissingFinite DEF IInv, TypeOK
<1>1. \A i \in 1..Len(slots) : slots[i] \notin {Zero, Torn}
  <2> SUFFICES ASSUME NEW i \in 1..Len(slots), slots[i] \in {Zero, Torn} PROVE FALSE
    OBVIOUS
  <2>1. i \in Missing
    BY <1>f DEF IInv, CountInv, Missing, TypeOK
  <2>2. Cardinality({i}) <= Cardinality(Missing) /\ Cardinality({i}) = 1
    BY <1>f, <2>1, FS_Subset, FS_Singleton
  <2>3. CASE Adding
    <3>1. Cardinality(Missing) <= 1
      BY <1>f, <2>3 DEF IInv, DamageInv
    <3>2. count \in Missing /\ count # i
      BY <1>f, <2>3 DEF ExactInv, Missing
    <3>3. {i} \cup {count} \in SUBSET Missing
      BY <2>1, <3>2
    <3>4. Cardinality({i} \cup {count}) = 2
      <4> DEFINE S == {i}
      <4>1. IsFiniteSet(S) /\ count \notin S /\ Cardinality(S) = 1
        BY <3>2, FS_Singleton
      <4> HIDE DEF S
      <4>2. Cardinality(S \cup {count}) = 2
        BY <4>1, FS_AddElement
      <4> QED
        BY <4>2 DEF S
    <3> QED
      BY <1>f, <3>1, <3>3, <3>4, FS_Subset
  <2>4. CASE ~Adding
    BY <1>f, <2>2, <2>4 DEF IInv, DamageInv
  <2> QED
    BY <2>3, <2>4
<1> QED
  BY <1>f, <1>1 DEF Shown

LEMMA StoreApply ==
  ASSUME NEW p
  PROVE  Store!Apply(p) <=>
           /\ Calls[p].st = "asked"
           /\ \/ /\ Calls[p].op = "append"
                 /\ slots' = Append(slots, Calls[p].val)
                 /\ Calls' = [Calls EXCEPT ![p].st = "done"]
              \/ /\ Calls[p].op = "update"
                 /\ Calls[p].at \in DOMAIN slots
                 /\ slots' = [slots EXCEPT ![Calls[p].at] = Calls[p].val]
                 /\ Calls' = [Calls EXCEPT ![p].st = "done"]
              \/ /\ Calls[p].op = "read"
                 /\ Calls[p].at \in DOMAIN slots
                 /\ Calls' = [Calls EXCEPT ![p].val = slots[Calls[p].at], ![p].st = "done"]
                 /\ slots' = slots
BY DEF Store!Apply, Calls

LEMMA NextRefines ==
  ASSUME Disciplined, MaxFaults = 0, IInv, IInv', [Next]_vars,
         Shown(slots) = slots, Shown(slots') = slots', \A i \in DOMAIN slots : slots[i] # Torn
  PROVE  [Store!Next]_(Store!vars)
<1>1. faults = 0 /\ faults' = 0 /\ slots \in Seq(Content)
  BY DEF IInv, TypeOK
<1>2. CASE UNCHANGED Faulty!faultyVars
  BY <1>2 DEF Faulty!faultyVars, Faulty!vars, Store!vars, Shown
<1>3. ASSUME NEW c \in Procs, Faulty!Step(c) PROVE Store!Next
  <2> USE DEF Store!Next, Store!Step
  <2>1. CASE Faulty!Begin(c)
    <3>1. Calls[c] = NoCall /\ Calls'[c] \in Faulty!Requests
          /\ Calls' = [Calls EXCEPT ![c] = Calls'[c]] /\ slots' = slots
      BY <2>1, FaultyBegin
    <3>2. Calls'[c] \in Store!Requests
      BY <3>1 DEF Faulty!Requests, Store!Requests, Shown
    <3> QED
      BY <3>1, <3>2 DEF Store!Begin, Calls, NoCall, Store!NoCall
  <2>2. CASE Faulty!Apply(c)
    BY <2>2, FaultyApply, StoreApply
  <2>3. CASE Faulty!Refuse(c)
    BY <2>3, FaultyRefuse DEF Store!Refuse, Calls
  <2>4. CASE Faulty!Return(c)
    BY <2>4, FaultyReturn DEF Store!Return, Calls, NoCall, Store!NoCall
  <2> QED
    BY <1>3, <2>1, <2>2, <2>3, <2>4 DEF Faulty!Step
<1>4. ASSUME NEW c \in Procs, Faulty!AppendPastHoles(c) PROVE FALSE
  BY <1>1, <1>4, FaultyAppendPastHoles
<1>5. ASSUME NEW c \in Procs, Faulty!ReadFails(c) PROVE FALSE
  <2>1. Calls[c].at \in DOMAIN slots /\ slots[Calls[c].at] = Torn
    BY <1>5, FaultyReadFails DEF Faulty!DamagedRows
  <2> QED
    BY <2>1
<1>6. ASSUME NEW c \in Procs, Faulty!Lose(c) PROVE FALSE
  BY <1>1, <1>6, FaultyLose
<1>7. ~Faulty!Crash
  BY <1>1, FaultyCrash
<1> QED
  BY <1>2, <1>3, <1>4, <1>5, <1>6, <1>7, NextFaulty DEF Faulty!FaultyNext

LEMMA InitRefines == ASSUME Init PROVE Store!Init
<1>1. \A p \in Procs : pc[p] \in {"idle", "held"}
  BY DEF Init, AtRest
<1>2. Calls = [c \in Procs |-> NoCall]
  BY <1>1, CallLabels DEF Calls
<1> QED
  BY <1>2 DEF Init, Store!Init, Calls, NoCall, Store!NoCall

(* The code implements the sequence of rows, one call at a time: when      *)
(* nothing fails, every Add, Write, Next and refusal of a disciplined      *)
(* program happens in one step between its call and its return.            *)
THEOREM Refinement ==
  ASSUME Disciplined, MaxFaults = 0 PROVE Spec => RefinesStore
<1>1. Init => Store!Init
  BY InitRefines
<1> DEFINE Whole == Shown(slots) = slots /\ \A i \in DOMAIN slots : slots[i] # Torn
<1>2. IInv /\ ExactInv => Whole
  BY NoDamage
<1>3. IInv /\ IInv' /\ Whole /\ Whole' /\ [Next]_vars => [Store!Next]_(Store!vars)
  BY NextRefines DEF Shown
<1> HIDE DEF Whole
<1>4. Spec => []ExactInv
  BY InitExact, NextExact, Invariance, PTL DEF Spec
<1> QED
  BY <1>1, <1>2, <1>3, <1>4, Invariance, PTL DEF Spec, RefinesStore, Store!Spec
=============================================================================
