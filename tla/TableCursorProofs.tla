------------------------- MODULE TableCursorProofs -------------------------
(* Theorems about TableCursor for every table, every width of its column   *)
(* and every program of one goroutine.                                     *)
EXTENDS TableCursor, SequenceTheorems, TLAPS

(***************************************************************************)
(* Types.                                                                  *)
(***************************************************************************)

(* No pointer that stays in the table wraps around. *)
LEMMA NoWrap ==
  ASSUME NEW n \in Nat, n < Word
  PROVE  Wrap(n) = n
BY CursorAssumption DEF Wrap

(* Skip stores a uint32, whatever the offset. *)
LEMMA WrapType ==
  ASSUME NEW n \in Int
  PROVE  Wrap(n) \in 0..(Word - 1)
BY CursorAssumption DEF Wrap

(* The row read from a record is a row object. *)
LEMMA RowAtType ==
  ASSUME TypeOK, NEW k \in 0..(RowsCount - 1)
  PROVE  RowAt(k) \in Objects
<1>1. rows[k + 1] \in Records
  BY DEF TypeOK, RowsCount
<1>2. k \in 0..(Word - 1)
  BY CursorAssumption DEF TypeOK, RowsCount
<1> QED
  BY <1>1, <1>2 DEF RowAt, RowPosition, Objects, Records

(* A row that can be read is in the table. *)
LEMMA ReadableInTable ==
  ASSUME NEW k \in Nat, TypeOK, Readable(k)
  PROVE  k \in 0..(RowsCount - 1) /\ k \in Valid
BY DEF Readable, Valid, RowsCount, TypeOK

(* Add makes the table longer by one record, which has its number; the     *)
(* records before it stay, a missing one as a hole.                        *)
LEMMA AddResult ==
  ASSUME TypeOK, NEW text \in Texts, Add(text)
  PROVE  /\ rows' \in Seq(Records)
         /\ Len(rows') = RowsCount + 1
         /\ rows'[RowsCount + 1].id = RowsCount
         /\ \A i \in 1..RowsCount : rows'[i].id \in {i - 1, rows[i].id}
<1> DEFINE new == [mark |-> "active", text |-> text, id |-> RowsCount]
           old == [i \in 1..RowsCount |-> IF rows[i].mark = "missing"
                                            THEN Hole(i - 1, "hole") ELSE rows[i]]
<1>1. RowsCount \in 0..(MaxRows - 1)
  BY CursorAssumption DEF Add, TypeOK, RowsCount
<1>2. new \in Records /\ new.id = RowsCount
  BY <1>1, CursorAssumption DEF Records, Marks
<1>3. ASSUME NEW i \in 1..RowsCount
      PROVE  old[i] \in Records /\ old[i].id \in {i - 1, rows[i].id}
  <2>1. rows[i] \in Records
    BY DEF TypeOK, RowsCount
  <2>2. Hole(i - 1, "hole") \in Records /\ Hole(i - 1, "hole").id = i - 1
    BY <1>1, CursorAssumption DEF Hole, Records
  <2> QED
    BY <2>1, <2>2
<1>4. old \in [1..RowsCount -> Records]
  BY <1>3
<1>5. rows' = Append(old, new)
  BY DEF Add
<1> HIDE DEF old, new
<1>6. old \in Seq(Records) /\ Len(old) = RowsCount
  BY <1>1, <1>4
<1>7. /\ rows' \in Seq(Records) /\ Len(rows') = RowsCount + 1
      /\ rows'[RowsCount + 1] = new /\ \A i \in 1..RowsCount : rows'[i] = old[i]
  BY <1>2, <1>5, <1>6
<1> QED
  BY <1>2, <1>3, <1>7

LEMMA TypeInit == Init => TypeOK
<1> SUFFICES ASSUME Init PROVE TypeOK
  OBVIOUS
<1>1. rows \in Seq(Records) /\ RowsCount <= MaxRows
  <2>1. rows \in [1..InitRows -> Records]
    BY DEF Init
  <2>2. Len(rows) = InitRows /\ rows \in Seq(Records)
    BY <2>1, CursorAssumption
  <2> QED
    BY <2>2, CursorAssumption DEF RowsCount
<1>2. found \in Seq(Objects)
  BY DEF Init
<1> QED
  BY <1>1, <1>2, CursorAssumption DEF Init, TypeOK

LEMMA TypeNext == TypeOK /\ [Next]_vars => TypeOK'
<1> SUFFICES ASSUME TypeOK, [Next]_vars PROVE TypeOK'
  OBVIOUS
<1> USE CursorAssumption
<1>1. RowsCount \in 0..MaxRows
  BY DEF TypeOK, RowsCount
<1>2. ASSUME NEW n \in 0..(MaxRows + 1), GoTo(n) PROVE TypeOK'
  BY <1>1, <1>2 DEF GoTo, TypeOK, RowsCount
<1>3. ASSUME NEW offset \in Offsets, Skip(offset) PROVE TypeOK'
  <2>1. ptr' \in 0..(Word - 1)
    BY <1>3, WrapType DEF Skip, Skipped, TypeOK
  <2> QED
    BY <1>3, <2>1 DEF Skip, TypeOK, RowsCount
<1>4. CASE Row
  <2>1. RowAt(ptr) \in Objects
    BY <1>4, RowAtType, ReadableInTable DEF Row, TypeOK
  <2> QED
    BY <1>4, <2>1 DEF Row, TypeOK, RowsCount
<1>5. AfterNext \in 0..(Word - 1)
  <2>1. ptr + 1 \in Int
    BY DEF TypeOK
  <2> QED
    BY <2>1, WrapType DEF AfterNext
<1>6. CASE NextRow
  <2>1. Readable(ptr) => RowAt(ptr) \in Objects
    BY RowAtType, ReadableInTable DEF TypeOK
  <2> QED
    BY <1>5, <1>6, <2>1 DEF NextRow, TypeOK, RowsCount
<1>7. ASSUME NEW skipInvalid \in BOOLEAN, NEW skipDeleted \in BOOLEAN,
             RowsCall(skipInvalid, skipDeleted)
      PROVE  TypeOK'
  <2>1. call' \in Loops
    BY <1>7 DEF RowsCall, Loops, TypeOK
  <2> QED
    BY <1>7, <2>1 DEF RowsCall, TypeOK, RowsCount
<1>8. ASSUME NEW needle \in Needles, NEW exact \in BOOLEAN, SearchCall(needle, exact)
      PROVE  TypeOK'
  <2>1. call' \in Loops
    BY <1>8 DEF SearchCall, Loops
  <2> QED
    BY <1>8, <2>1 DEF SearchCall, TypeOK, RowsCount
<1>9. CASE RowsRead
  <2>1. RowAt(ptr) \in Objects
    BY <1>9, RowAtType, ReadableInTable DEF RowsRead, TypeOK
  <2>2. found' \in Seq(Objects)
    BY <1>9, <2>1 DEF RowsRead, TypeOK
  <2> QED
    BY <1>5, <1>9, <2>2 DEF RowsRead, TypeOK, RowsCount
<1>10. CASE RowsInvalid
  <2>1. call' \in Loops \cup {NoCall}
    BY <1>10 DEF RowsInvalid, InLoop, EndLoop, Loops, NoCall, TypeOK
  <2> QED
    BY <1>5, <1>10, <2>1 DEF RowsInvalid, TypeOK, RowsCount
<1>11. CASE RowsEnd
  <2>1. call' \in Loops \cup {NoCall}
    BY <1>11 DEF RowsEnd, InLoop, EndLoop, Loops, NoCall, TypeOK
  <2> QED
    BY <1>11, <2>1 DEF RowsEnd, TypeOK, RowsCount
<1>12. CASE SearchMiss
  BY <1>1, <1>12 DEF SearchMiss, TypeOK, RowsCount
<1>13. CASE SearchHit
  <2>1. at \in 0..(RowsCount - 1)
    BY <1>1, <1>13 DEF SearchHit, TypeOK
  <2>2. found' \in Seq(Objects)
    BY <1>13, <2>1, RowAtType DEF SearchHit, TypeOK
  <2> QED
    BY <1>1, <1>13, <2>1, <2>2 DEF SearchHit, TypeOK, RowsCount
<1>14. CASE SearchEnd
  <2>1. call' \in Loops \cup {NoCall}
    BY <1>14 DEF SearchEnd, InLoop, EndLoop, Loops, NoCall, TypeOK
  <2> QED
    BY <1>14, <2>1 DEF SearchEnd, TypeOK, RowsCount
<1>15. CASE Return
  <2>1. held' \in Objects \cup {Nil}
    BY <1>15 DEF Return, ToSet, TypeOK
  <2> QED
    BY <1>15, <2>1 DEF Return, TypeOK, RowsCount
<1>16. ASSUME NEW text \in Texts, NEW deleted \in BOOLEAN, Write(text, deleted)
       PROVE  TypeOK'
  <2>1. held \in Objects
    BY <1>16 DEF Write, TypeOK
  <2>2. held' \in Objects
    <3>1. held' = [held EXCEPT !.text = text, !.deleted = deleted]
      BY <1>16 DEF Write
    <3> QED
      BY <2>1, <3>1 DEF Objects
  <2>3. [mark |-> Mark(deleted), text |-> text, id |-> held.id] \in Records
    BY <2>1 DEF Mark, Marks, Records, Objects
  <2>4. rows' \in Seq(Records) /\ Len(rows') = Len(rows)
    <3> DEFINE new == [mark |-> Mark(deleted), text |-> text, id |-> held.id]
               n == held.pos + 1
    <3>1. n \in 1..Len(rows) /\ rows \in Seq(Records)
      BY <1>16, <2>1, SMTT(30) DEF Write, RowsCount, Objects, TypeOK
    <3>2. new \in Records
      BY <2>3
    <3>3. rows' = [rows EXCEPT ![n] = new]
      BY <1>16 DEF Write
    <3> HIDE DEF new, n
    <3> QED
      BY <3>1, <3>2, <3>3
  <2> QED
    BY <1>16, <2>2, <2>4 DEF Write, TypeOK, RowsCount
<1>17. ASSUME NEW text \in Texts, Add(text)
       PROVE  TypeOK'
  BY <1>1, <1>17, AddResult DEF Add, TypeOK, RowsCount
<1>18. CASE UNCHANGED vars
  BY <1>18 DEF vars, TypeOK, RowsCount
<1> QED
  BY <1>2, <1>3, <1>4, <1>6, <1>7, <1>8, <1>9, <1>10, <1>11, <1>12, <1>13, <1>14,
     <1>15, <1>16, <1>17, <1>18 DEF Next, LoopStep

(* Every variable keeps its type; GoTo, Skip and the loops keep the row    *)
(* pointer a uint32 and the loop variable of Search in the table.          *)
THEOREM TypeCorrect == Spec => []TypeOK
<1>1. Init => TypeOK
  BY TypeInit
<1>2. TypeOK /\ [Next]_vars => TypeOK'
  BY TypeNext
<1> QED
  BY <1>1, <1>2, PTL DEF Spec

(***************************************************************************)
(* Every record keeps its row.                                             *)
(***************************************************************************)

(* A row that was read knows its place. *)
LEMMA RowAtHome ==
  ASSUME TypeOK, HomeInv, NEW k \in 0..(RowsCount - 1)
  PROVE  RowAt(k).id = RowAt(k).pos
<1>1. k + 1 \in 1..RowsCount /\ k + 1 - 1 = k
  BY DEF TypeOK, RowsCount
<1>2. rows[k + 1].id = k
  BY <1>1 DEF HomeInv, RowsAtHome
<1> QED
  BY <1>2 DEF RowAt, RowPosition

LEMMA HomeNext == TypeOK /\ HomeInv /\ [Next]_vars => HomeInv'
<1> SUFFICES ASSUME TypeOK, HomeInv, [Next]_vars PROVE HomeInv'
  OBVIOUS
<1>1. RowsCount \in Nat /\ ptr \in Nat /\ at \in Nat /\ found \in Seq(Objects)
  BY DEF TypeOK, RowsCount
<1>2. ASSUME NEW n \in 0..(MaxRows + 1), GoTo(n) PROVE HomeInv'
  BY <1>2 DEF GoTo, HomeInv, RowsAtHome, RowsCount
<1>3. ASSUME NEW offset \in Offsets, Skip(offset) PROVE HomeInv'
  BY <1>3 DEF Skip, HomeInv, RowsAtHome, RowsCount
<1>4. CASE Row
  <2>1. RowAt(ptr).id = RowAt(ptr).pos
    BY <1>1, <1>4, RowAtHome, ReadableInTable DEF Row
  <2> QED
    BY <1>4, <2>1 DEF Row, HomeInv, RowsAtHome, RowsCount
<1>5. CASE NextRow
  <2>1. Readable(ptr) => RowAt(ptr).id = RowAt(ptr).pos
    BY <1>1, RowAtHome, ReadableInTable
  <2> QED
    BY <1>5, <2>1 DEF NextRow, HomeInv, RowsAtHome, RowsCount
<1>6. ASSUME NEW skipInvalid \in BOOLEAN, NEW skipDeleted \in BOOLEAN,
             RowsCall(skipInvalid, skipDeleted)
      PROVE  HomeInv'
  BY <1>6 DEF RowsCall, HomeInv, RowsAtHome, RowsCount
<1>7. ASSUME NEW needle \in Needles, NEW exact \in BOOLEAN, SearchCall(needle, exact)
      PROVE  HomeInv'
  BY <1>7 DEF SearchCall, HomeInv, RowsAtHome, RowsCount
<1>8. CASE RowsRead
  <2>1. RowAt(ptr).id = RowAt(ptr).pos
    BY <1>1, <1>8, RowAtHome, ReadableInTable DEF RowsRead
  <2>2. \A j \in 1..Len(found') : found'[j].id = found'[j].pos
    BY <1>1, <1>8, <2>1 DEF RowsRead, HomeInv
  <2> QED
    BY <1>8, <2>2 DEF RowsRead, HomeInv, RowsAtHome, RowsCount
<1>9. CASE RowsInvalid
  BY <1>9 DEF RowsInvalid, HomeInv, RowsAtHome, RowsCount
<1>10. CASE RowsEnd
  BY <1>10 DEF RowsEnd, HomeInv, RowsAtHome, RowsCount
<1>11. CASE SearchMiss
  BY <1>11 DEF SearchMiss, HomeInv, RowsAtHome, RowsCount
<1>12. CASE SearchHit
  <2>1. RowAt(at).id = RowAt(at).pos
    BY <1>1, <1>12, RowAtHome DEF SearchHit
  <2>2. \A j \in 1..Len(found') : found'[j].id = found'[j].pos
    BY <1>1, <1>12, <2>1 DEF SearchHit, HomeInv
  <2> QED
    BY <1>12, <2>2 DEF SearchHit, HomeInv, RowsAtHome, RowsCount
<1>13. CASE SearchEnd
  BY <1>13 DEF SearchEnd, HomeInv, RowsAtHome, RowsCount
<1>14. CASE Return
  <2>1. held' # Nil => held'.id = held'.pos
    BY <1>14 DEF Return, ToSet, HomeInv, TypeOK
  <2> QED
    BY <1>14, <2>1 DEF Return, HomeInv, RowsAtHome, RowsCount
<1>15. ASSUME NEW text \in Texts, NEW deleted \in BOOLEAN, Write(text, deleted)
       PROVE  HomeInv'
  <2> DEFINE new == [mark |-> Mark(deleted), text |-> text, id |-> held.id]
  <2>1. held \in Objects /\ held.pos \in Nat /\ held.pos < RowsCount /\ held.id = held.pos
    BY <1>15, CursorAssumption DEF Write, TypeOK, HomeInv, Objects
  <2>2. held'.id = held.id /\ held'.pos = held.pos
    BY <1>15, <2>1 DEF Write, Objects
  <2>3. rows' = [rows EXCEPT ![held.pos + 1] = new]
    BY <1>15 DEF Write
  <2>4. new.id = held.pos
    BY <2>1
  <2> HIDE DEF new
  <2>5. RowsAtHome'
    BY <1>1, <2>1, <2>3, <2>4 DEF HomeInv, RowsAtHome, RowsCount, TypeOK
  <2> QED
    BY <1>15, <2>1, <2>2, <2>5 DEF Write, HomeInv
<1>16. ASSUME NEW text \in Texts, Add(text) PROVE HomeInv'
  <2>1. ASSUME NEW i \in 1..(RowsCount + 1) PROVE rows'[i].id = i - 1
    <3>1. CASE i = RowsCount + 1
      BY <1>1, <1>16, <3>1, AddResult
    <3>2. CASE i \in 1..RowsCount
      BY <1>16, <3>2, AddResult DEF HomeInv, RowsAtHome
    <3> QED
      BY <1>1, <3>1, <3>2
  <2>2. RowsAtHome'
    BY <1>16, <2>1, AddResult DEF RowsAtHome, RowsCount
  <2> QED
    BY <1>16, <2>2 DEF Add, HomeInv
<1>17. CASE UNCHANGED vars
  BY <1>17 DEF vars, HomeInv, RowsAtHome, RowsCount
<1> QED
  BY <1>2, <1>3, <1>4, <1>5, <1>6, <1>7, <1>8, <1>9, <1>10, <1>11, <1>12, <1>13,
     <1>14, <1>15, <1>16, <1>17 DEF Next, LoopStep

LEMMA HomeInit == Init => HomeInv
BY CursorAssumption DEF Init, HomeInv, RowsAtHome, RowsCount

(* A row that was read by Row, Next, Rows or Search and is written goes    *)
(* back to its own record: WriteRow never puts it over another row.        *)
THEOREM RowsStayHome == Spec => []RowsAtHome
<1>1. Init => TypeOK /\ HomeInv
  BY TypeInit, HomeInit
<1>2. TypeOK /\ HomeInv /\ [Next]_vars => (TypeOK /\ HomeInv)'
  BY TypeNext, HomeNext
<1>3. HomeInv => RowsAtHome
  BY DEF HomeInv
<1> QED
  BY <1>1, <1>2, <1>3, PTL DEF Spec

(***************************************************************************)
(* Rows.                                                                   *)
(***************************************************************************)

(* A list goes on with a row that is behind all of its rows. *)
LEMMA ListsGrow ==
  ASSUME NEW fs \in Seq(Objects), NEW rs, NEW ks \in SUBSET Nat, Lists(fs, rs, ks),
         NEW k \in Nat, \A j \in ks : j < k,
         NEW r \in Objects, r.pos = k, r.text = rs[k + 1].text, r.id = rs[k + 1].id,
         r.deleted = (rs[k + 1].mark = "deleted")
  PROVE  Lists(Append(fs, r), rs, ks \cup {k})
<1> DEFINE gs == Append(fs, r)
           n == Len(fs)
<1>1. n \in Nat /\ Len(gs) = n + 1 /\ gs[n + 1] = r /\ \A j \in 1..n : gs[j] = fs[j]
  OBVIOUS
<1> HIDE DEF gs, n
<1>2. \A j \in 1..(n + 1) : j \in 1..n \/ j = n + 1
  BY <1>1
<1>3. \A j \in 1..n : j \in 1..(n + 1) /\ fs[j].pos \in ks
  BY <1>1 DEF Lists, n
<1>4. \A j \in 1..(n + 1) : gs[j].pos \in ks \cup {k}
  BY <1>1, <1>2, <1>3
<1>5. ASSUME NEW i \in 1..(n + 1), NEW j \in 1..(n + 1), i < j
      PROVE  gs[i].pos < gs[j].pos
  <2>1. CASE j \in 1..n
    BY <1>1, <1>5, <2>1 DEF Lists, n
  <2>2. CASE j = n + 1
    <3>1. i \in 1..n
      BY <1>1, <1>5, <2>2
    <3>2. gs[i].pos < k
      BY <1>1, <1>3, <3>1
    <3> QED
      BY <1>1, <2>2, <3>2
  <2> QED
    BY <1>2, <2>1, <2>2
<1>6. ASSUME NEW m \in ks \cup {k}
      PROVE  \E j \in 1..(n + 1) :
               /\ gs[j].pos = m
               /\ gs[j].text = rs[m + 1].text /\ gs[j].id = rs[m + 1].id
               /\ gs[j].deleted = (rs[m + 1].mark = "deleted")
  <2>1. CASE m = k
    BY <1>1, <2>1
  <2>2. CASE m \in ks
    BY <1>1, <1>3, <2>2 DEF Lists, n
  <2> QED
    BY <2>1, <2>2
<1> QED
  BY <1>1, <1>4, <1>5, <1>6 DEF Lists, gs

(* The loop ends with its arguments as they were. *)
LEMMA RowsEnds ==
  ASSUME TypeOK, InLoop("Rows"), NEW st, EndLoop(st)
  PROVE  /\ call'.op = "Rows" /\ call'.st = st /\ call'.start = call.start
         /\ call'.skipInvalid = call.skipInvalid /\ call'.skipDeleted = call.skipDeleted
<1>1. call \in [op : {"Rows"}, st : {"loop", "done", "failed"}, skipInvalid : BOOLEAN,
               skipDeleted : BOOLEAN, start : 0..(Word - 1)]
  BY DEF TypeOK, InLoop, Loops, NoCall
<1> QED
  BY <1>1 DEF EndLoop

LEMMA ScanInit == Init => ScanInv
BY DEF Init, NoCall, ScanInv

(* Next goes one row on. *)
LEMMA OneRowOn ==
  ASSUME TypeOK, ~EOF
  PROVE  ptr \in 0..(RowsCount - 1) /\ AfterNext = ptr + 1
<1>1. ptr \in 0..(RowsCount - 1) /\ ptr + 1 < Word
  BY CursorAssumption DEF TypeOK, EOF, RowsCount
<1> QED
  BY <1>1, NoWrap DEF AfterNext

LEMMA ScanNext == TypeOK /\ ScanInv /\ [Next]_vars => ScanInv'
<1> SUFFICES ASSUME TypeOK, ScanInv, [Next]_vars, call'.op = "Rows"
             PROVE  ScanInv'
  BY DEF ScanInv
<1>1. ASSUME NEW skipInvalid \in BOOLEAN, NEW skipDeleted \in BOOLEAN,
             RowsCall(skipInvalid, skipDeleted)
      PROVE  ScanInv'
  <2>1. call'.start = ptr' /\ call'.st = "loop" /\ found' = <<>> /\ ptr' \in Nat
    BY <1>1 DEF RowsCall, TypeOK
  <2>2. Seen' = {}
    BY <2>1 DEF Seen
  <2>3. Wanted(Seen)' = {}
    BY <2>2 DEF Wanted
  <2>4. Lists(found, rows, Wanted(Seen))'
    BY <2>1, <2>3 DEF Lists
  <2> QED
    BY <2>1, <2>2, <2>4 DEF ScanInv
<1>2. ASSUME InLoop("Rows"), ~EOF, ptr' = AfterNext, rows' = rows,
             call'.start = call.start
      PROVE  /\ ptr \in 0..(RowsCount - 1) /\ call'.start <= ptr'
             /\ Seen' = Seen \cup {ptr} /\ Valid' = Valid
             /\ Seen \in SUBSET Nat /\ \A k \in Seen : k < ptr
  <2>1. ptr \in 0..(RowsCount - 1) /\ ptr' = ptr + 1
    BY <1>2, OneRowOn
  <2>2. call.start \in Nat /\ call.start <= ptr
    BY <1>2 DEF ScanInv, InLoop, TypeOK, Loops, NoCall
  <2> QED
    BY <1>2, <2>1, <2>2 DEF Seen, Valid, RowsCount
<1>3. CASE RowsRead
  <2>1. call' = call /\ rows' = rows /\ InLoop("Rows") /\ Readable(ptr)
    BY <1>3 DEF RowsRead
  <2>2. /\ ptr \in 0..(RowsCount - 1) /\ call'.start <= ptr'
        /\ Seen' = Seen \cup {ptr} /\ Valid' = Valid
        /\ Seen \in SUBSET Nat /\ \A k \in Seen : k < ptr
    BY <1>2, <1>3, <2>1 DEF RowsRead
  <2>3. ptr \in Valid
    BY <2>1, <2>2, ReadableInTable
  <2>4. Lists(found, rows, Wanted(Seen)) /\ (call.skipInvalid \/ Seen \subseteq Valid)
    BY <2>1 DEF ScanInv, InLoop
  <2>5. Lists(found, rows, Wanted(Seen))'
    <3>1. CASE LeftOut(ptr)
      <4>1. Wanted(Seen)' = Wanted(Seen)
        BY <2>1, <2>2, <3>1 DEF Wanted, LeftOut
      <4> QED
        BY <1>3, <2>4, <3>1, <4>1 DEF RowsRead
    <3>2. CASE ~LeftOut(ptr)
      <4>1. call.skipDeleted => rows[ptr + 1].mark = "active"
        BY <2>1, <3>2 DEF LeftOut, Readable, Marks
      <4>2. Wanted(Seen)' = Wanted(Seen) \cup {ptr}
        BY <2>1, <2>2, <2>3, <4>1 DEF Wanted
      <4>3. found' = Append(found, RowAt(ptr)) /\ found \in Seq(Objects)
        BY <1>3, <3>2 DEF RowsRead, TypeOK
      <4>4. RowAt(ptr) \in Objects
        BY <2>2, RowAtType
      <4>5. /\ RowAt(ptr).pos = ptr /\ RowAt(ptr).text = rows[ptr + 1].text
            /\ RowAt(ptr).id = rows[ptr + 1].id
            /\ RowAt(ptr).deleted = (rows[ptr + 1].mark = "deleted")
        BY DEF RowAt, RowPosition
      <4>6. Wanted(Seen) \in SUBSET Nat /\ \A k \in Wanted(Seen) : k < ptr
        BY <2>2 DEF Wanted
      <4>7. ptr \in Nat
        BY <2>2
      <4>8. Lists(Append(found, RowAt(ptr)), rows, Wanted(Seen) \cup {ptr})
        BY <2>4, <4>3, <4>4, <4>5, <4>6, <4>7, ListsGrow
      <4> QED
        BY <2>1, <4>2, <4>3, <4>8
    <3> QED
      BY <3>1, <3>2
  <2>6. (call.skipInvalid \/ Seen \subseteq Valid)'
    BY <2>1, <2>2, <2>3, <2>4
  <2> QED
    BY <2>1, <2>2, <2>5, <2>6 DEF ScanInv, InLoop
<1>4. CASE RowsInvalid
  <2>1. /\ call'.start = call.start /\ call'.skipDeleted = call.skipDeleted
        /\ call'.skipInvalid = call.skipInvalid
        /\ call'.st = IF call.skipInvalid THEN "loop" ELSE "failed"
    BY <1>4, RowsEnds DEF RowsInvalid, InLoop
  <2>2. /\ ptr \in 0..(RowsCount - 1) /\ call'.start <= ptr'
        /\ Seen' = Seen \cup {ptr} /\ Valid' = Valid
    BY <1>2, <1>4, <2>1 DEF RowsInvalid
  <2>3. ptr \notin Valid
    <3>1. ptr < RowsCount
      BY <2>2 DEF TypeOK, RowsCount
    <3>2. rows[ptr + 1].mark \notin Marks
      BY <1>4, <3>1 DEF RowsInvalid, Readable
    <3> QED
      BY <3>2 DEF Valid
  <2>4. Wanted(Seen)' = Wanted(Seen)
    BY <1>4, <2>1, <2>2, <2>3 DEF Wanted, RowsInvalid
  <2>5. Lists(found, rows, Wanted(Seen))'
    BY <1>4, <2>4 DEF RowsInvalid, ScanInv, InLoop
  <2> QED
    BY <2>1, <2>2, <2>3, <2>5 DEF ScanInv
<1>5. CASE RowsEnd
  <2>1. /\ call'.start = call.start /\ call'.skipDeleted = call.skipDeleted
        /\ call'.skipInvalid = call.skipInvalid /\ call'.st = "done"
    BY <1>5, RowsEnds DEF RowsEnd
  <2>2. Seen' = Seen /\ Valid' = Valid /\ RowsCount' = RowsCount
    BY <1>5, <2>1 DEF RowsEnd, Seen, Valid, RowsCount
  <2>3. Wanted(Seen)' = Wanted(Seen)
    BY <1>5, <2>1, <2>2 DEF RowsEnd, Wanted
  <2>4. RowsCount' <= ptr' /\ call'.start <= ptr'
    BY <1>5, <2>1, <2>2 DEF RowsEnd, EOF, ScanInv, InLoop, TypeOK, RowsCount
  <2> QED
    BY <1>5, <2>1, <2>2, <2>3, <2>4 DEF RowsEnd, ScanInv, InLoop
<1>6. CASE UNCHANGED vars
  BY <1>6 DEF vars, ScanInv, Seen, Valid, Wanted, RowsCount
<1>7. CASE SearchMiss \/ SearchHit \/ Return
  BY <1>7 DEF SearchMiss, SearchHit, Return, InLoop, NoCall
<1>8. CASE SearchEnd
  BY <1>8 DEF SearchEnd, InLoop, EndLoop, TypeOK, Loops, NoCall
<1>9. ASSUME NEW needle \in Needles, NEW exact \in BOOLEAN, SearchCall(needle, exact)
      PROVE  FALSE
  BY <1>9 DEF SearchCall
<1>10. ASSUME call' = call, call = NoCall PROVE FALSE
  BY <1>10 DEF NoCall
<1> QED
  BY <1>1, <1>3, <1>4, <1>5, <1>6, <1>7, <1>8, <1>9, <1>10
     DEF Next, LoopStep, GoTo, Skip, Row, NextRow, Write, Add

(* Rows returns all the rows from the pointer on that it was asked for, as *)
(* they are, and fails exactly if one of them is invalid and those are not *)
(* to be skipped.                                                          *)
THEOREM ScansAreComplete == Spec => []ScanComplete
<1>1. Init => TypeOK /\ ScanInv
  BY TypeInit, ScanInit
<1>2. TypeOK /\ ScanInv /\ [Next]_vars => (TypeOK /\ ScanInv)'
  BY TypeNext, ScanNext
<1>3. TypeOK /\ ScanInv => ScanComplete
  <2> SUFFICES ASSUME TypeOK, ScanInv, call.op = "Rows", call.st # "loop"
               PROVE  ScanComplete
    BY DEF ScanComplete
  <2> DEFINE ahead == {k \in 0..(RowsCount - 1) : k >= call.start}
  <2>1. call.st \in {"done", "failed"} /\ call.start \in Nat /\ ptr \in Nat
    BY DEF TypeOK, Loops, NoCall
  <2>2. Seen \subseteq ahead
    BY <2>1 DEF Seen
  <2>3. CASE call.st = "failed"
    BY <2>2, <2>3 DEF ScanInv, ScanComplete
  <2>4. CASE call.st = "done"
    <3>1. Seen = ahead
      BY <2>1, <2>4 DEF Seen, ScanInv, RowsCount, TypeOK
    <3> QED
      BY <2>4, <3>1 DEF ScanInv, ScanComplete
  <2> QED
    BY <2>1, <2>3, <2>4
<1> QED
  BY <1>1, <1>2, <1>3, PTL DEF Spec

(***************************************************************************)
(* Search.                                                                 *)
(***************************************************************************)

LEMMA SearchEnds ==
  ASSUME TypeOK, InLoop("Search"), NEW st, EndLoop(st)
  PROVE  /\ call'.op = "Search" /\ call'.st = st
         /\ call'.needle = call.needle /\ call'.exact = call.exact
<1>1. call \in [op : {"Search"}, st : {"loop", "done"}, needle : Needles, exact : BOOLEAN]
  BY DEF TypeOK, InLoop, Loops, NoCall
<1> QED
  BY <1>1 DEF EndLoop

LEMMA HitsGrow ==
  ASSUME TypeOK, at < RowsCount
  PROVE  Hits(at + 1) = Hits(at) \cup {k \in {at} \cap Valid : Hit(k)}
BY DEF Hits, Valid, TypeOK, RowsCount

LEMMA SearchInit == Init => SearchInv
BY DEF Init, NoCall, SearchInv

LEMMA SearchNext == TypeOK /\ SearchInv /\ [Next]_vars => SearchInv'
<1> SUFFICES ASSUME TypeOK, SearchInv, [Next]_vars, call'.op = "Search"
             PROVE  SearchInv'
  BY DEF SearchInv
<1>1. ASSUME NEW needle \in Needles, NEW exact \in BOOLEAN, SearchCall(needle, exact)
      PROVE  SearchInv'
  <2>1. call'.st = "loop" /\ at' = 0 /\ found' = <<>>
    BY <1>1 DEF SearchCall
  <2>2. Hits(at)' = {}
    BY <2>1 DEF Hits, Valid
  <2> QED
    BY <2>1, <2>2 DEF SearchInv, Lists
<1>2. ASSUME call'.needle = call.needle, call'.exact = call.exact, rows' = rows
      PROVE  /\ \A k : Hit(k)' <=> Hit(k)
             /\ Valid' = Valid /\ RowsCount' = RowsCount
  BY <1>2 DEF Hit, Pattern, Represent, Valid, RowsCount
<1>3. ASSUME SearchMiss \/ SearchHit
      PROVE  /\ call' = call /\ rows' = rows /\ at' = at + 1 /\ at < RowsCount
             /\ InLoop("Search") /\ Lists(found, rows, Hits(at))
             /\ Hits(at)' = Hits(at) \cup {k \in {at} \cap Valid : Hit(k)}
  <2>1. /\ call' = call /\ rows' = rows /\ at' = at + 1 /\ at < RowsCount
        /\ InLoop("Search")
    BY <1>3 DEF SearchMiss, SearchHit
  <2>2. Hits(at)' = Hits(at + 1)
    BY <1>2, <2>1 DEF Hits
  <2> QED
    BY <2>1, <2>2, HitsGrow DEF SearchInv, InLoop
<1>4. CASE SearchMiss
  <2>1. Hits(at)' = Hits(at)
    BY <1>3, <1>4 DEF SearchMiss
  <2>2. Lists(found, rows, Hits(at))'
    BY <1>3, <1>4, <2>1 DEF SearchMiss
  <2> QED
    BY <1>3, <1>4, <2>2 DEF SearchInv, InLoop
<1>5. CASE SearchHit
  <2>1. at \in 0..(RowsCount - 1) /\ at \in Nat /\ Hit(at)
    BY <1>5 DEF SearchHit, TypeOK, RowsCount
  <2>2. Lists(found, rows, Hits(at))'
    <3>1. CASE Readable(at)
      <4>1. at \in Valid
        BY <2>1, <3>1, ReadableInTable
      <4>2. Hits(at)' = Hits(at) \cup {at}
        BY <1>3, <1>5, <2>1, <4>1
      <4>3. found' = Append(found, RowAt(at)) /\ found \in Seq(Objects)
        BY <1>5, <3>1 DEF SearchHit, TypeOK
      <4>4. RowAt(at) \in Objects
        BY <2>1, RowAtType
      <4>5. /\ RowAt(at).pos = at /\ RowAt(at).text = rows[at + 1].text
            /\ RowAt(at).id = rows[at + 1].id
            /\ RowAt(at).deleted = (rows[at + 1].mark = "deleted")
        BY DEF RowAt, RowPosition
      <4>6. Hits(at) \in SUBSET Nat /\ \A k \in Hits(at) : k < at
        BY DEF Hits, Valid
      <4>7. Lists(found, rows, Hits(at))
        BY <1>3, <1>5
      <4>8. Lists(Append(found, RowAt(at)), rows, Hits(at) \cup {at})
        BY <2>1, <4>3, <4>4, <4>5, <4>6, <4>7, ListsGrow
      <4>9. rows' = rows
        BY <1>5 DEF SearchHit
      <4> QED
        BY <4>2, <4>3, <4>8, <4>9
    <3>2. CASE ~Readable(at)
      <4>1. at \notin Valid
        <5>1. at < RowsCount
          BY <1>5 DEF SearchHit
        <5>2. rows[at + 1].mark \notin Marks
          BY <3>2, <5>1 DEF Readable
        <5> QED
          BY <5>2 DEF Valid
      <4>2. Hits(at)' = Hits(at)
        BY <1>3, <1>5, <4>1
      <4> QED
        BY <1>3, <1>5, <3>2, <4>2 DEF SearchHit
    <3> QED
      BY <3>1, <3>2
  <2> QED
    BY <1>3, <1>5, <2>2 DEF SearchInv, InLoop
<1>6. CASE SearchEnd
  <2>1. /\ call'.st = "done" /\ call'.needle = call.needle /\ call'.exact = call.exact
        /\ rows' = rows /\ found' = found /\ at' = at /\ at >= RowsCount
        /\ InLoop("Search")
    BY <1>6, SearchEnds DEF SearchEnd
  <2>2. Hits(at)' = Hits(at) /\ RowsCount' = RowsCount
    BY <1>2, <2>1 DEF Hits
  <2>3. Lists(found, rows, Hits(at))'
    BY <2>1, <2>2 DEF SearchInv, InLoop
  <2>4. RowsCount' <= at'
    BY <2>1, <2>2 DEF TypeOK, RowsCount
  <2> QED
    BY <2>3, <2>4 DEF SearchInv
<1>7. CASE UNCHANGED vars
  <2>1. call' = call /\ rows' = rows /\ found' = found /\ at' = at
    BY <1>7 DEF vars
  <2>2. Hits(at)' = Hits(at) /\ RowsCount' = RowsCount
    BY <1>2, <2>1 DEF Hits
  <2> QED
    BY <2>1, <2>2 DEF SearchInv
<1>8. ASSUME NEW skipInvalid \in BOOLEAN, NEW skipDeleted \in BOOLEAN,
             RowsCall(skipInvalid, skipDeleted)
      PROVE  FALSE
  BY <1>8 DEF RowsCall
<1>9. ASSUME RowsRead \/ Return PROVE FALSE
  BY <1>9 DEF RowsRead, Return, InLoop, NoCall
<1>10. ASSUME RowsInvalid \/ RowsEnd PROVE FALSE
  BY <1>10, RowsEnds DEF RowsInvalid, RowsEnd, InLoop
<1>11. ASSUME call' = call, call = NoCall PROVE FALSE
  BY <1>11 DEF NoCall
<1> QED
  BY <1>1, <1>4, <1>5, <1>6, <1>7, <1>8, <1>9, <1>10, <1>11
     DEF Next, LoopStep, GoTo, Skip, Row, NextRow, Write, Add

(* A sequence is part of another one if it is found behind some of it. *)
LEMMA PartOf ==
  ASSUME NEW s \in Seq(Bytes), NEW p \in Seq(Bytes)
  PROVE  p \in SubSeqs(s) <=>
           \E skip \in 0..(Len(s) - Len(p)) : \A j \in 1..Len(p) : s[skip + j] = p[j]
<1>1. ASSUME p \in SubSeqs(s)
      PROVE  \E skip \in 0..(Len(s) - Len(p)) : \A j \in 1..Len(p) : s[skip + j] = p[j]
  <2>1. PICK i \in 0..Len(s), j \in 0..Len(s) : p = SubSeq(s, i + 1, j)
    BY <1>1 DEF SubSeqs
  <2>2. CASE i < j
    <3>1. Len(p) = j - i /\ \A k \in 1..Len(p) : p[k] = s[i + k]
      BY <2>1, <2>2
    <3>2. i \in 0..(Len(s) - Len(p))
      BY <2>1, <2>2, <3>1
    <3> QED
      BY <3>1, <3>2
  <2>3. CASE ~(i < j)
    <3>1. Len(p) = 0
      BY <2>1, <2>3
    <3>2. 0 \in 0..(Len(s) - Len(p))
      BY <3>1
    <3> QED
      BY <3>1, <3>2
  <2> QED
    BY <2>2, <2>3
<1>2. ASSUME NEW skip \in 0..(Len(s) - Len(p)), \A j \in 1..Len(p) : s[skip + j] = p[j]
      PROVE  p \in SubSeqs(s)
  <2>1. skip \in 0..Len(s) /\ skip + Len(p) \in 0..Len(s)
    OBVIOUS
  <2>2. p = SubSeq(s, skip + 1, skip + Len(p))
    <3> DEFINE q == SubSeq(s, skip + 1, skip + Len(p))
    <3>1. q \in Seq(Bytes) /\ Len(q) = Len(p) /\ \A j \in 1..Len(p) : q[j] = s[skip + j]
      BY <2>1
    <3> HIDE DEF q
    <3>2. \A j \in 1..Len(p) : q[j] = p[j]
      BY <1>2, <3>1
    <3>3. p = q
      BY <3>1, <3>2, SeqEqual
    <3> QED
      BY <3>3 DEF q
  <2> QED
    BY <2>1, <2>2 DEF SubSeqs
<1> QED
  BY <1>1, <1>2

(* The search by bytes finds what Search is documented to find. *)
LEMMA HitMatches ==
  ASSUME TypeOK, call.op = "Search", call.needle # Nil => Len(call.needle) <= Width,
         NEW k \in Valid
  PROVE  Hit(k) <=> Matches(rows[k + 1].text, call.needle, call.exact)
<1> DEFINE text == rows[k + 1].text
           needle == call.needle
<1>1. rows[k + 1] \in Records /\ rows[k + 1].mark # "missing"
  BY DEF Valid, Marks, TypeOK, RowsCount
<1>2. Zeros \in [1..Width -> Bytes]
  BY DEF Zeros, Bytes
<1>3. text \in Seq(Bytes) /\ Len(text) = Width
  <2>1. text \in [1..Width -> Bytes]
    BY <1>1, <1>2, CursorAssumption DEF Records
  <2> QED
    BY <2>1, CursorAssumption
<1>4. call.exact \in BOOLEAN /\ needle \in Needles
  BY DEF TypeOK, Loops, NoCall
<1>5. needle # Nil => needle \in Seq(Bytes)
  BY <1>4, CursorAssumption
<1>6. Hit(k) <=> Pattern \in SubSeqs(text)
  BY <1>1 DEF Hit
<1> HIDE DEF text
<1>7. ASSUME NEW p \in Seq(Bytes)
       PROVE  p \in SubSeqs(text) <=>
                \E skip \in 0..(Len(text) - Len(p)) :
                  \A j \in 1..Len(p) : text[skip + j] = p[j]
  BY <1>3, PartOf
<1>8. ASSUME NEW p \in Seq(Bytes), Len(p) = Width
      PROVE  p \in SubSeqs(text) <=> \A j \in 1..Width : text[j] = p[j]
  <2>1. 0..(Len(text) - Len(p)) = {0}
    BY <1>3, <1>8, CursorAssumption
  <2>2. p \in SubSeqs(text) <=>
          \E skip \in {0} : \A j \in 1..Len(p) : text[skip + j] = p[j]
    BY <2>1, <1>7
  <2>3. \A j \in 1..Width : 0 + j = j
    BY CursorAssumption
  <2> QED
    BY <1>8, <2>2, <2>3
<1>9. CASE needle = Nil
  <2>1. Pattern = Zeros /\ Zeros \in Seq(Bytes) /\ Len(Zeros) = Width
    BY <1>2, <1>9, CursorAssumption DEF Pattern, Represent, Zeros
  <2>2. Pattern \in SubSeqs(text) <=> \A j \in 1..Width : text[j] = NUL
    BY <1>8, <2>1 DEF Zeros
  <2>3. Matches(text, needle, call.exact) <=> \A j \in 1..Width : text[j] = NUL
    BY <1>9 DEF Matches
  <2> QED
    BY <1>6, <2>2, <2>3 DEF text
<1>10. CASE needle # Nil /\ call.exact
  <2> DEFINE p == Padded(needle)
  <2>1. Pattern = p
    BY <1>10 DEF Pattern, Represent
  <2>2. p \in [1..Width -> Bytes]
    BY <1>5, <1>10, CursorAssumption DEF Padded, Bytes
  <2>3. p \in Seq(Bytes) /\ Len(p) = Width
    BY <2>2, CursorAssumption
  <2>4. Matches(text, needle, call.exact) <=> \A j \in 1..Width : text[j] = p[j]
    BY <1>10 DEF Matches, Padded
  <2> HIDE DEF p
  <2> QED
    BY <1>6, <1>8, <2>1, <2>3, <2>4 DEF text
<1>11. CASE needle # Nil /\ ~call.exact
  <2>1. Pattern = needle
    BY <1>11 DEF Pattern, Represent
  <2>2. Matches(text, needle, call.exact) <=>
          \E skip \in 0..(Width - Len(needle)) :
            \A j \in 1..Len(needle) : text[skip + j] = needle[j]
    BY <1>11 DEF Matches
  <2>3. needle \in SubSeqs(text) <=> Matches(text, needle, call.exact)
    <3>1. needle \in Seq(Bytes)
      BY <1>5, <1>11
    <3> HIDE DEF needle
    <3>2. needle \in SubSeqs(text) <=>
            \E skip \in 0..(Len(text) - Len(needle)) :
              \A j \in 1..Len(needle) : text[skip + j] = needle[j]
      BY <3>1, <1>7
    <3> QED
      BY <1>3, <2>2, <3>2
  <2> QED
    BY <1>6, <2>1, <2>3 DEF text
<1> QED
  BY <1>4, <1>9, <1>10, <1>11

(* Search returns the rows that match its value, each as it is, in order,  *)
(* when the values searched for are not longer than the column.            *)
THEOREM SearchesAreComplete ==
  ASSUME \A needle \in Needles \ {Nil} : Len(needle) <= Width
  PROVE  Spec => []SearchComplete
<1>1. Init => TypeOK /\ SearchInv
  BY TypeInit, SearchInit
<1>2. TypeOK /\ SearchInv /\ [Next]_vars => (TypeOK /\ SearchInv)'
  BY TypeNext, SearchNext
<1>3. TypeOK /\ SearchInv => SearchComplete
  <2> SUFFICES ASSUME TypeOK, SearchInv, call.op = "Search", call.st = "done"
               PROVE  SearchComplete
    BY DEF SearchComplete
  <2>1. call.needle # Nil => Len(call.needle) <= Width
    BY DEF TypeOK, Loops, NoCall
  <2>2. \A k \in Valid : k < at
    BY DEF SearchInv, Valid, TypeOK, RowsCount
  <2>3. Hits(at) =
          {k \in Valid : Matches(rows[k + 1].text, call.needle, call.exact)}
    BY <2>1, <2>2, HitMatches DEF Hits
  <2> QED
    BY <2>3 DEF SearchInv, SearchComplete
<1> QED
  BY <1>1, <1>2, <1>3, PTL DEF Spec
=============================================================================
