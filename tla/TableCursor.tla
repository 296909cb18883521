---------------------------- MODULE TableCursor -----------------------------
(***************************************************************************)
(* Moving about in an open table and reading from it, as one goroutine     *)
(* does: File.GoTo, Skip, Row, Next, Rows and Search (file.go, io_unix.go; *)
(* io_generic.go and io_windows.go do the same), among writes of the rows  *)
(* it got and of new ones, whose steps RowFile has.                        *)
(*                                                                         *)
(* The loops of Rows and Search are made of steps, everything else is one  *)
(* action.  The table has one column, of type C: Search compares bytes, so *)
(* its content is a sequence of Width of them.                             *)
(***************************************************************************)
EXTENDS Integers, Sequences, SequencesExt

CONSTANTS
  Texts,       (* contents of the column: sequences of Width bytes         *)
  Needles,     (* values to search for: sequences of bytes, or Nil         *)
  Nil,         (* the nil value; also: no row, no needle                   *)
  Space, NUL,  (* the bytes 0x20 and 0x00                                  *)
  Width,       (* Column.Length                                            *)
  Word,        (* how many values a uint32 has                             *)
  Offsets,     (* arguments of Skip                                        *)
  InitRows,    (* rows in the file at first                                *)
  MaxRows      (* bound: rows in the file                                  *)

Zeros == [j \in 1..Width |-> NUL]
Bytes == {Space, NUL} \cup UNION {ToSet(s) : s \in Texts \cup (Needles \ {Nil})}

(* A table is far smaller than a uint32: MaxRecordsPerTable is 10^9. *)
ASSUME CursorAssumption ==
  /\ Width \in Nat \ {0}
  /\ Texts \subseteq [1..Width -> Bytes] /\ Needles \ {Nil} \subseteq Seq(Bytes)
  /\ Offsets \subseteq Int
  /\ InitRows \in Nat /\ MaxRows \in Nat /\ Word \in Nat
  /\ InitRows <= MaxRows /\ MaxRows + 1 < Word

VARIABLES
  rows,        (* the records RowsCount counts                             *)
  ptr,         (* file.table.rowPointer                                    *)
  call,        (* the call under way                                       *)
  at,          (* the loop variable of Search                              *)
  found,       (* the rows the call has collected                          *)
  held         (* a row object the program keeps, or Nil                   *)

vars == <<rows, ptr, call, at, found, held>>

(***************************************************************************)
(* A record begins with a delete flag; one that a failed append left holds *)
(* zeros or, at the end of the file, is not there.  Its id says which row  *)
(* it is: the number it got when it was appended.                          *)
(***************************************************************************)
Marks   == {"active", "deleted"}
Records == [mark : Marks \cup {"hole", "missing"}, text : Texts \cup {Zeros},
            id : 0..(MaxRows - 1)]
Objects == [pos : 0..(Word - 1), deleted : BOOLEAN, text : Texts \cup {Zeros},
            id : 0..(MaxRows - 1)]

Hole(k, mark) == [mark |-> mark, text |-> Zeros, id |-> k]

Loops == [op : {"Rows"}, st : {"loop", "done", "failed"}, skipInvalid : BOOLEAN,
          skipDeleted : BOOLEAN, start : 0..(Word - 1)]
           \cup
         [op : {"Search"}, st : {"loop", "done"}, needle : Needles, exact : BOOLEAN]
NoCall == [op |-> "none"]

RowsCount == Len(rows)

TypeOK ==
  /\ rows \in Seq(Records) /\ RowsCount <= MaxRows
  /\ ptr \in 0..(Word - 1)
  /\ call \in Loops \cup {NoCall}
  /\ at \in 0..MaxRows
  /\ found \in Seq(Objects)
  /\ held \in Objects \cup {Nil}

(* OpenTable: the pointer is at the first row. *)
Init ==
  /\ rows \in {r \in [1..InitRows -> Records] : \A i \in 1..InitRows :
                 /\ r[i].id = i - 1
                 /\ r[i].mark \notin Marks => r[i].text = Zeros
                 /\ r[i].mark = "missing" => i = InitRows}
  /\ ptr = 0
  /\ call = NoCall
  /\ at = 0
  /\ found = <<>>
  /\ held = Nil

(***************************************************************************)
(* Positions.                                                              *)
(***************************************************************************)
EOF == ptr >= RowsCount

Wrap(n) == n % Word

(* GoTo(n): out of range, an error and the end of the table. *)
GoTo(n) ==
  /\ call = NoCall
  /\ ptr' = IF n > RowsCount THEN RowsCount ELSE n
  /\ UNCHANGED <<rows, call, at, found, held>>

(* Skip(offset) sets the pointer to the end, or to 0, where the sum is out *)
(* of range; then it stores the sum all the same.                          *)
Skipped(offset) == Wrap(ptr + offset)

Skip(offset) ==
  /\ call = NoCall
  /\ ptr' = Skipped(offset)
  /\ UNCHANGED <<rows, call, at, found, held>>

(***************************************************************************)
(* Rows: ReadRow refuses a position behind the last row and the end of the *)
(* file, BytesToRow a record without a delete flag.                        *)
(***************************************************************************)
Readable(k) == k < RowsCount /\ rows[k + 1].mark \in Marks

(* BytesToRow: the row has the position of the row pointer. *)
RowPosition_Next(k) == k + 1
RowPosition(k) == k

RowAt(k) == [pos |-> RowPosition(k), deleted |-> rows[k + 1].mark = "deleted",
             text |-> rows[k + 1].text, id |-> rows[k + 1].id]

Row ==
  /\ call = NoCall
  /\ Readable(ptr)
  /\ held' = RowAt(ptr)
  /\ UNCHANGED <<rows, ptr, call, at, found>>

(* Next calls Skip(1) whether or not there was a row. *)
AfterNext_IfRead == IF Readable(ptr) THEN Wrap(ptr + 1) ELSE ptr
AfterNext == Wrap(ptr + 1)

NextRow ==
  /\ call = NoCall
  /\ ptr' = AfterNext
  /\ held' = IF Readable(ptr) THEN RowAt(ptr) ELSE held
  /\ UNCHANGED <<rows, call, at, found>>
(***************************************************************************)
(* File.Rows: Next until the end of the table.                             *)
(***************************************************************************)
RowsCall(skipInvalid, skipDeleted) ==
  /\ call = NoCall
  /\ call' = [op |-> "Rows", st |-> "loop", skipInvalid |-> skipInvalid,
              skipDeleted |-> skipDeleted, start |-> ptr]
  /\ found' = <<>>
  /\ UNCHANGED <<rows, ptr, at, held>>

InLoop(op) == call # NoCall /\ call.op = op /\ call.st = "loop"

EndLoop(st) == call' = [call EXCEPT !.st = st]

LeftOut_Deleted(k) == rows[k + 1].mark = "deleted"
LeftOut(k) == rows[k + 1].mark = "deleted" /\ call.skipDeleted

RowsRead ==
  /\ InLoop("Rows")
  /\ ~EOF /\ Readable(ptr)
  /\ ptr' = AfterNext
  /\ found' = IF LeftOut(ptr) THEN found ELSE Append(found, RowAt(ptr))
  /\ UNCHANGED <<rows, call, at, held>>

(* A row that cannot be read is stepped over, or Rows returns its error. *)
RowsInvalid ==
  /\ InLoop("Rows")
  /\ ~EOF /\ ~Readable(ptr)
  /\ ptr' = AfterNext
  /\ IF call.skipInvalid THEN UNCHANGED call ELSE EndLoop("failed")
  /\ UNCHANGED <<rows, at, found, held>>

RowsEnd ==
  /\ InLoop("Rows")
  /\ EOF
  /\ EndLoop("done")
  /\ UNCHANGED <<rows, ptr, at, found, held>>

(***************************************************************************)
(* File.Search: the bytes of each record are compared with the value as    *)
(* Represent has it, padded and cut off for an exact match.                *)
(***************************************************************************)
Padded(s) == [j \in 1..Width |-> IF j <= Len(s) THEN s[j] ELSE Space]

Represent(needle, skipSpacing) ==
  CASE needle = Nil -> Zeros
    [] needle # Nil /\ skipSpacing  -> needle
    [] needle # Nil /\ ~skipSpacing -> Padded(needle)

Pattern_Swapped == Represent(call.needle, call.exact)
Pattern == Represent(call.needle, ~call.exact)

SearchCall(needle, exact) ==
  /\ call = NoCall
  /\ call' = [op |-> "Search", st |-> "loop", needle |-> needle, exact |-> exact]
  /\ at' = 0
  /\ found' = <<>>
  /\ UNCHANGED <<rows, ptr, held>>

(* The bytes of the column are there and have the pattern in them. *)
Hit(k) == rows[k + 1].mark # "missing" /\ Pattern \in SubSeqs(rows[k + 1].text)

SearchMiss ==
  /\ InLoop("Search")
  /\ at < RowsCount /\ ~Hit(at)
  /\ at' = at + 1
  /\ UNCHANGED <<rows, ptr, call, found, held>>

(* GoTo and Row; a row that Row refuses is left out. *)
SearchHit ==
  /\ InLoop("Search")
  /\ at < RowsCount /\ Hit(at)
  /\ ptr' = at
  /\ found' = IF Readable(at) THEN Append(found, RowAt(at)) ELSE found
  /\ at' = at + 1
  /\ UNCHANGED <<rows, call, held>>

SearchEnd ==
  /\ InLoop("Search")
  /\ at >= RowsCount
  /\ EndLoop("done")
  /\ UNCHANGED <<rows, ptr, at, found, held>>

(* The program has the result and may keep one of its rows. *)
Return ==
  /\ call # NoCall
  /\ call.st \in {"done", "failed"}
  /\ call' = NoCall
  /\ held' \in {held} \cup (IF call.st = "done" THEN ToSet(found) ELSE {})
  /\ found' = <<>>
  /\ at' = 0
  /\ UNCHANGED <<rows, ptr>>

(***************************************************************************)
(* Writes: the row that is kept, changed or marked as deleted, goes to its *)
(* position; a new one behind the last, where zeros fill what is missing.  *)
(***************************************************************************)
Mark(deleted) == IF deleted THEN "deleted" ELSE "active"

Write(text, deleted) ==
  /\ call = NoCall
  /\ held # Nil
  /\ held.pos < RowsCount
  /\ held' = [held EXCEPT !.text = text, !.deleted = deleted]
  /\ rows' = [rows EXCEPT ![held.pos + 1] =
                [mark |-> Mark(deleted), text |-> text, id |-> held.id]]
  /\ UNCHANGED <<ptr, call, at, found>>

Add(text) ==
  /\ call = NoCall
  /\ RowsCount < MaxRows
  /\ rows' = Append([i \in 1..RowsCount |-> IF rows[i].mark = "missing"
                                             THEN Hole(i - 1, "hole") ELSE rows[i]],
                    [mark |-> "active", text |-> text, id |-> RowsCount])
  /\ UNCHANGED <<ptr, call, at, found, held>>

LoopStep == \/ RowsRead \/ RowsInvalid \/ RowsEnd
            \/ SearchMiss \/ SearchHit \/ SearchEnd
            \/ Return

Next ==
  \/ \E n \in 0..(MaxRows + 1) : GoTo(n)
  \/ \E offset \in Offsets : Skip(offset)
  \/ Row \/ NextRow
  \/ \E skipInvalid, skipDeleted \in BOOLEAN : RowsCall(skipInvalid, skipDeleted)
  \/ \E needle \in Needles, exact \in BOOLEAN : SearchCall(needle, exact)
  \/ LoopStep
  \/ \E text \in Texts, deleted \in BOOLEAN : Write(text, deleted)
  \/ \E text \in Texts : Add(text)

(* The loops are executed until they end. *)
Spec == Init /\ [][Next]_vars /\ WF_vars(LoopStep)

(***************************************************************************)
(* Properties.                                                             *)
(***************************************************************************)

(* fs lists exactly the rows of rs in the set ks, in order and as they are.*)
Lists(fs, rs, ks) ==
  /\ \A j \in 1..Len(fs) : fs[j].pos \in ks
  /\ \A k \in ks : \E j \in 1..Len(fs) :
       /\ fs[j].pos = k
       /\ fs[j].text = rs[k + 1].text /\ fs[j].id = rs[k + 1].id
       /\ fs[j].deleted = (rs[k + 1].mark = "deleted")
  /\ \A i, j \in 1..Len(fs) : i < j => fs[i].pos < fs[j].pos

Valid == {k \in 0..(RowsCount - 1) : rows[k + 1].mark \in Marks}

Wanted(ks) == {k \in ks \cap Valid : call.skipDeleted => rows[k + 1].mark = "active"}

(* Rows returns all rows from the pointer on, without the deleted ones if  *)
(* they are to be skipped, and fails exactly if a row is invalid and those *)
(* are not to be skipped.                                                  *)
ScanComplete ==
  call # NoCall /\ call.op = "Rows" /\ call.st # "loop" =>
    LET ahead == {k \in 0..(RowsCount - 1) : k >= call.start}
    IN  /\ call.st = "failed" <=> ~call.skipInvalid /\ ~(ahead \subseteq Valid)
        /\ call.st = "done" => Lists(found, rows, Wanted(ahead))

(* What Search is documented to look for: the value itself, up to trailing *)
(* spaces, or any text that contains it.                                   *)
Matches(text, needle, exact) ==
  CASE needle = Nil -> \A j \in 1..Width : text[j] = NUL
    [] needle # Nil /\ exact ->
         /\ Len(needle) <= Width
         /\ \A j \in 1..Width : text[j] = IF j <= Len(needle) THEN needle[j] ELSE Space
    [] needle # Nil /\ ~exact ->
         \E skip \in 0..(Width - Len(needle)) :
           \A j \in 1..Len(needle) : text[skip + j] = needle[j]

(* Search returns the rows that match, the deleted ones among them.        *)
SearchComplete ==
  call # NoCall /\ call.op = "Search" /\ call.st = "done" =>
    Lists(found, rows, {k \in Valid : Matches(rows[k + 1].text, call.needle, call.exact)})

(* A row that was read, by whatever call, and is written goes back to its  *)
(* own record: every record keeps its row.                                 *)
RowsAtHome == \A i \in 1..RowsCount : rows[i].id = i - 1

(* Rows and Search come to their end, whatever the file holds.             *)
CallsReturn == call # NoCall ~> call = NoCall

(***************************************************************************)
(* The invariant behind the theorems (TableCursorProofs).                  *)
(***************************************************************************)

(* Every row object was read from the record of its own row.               *)
HomeInv ==
  /\ RowsAtHome
  /\ \A j \in 1..Len(found) : found[j].id = found[j].pos
  /\ held # Nil => held.id = held.pos

(* Rows has collected what lies between its start and the pointer.         *)
Seen == {k \in 0..(RowsCount - 1) : call.start <= k /\ k < ptr}

ScanInv ==
  call.op = "Rows" =>
    /\ call.start <= ptr
    /\ call.st # "failed" => /\ Lists(found, rows, Wanted(Seen))
                             /\ call.skipInvalid \/ Seen \subseteq Valid
    /\ call.st = "done" => RowsCount <= ptr
    /\ call.st = "failed" => ~call.skipInvalid /\ ~(Seen \subseteq Valid)

(* Search has collected the rows before its loop variable.                 *)
Hits(n) == {k \in Valid : k < n /\ Hit(k)}

SearchInv ==
  call.op = "Search" =>
    /\ Lists(found, rows, Hits(at))
    /\ call.st = "done" => RowsCount <= at
=============================================================================
