------------------------------ MODULE RowCodec ------------------------------
(***************************************************************************)
(* One row of a new table: its fields are set, written (Row.ToBytes), read *)
(* (File.BytesToRow, ReadNullFlag), changed and written again.  A column   *)
(* of variable length (V stands for Varchar and Varbinary) has a bit in    *)
(* the null flag column that tells whether its last byte is the length,    *)
(* and one more for null if it may be null.                                *)
(*                                                                         *)
(* ToBytes counts the bits of the columns as it goes, nullFlagPosition     *)
(* counts them again to read one; the properties are about their agreement *)
(* and about the conversions of Values.                                    *)
(***************************************************************************)
EXTENDS Values, FiniteSets

CONSTANTS
  Layouts,     (* tables to try: sequences of columns                      *)
  FieldValues, (* FieldValues[type]: values given to fields of that type   *)
  EmptyIsNull, (* is "" given only to V columns that may be null?          *)
  FlagBits,    (* the bits of a byte of null flags: 8                      *)
  MaxRowLength,(* MaxCharactersPerRecord                                   *)
  None         (* no record yet                                            *)

(* The columns that NewColumn makes.                                       *)
Columns == {c \in [type : DOMAIN GoTypes, nullable : BOOLEAN, len : Nat \ {0}] :
              c = Column(c.type, c.len, c.nullable)}

(* The Go types of field values. *)
TypeNames == {"nil", "string", "bytes", "bool", "int32", "int64", "float64", "time"}

ASSUME CodecAssumption ==
  /\ FlagBits \in Nat \ {0} /\ MaxRowLength \in Nat /\ EmptyIsNull \in BOOLEAN
  /\ Layouts \subseteq Seq(Columns)
  /\ \A type \in DOMAIN GoTypes : FieldValues[type] \subseteq [t : TypeNames, v : Seq(Int)]
  /\ \A val \in FieldValues.L : val.t = "bool" => val.v \in {<<0>>, <<1>>}
  /\ \A val \in FieldValues.I : val.t \in GoTypes.I => Len(val.v) = 1
  /\ \A val \in FieldValues.T : val.t = "time" => IsTime(val.v)

VARIABLES
  cols,        (* file.table.columns; empty until NewTable                 *)
  row,         (* the values of the fields of the row object               *)
  record,      (* the record in the file: its cells and null flags         *)
  written,     (* history: the fields the record was written from          *)
  last         (* what the last call did                                   *)

vars == <<cols, row, record, written, last>>

TypeOK ==
  /\ cols \in Layouts \cup {<<>>}
  /\ DOMAIN row = DOMAIN cols
  /\ record # None => /\ cols # <<>> /\ DOMAIN record.cells = DOMAIN cols
                      /\ \A i \in DOMAIN cols : Len(record.cells[i]) = cols[i].len
                      /\ record.flags \subseteq 0..(FlagBits - 1)
  /\ last \in {"new", "set", "wrote", "refused", "panic", "read", "unreadable"}

Init ==
  /\ cols = <<>>
  /\ row = <<>>
  /\ record = None
  /\ written = <<>>
  /\ last = "new"

(***************************************************************************)
(* The null flags.                                                         *)
(***************************************************************************)
IsVar(c) == c.type = "V"

(* The bits of columns js: one for the length of each, and one for null.   *)
Bits(layout, js) == Cardinality({j \in js : IsVar(layout[j])})
                      + Cardinality({j \in js : IsVar(layout[j]) /\ layout[j].nullable})

(* ToBytes: the bits of all columns before column i. *)
varPos_NoNull(i) == Cardinality({j \in 1..(i - 1) : IsVar(cols[j])})
varPos(i) == Bits(cols, 1..(i - 1))

(* nullFlagPosition: the same, but not behind a column of fixed length. *)
nullFlagPosition(i) ==
  Bits(cols, {j \in 1..(i - 1) : \A k \in 1..j : IsVar(cols[k])})

(***************************************************************************)
(* NewTable, NewRow.                                                       *)
(***************************************************************************)
nullFlagLength(layout) ==
  LET bits == Bits(layout, DOMAIN layout)
  IN  bits \div FlagBits + (IF bits % FlagBits > 0 THEN 1 ELSE 0)

RowLength(layout) ==
  1 + SumFunction([j \in DOMAIN layout |-> layout[j].len]) + nullFlagLength(layout)

NewTable(layout) ==
  /\ cols = <<>>
  /\ RowLength(layout) <= MaxRowLength
  /\ cols' = layout
  /\ row' = [i \in 1..Len(layout) |-> NilValue]
  /\ UNCHANGED <<record, written, last>>

(* Field.SetValue *)
SetValue(i, val) ==
  /\ row' = [row EXCEPT ![i] = val]
  /\ last' = "set"
  /\ UNCHANGED <<cols, record, written>>

Offered(i) == {val \in FieldValues[cols[i].type] \cup {NilValue} :
                 EmptyIsNull /\ IsVar(cols[i]) /\ val # NilValue =>
                   cols[i].nullable \/ val.v # <<>>}

(***************************************************************************)
(* Row.ToBytes.                                                            *)
(***************************************************************************)
(* The value has a length of its own, or none. *)
Partial(col, val) ==
  IsVar(col) /\ 0 < Len(Represent(col, val)) /\ Len(Represent(col, val)) < col.len
Empty(col, val) == IsVar(col) /\ Len(Represent(col, val)) = 0

Cell(col, val) ==
  LET bytes == Represent(col, val)
  IN  IF Partial(col, val) THEN [Copied(bytes, col.len) EXCEPT ![col.len] = Len(bytes)]
                           ELSE Copied(bytes, col.len)

(* The bit that is set for column i; the byte has no bit FlagBits. *)
FlagsOf(i, val) == {b \in 0..(FlagBits - 1) : \/ Partial(cols[i], val) /\ b = varPos(i)
                                              \/ Empty(cols[i], val) /\ b = varPos(i) + 1}

Image(values) == [cells |-> [i \in DOMAIN cols |-> Cell(cols[i], values[i])],
                  flags |-> UNION {FlagsOf(i, values[i]) : i \in DOMAIN cols}]

Accepted == \A i \in DOMAIN cols : Accepts(cols[i], row[i])

(* A flag is to be set in a second byte, which nullFlag does not have. *)
OutOfFlags == \E i \in DOMAIN cols : /\ Partial(cols[i], row[i]) \/ Empty(cols[i], row[i])
                                     /\ varPos(i) >= FlagBits

Write ==
  /\ Accepted /\ ~OutOfFlags
  /\ record' = Image(row)
  /\ written' = row
  /\ last' = "wrote"
  /\ UNCHANGED <<cols, row>>

WriteRefused ==
  /\ ~Accepted
  /\ last' = "refused"
  /\ UNCHANGED <<cols, row, record, written>>

(* Index out of range: the program ends. *)
WritePanics ==
  /\ Accepted /\ OutOfFlags
  /\ last' = "panic"
  /\ UNCHANGED <<cols, row, record, written>>

(***************************************************************************)
(* File.BytesToRow.                                                        *)
(***************************************************************************)
ReadNullFlag(i) ==
  [varlen |-> nullFlagPosition(i) \in record.flags,
   null   |-> cols[i].nullable /\ nullFlagPosition(i) + 1 \in record.flags]

(* The length in the last byte of the cell. *)
LengthIn(i) == record.cells[i][cols[i].len]

FieldOf(i) ==
  LET raw  == record.cells[i]
      flag == ReadNullFlag(i)
  IN  CASE IsVar(cols[i]) /\ flag.null -> Value("bytes", <<>>)
        [] IsVar(cols[i]) /\ ~flag.null /\ flag.varlen
                                        -> Interpret(cols[i], SubSeq(raw, 1, LengthIn(i)))
        [] OTHER                        -> Interpret(cols[i], raw)

(* No value of the cell: a text that is no number or date, a length behind *)
(* the end of the cell (bytes of other columns, or out of range).          *)
FieldFails(i) ==
  IF IsVar(cols[i])
    THEN /\ ~ReadNullFlag(i).null /\ ReadNullFlag(i).varlen
         /\ LengthIn(i) > cols[i].len
    ELSE ~Interprets(cols[i], record.cells[i])

Read ==
  /\ record # None
  /\ \A i \in DOMAIN cols : ~FieldFails(i)
  /\ row' = [i \in DOMAIN cols |-> FieldOf(i)]
  /\ last' = "read"
  /\ UNCHANGED <<cols, record, written>>

ReadFails ==
  /\ record # None
  /\ \E i \in DOMAIN cols : FieldFails(i)
  /\ last' = "unreadable"
  /\ UNCHANGED <<cols, row, record, written>>

Next ==
  \/ \E layout \in Layouts : NewTable(layout)
  \/ /\ cols # <<>> /\ last # "panic"
     /\ \/ \E i \in DOMAIN cols : \E val \in Offered(i) : SetValue(i, val)
        \/ Write \/ WriteRefused \/ WritePanics
        \/ Read \/ ReadFails

Spec == Init /\ [][Next]_vars

(***************************************************************************)
(* Properties.                                                             *)
(***************************************************************************)

(* What a column can keep of the values Represent accepts. *)
Fits(col, val) ==
  \/ val.t = "nil"
  \/ CASE col.type \in {"C", "V"} -> Len(val.v) <= col.len
       [] col.type = "N" -> Len(Decimal(val.v[1])) <= col.len
       [] col.type = "I" -> val.v[1] \in (-MaxInt - 1)..MaxInt
                              /\ (val.t = "float64" => val.v[1] >= 0)
       [] OTHER          -> TRUE

(* What a field is to be when the row is read: the value that was written, *)
(* a C value with its trailing spaces, a date without its time of day, and *)
(* nil as the value of a cell of zeros.                                    *)
Kept(col, val) ==
  CASE val.t = "nil" /\ col.type \in {"C", "V"} -> Value("string", Repeat(NUL, col.len))
    [] val.t = "nil" /\ col.type \in {"D", "T"} -> ZeroTime
    [] val.t = "nil" /\ col.type = "I"          -> Value("int32", <<0>>)
    [] val.t = "nil" /\ col.type = "N"          -> Value("int64", <<0>>)
    [] val.t = "nil" /\ col.type = "L"          -> Value("bool", <<0>>)
    [] OTHER ->
  CASE col.type = "C" -> Value("string", [j \in 1..col.len |->
                           IF j <= Len(val.v) THEN val.v[j] ELSE Space])
    [] col.type = "V" -> Value(IF val.v = <<>> THEN "bytes" ELSE "string", val.v)
    [] col.type = "I" -> Value("int32", val.v)
    [] col.type = "N" -> Value("int64", val.v)
    [] col.type = "D" -> Value("time", [val.v EXCEPT ![4] = 0])
    [] OTHER          -> val

FieldReadsBack(i) == Fits(cols[i], written[i]) => row[i] = Kept(cols[i], written[i])

(* A row reads back as it was written, each field that its column can keep *)
(* whatever the other fields are.                                          *)
ReadsBack == last = "read" => \A i \in DOMAIN cols : FieldReadsBack(i)

(* A row that was written without an error can be read, unless a value was *)
(* cut off because it did not fit.                                         *)
RowReadable ==
  last = "unreadable" => \E i \in DOMAIN cols : ~Fits(cols[i], written[i])

(***************************************************************************)
(* Conditions and invariants of the theorems (RowCodecProofs).             *)
(***************************************************************************)

(* Only the last column of variable length is behind one of fixed length.  *)
VarColumnsFirst(layout) ==
  \A i, j \in DOMAIN layout :
    j < i /\ IsVar(layout[i]) /\ IsVar(layout[j]) => \A k \in 1..j : IsVar(layout[k])

OneFlagByte(layout) == Bits(layout, DOMAIN layout) <= FlagBits

(* The types whose cells hold no digits. *)
PlainTypes == {"C", "V", "L", "I", "T"}

(* A value that a program may give to a field of these, or read from it.   *)
Legal(col, val) ==
  col.type \in PlainTypes =>
    /\ val \in [t : TypeNames, v : Seq(Int)]
    /\ IsVar(col) /\ ~col.nullable /\ val.t # "nil" => val.v # <<>>
    /\ col.type = "L" /\ val.t = "bool" => val.v \in {<<0>>, <<1>>}
    /\ col.type = "I" /\ val.t \in GoTypes.I => Len(val.v) = 1
    /\ col.type = "T" /\ val.t = "time" => IsTime(val.v)

LegalInv == \A i \in DOMAIN cols : Legal(cols[i], row[i])

(* The record is the image of the row that was written.                    *)
WrittenInv ==
  record # None =>
    /\ record = Image(written)
    /\ \A i \in DOMAIN cols :
         /\ Legal(cols[i], written[i]) /\ Accepts(cols[i], written[i])
         /\ Partial(cols[i], written[i]) \/ Empty(cols[i], written[i]) => varPos(i) < FlagBits

ReadInv == last = "read" => record # None /\ \A i \in DOMAIN cols : row[i] = FieldOf(i)
=============================================================================
