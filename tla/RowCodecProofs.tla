--------------------------- MODULE RowCodecProofs ---------------------------
(* Theorems about RowCodec for every table and every value: the null flags *)
(* of columns of variable length, and what is read of texts.               *)
EXTENDS RowCodec, FiniteSetTheorems, SequenceTheorems, TLAPS

(***************************************************************************)
(* Cells.                                                                  *)
(***************************************************************************)

(* A function on 1..n is a sequence of that length. *)
LEMMA FunctionIsSeq ==
  ASSUME NEW n \in Nat, NEW S, NEW f \in [1..n -> S]
  PROVE  f \in Seq(S) /\ Len(f) = n
OBVIOUS

(* copy fills the slice, with zeros behind what is copied. *)
LEMMA CopiedIsCell ==
  ASSUME NEW s, NEW n \in Nat
  PROVE  DOMAIN Copied(s, n) = 1..n /\ Len(Copied(s, n)) = n
<1> DEFINE c == Copied(s, n)
<1>1. c \in [1..n -> {c[j] : j \in 1..n}] /\ DOMAIN c = 1..n
  BY DEF Copied
<1> HIDE DEF c
<1>2. Len(c) = n
  BY <1>1, FunctionIsSeq
<1> QED
  BY <1>1, <1>2 DEF c

LEMMA CopiedType ==
  ASSUME NEW s \in Seq(Int), NEW n \in Nat
  PROVE  Copied(s, n) \in Seq(Int) /\ Copied(s, n) \in [1..n -> Int]
<1>1. Copied(s, n) \in [1..n -> Int]
  BY DEF Copied, NUL
<1> QED
  BY <1>1, FunctionIsSeq

(* What has the length of the cell is copied as it is. *)
LEMMA CopiedWhole ==
  ASSUME NEW s \in Seq(Int), NEW n \in Nat, Len(s) = n
  PROVE  Copied(s, n) = s
<1>1. Copied(s, n) \in Seq(Int) /\ Len(Copied(s, n)) = n
  BY CopiedType, CopiedIsCell
<1>2. \A j \in 1..n : Copied(s, n)[j] = s[j]
  BY DEF Copied
<1> QED
  BY <1>1, <1>2, SeqEqual

LEMMA RepeatType ==
  ASSUME NEW b \in Int, NEW n \in Nat
  PROVE  Repeat(b, n) \in Seq(Int) /\ Len(Repeat(b, n)) = n
<1>1. Repeat(b, n) \in [1..n -> Int]
  BY DEF Repeat
<1> QED
  BY <1>1, FunctionIsSeq

LEMMA CellLength ==
  ASSUME NEW col \in Columns, NEW val
  PROVE  DOMAIN Cell(col, val) = 1..col.len /\ Len(Cell(col, val)) = col.len
<1> DEFINE bytes == Represent(col, val)
           raw == Copied(bytes, col.len)
<1>1. col.len \in Nat \ {0}
  BY DEF Columns
<1>2. DOMAIN raw = 1..col.len /\ Len(raw) = col.len
  BY <1>1, CopiedIsCell
<1>3. CASE Partial(col, val)
  <2> DEFINE c == [raw EXCEPT ![col.len] = Len(bytes)]
  <2>1. Cell(col, val) = c
    BY <1>3 DEF Cell
  <2>2. DOMAIN c = 1..col.len
    BY <1>2
  <2>3. c \in [1..col.len -> {c[j] : j \in 1..col.len}]
    BY <2>2
  <2> HIDE DEF c
  <2>4. Len(c) = col.len
    BY <1>1, <2>3, FunctionIsSeq
  <2> QED
    BY <2>1, <2>2, <2>4
<1>4. CASE ~Partial(col, val)
  BY <1>2, <1>4 DEF Cell
<1> QED
  BY <1>3, <1>4

(***************************************************************************)
(* Types.                                                                  *)
(***************************************************************************)
LEMMA ColumnType ==
  ASSUME TypeOK, NEW i \in DOMAIN cols
  PROVE  /\ cols \in Seq(Columns) /\ cols[i] \in Columns /\ i \in Nat
         /\ cols[i].len \in Nat \ {0} /\ cols[i].type \in DOMAIN GoTypes
         /\ cols[i].nullable \in BOOLEAN
<1>1. cols \in Seq(Columns)
  BY CodecAssumption DEF TypeOK
<1> QED
  BY <1>1 DEF Columns

LEMMA TypeInit == Init => TypeOK
BY DEF Init, TypeOK

LEMMA TypeNext == TypeOK /\ [Next]_vars => TypeOK'
<1> SUFFICES ASSUME TypeOK, [Next]_vars PROVE TypeOK'
  OBVIOUS
<1>1. ASSUME NEW layout \in Layouts, NewTable(layout) PROVE TypeOK'
  <2>1. layout \in Seq(Columns)
    BY CodecAssumption
  <2>2. DOMAIN row' = DOMAIN cols'
    BY <1>1, <2>1 DEF NewTable
  <2>3. record = None
    BY <1>1 DEF NewTable, TypeOK
  <2> QED
    BY <1>1, <2>2, <2>3 DEF NewTable, TypeOK
<1>2. ASSUME NEW i \in DOMAIN cols, NEW val \in Offered(i), SetValue(i, val)
      PROVE  TypeOK'
  BY <1>2 DEF SetValue, TypeOK
<1>3. CASE cols # <<>> /\ Write
  <2>1. /\ DOMAIN record'.cells = DOMAIN cols
        /\ \A i \in DOMAIN cols : record'.cells[i] = Cell(cols[i], row[i])
    BY <1>3 DEF Write, Image
  <2>2. \A i \in DOMAIN cols : Len(record'.cells[i]) = cols[i].len
    BY <2>1, CellLength, ColumnType
  <2>3. record'.flags \subseteq 0..(FlagBits - 1)
    BY <1>3 DEF Write, Image, FlagsOf
  <2> QED
    BY <1>3, <2>1, <2>2, <2>3 DEF Write, TypeOK
<1>4. CASE WriteRefused \/ WritePanics \/ ReadFails
  BY <1>4 DEF WriteRefused, WritePanics, ReadFails, TypeOK
<1>5. CASE Read
  BY <1>5 DEF Read, TypeOK
<1>6. CASE UNCHANGED vars
  BY <1>6 DEF vars, TypeOK
<1> QED
  BY <1>1, <1>2, <1>3, <1>4, <1>5, <1>6 DEF Next

(* Every cell of a record fills its column and no flag is outside of the   *)
(* byte of null flags.                                                     *)
THEOREM TypeCorrect == Spec => []TypeOK
<1>1. Init => TypeOK
  BY TypeInit
<1>2. TypeOK /\ [Next]_vars => TypeOK'
  BY TypeNext
<1> QED
  BY <1>1, <1>2, PTL DEF Spec

(***************************************************************************)
(* The bits of the null flags.                                             *)
(***************************************************************************)

LEMMA OneMore ==
  ASSUME NEW T, IsFiniteSet(T), NEW S \in SUBSET T, NEW x \in T, x \notin S
  PROVE  /\ Cardinality(S) \in Nat /\ Cardinality(T) \in Nat
         /\ Cardinality(S) + 1 <= Cardinality(T)
<1>1. IsFiniteSet(S)
  BY FS_Subset
<1>2. IsFiniteSet(S \cup {x}) /\ Cardinality(S \cup {x}) = Cardinality(S) + 1
  BY <1>1, FS_AddElement
<1>3. Cardinality(S \cup {x}) <= Cardinality(T)
  BY FS_Subset
<1> QED
  BY <1>1, <1>2, <1>3, FS_CardinalityType

(* A column of variable length adds one bit or, if it may be null, two. *)
LEMMA BitsGrow ==
  ASSUME NEW layout, NEW js, IsFiniteSet(js), NEW is \in SUBSET js,
         NEW x \in js, x \notin is, IsVar(layout[x])
  PROVE  /\ Bits(layout, is) \in Nat /\ Bits(layout, js) \in Nat
         /\ Bits(layout, is) + 1 <= Bits(layout, js)
         /\ layout[x].nullable => Bits(layout, is) + 2 <= Bits(layout, js)
<1> DEFINE Vars(s)  == {j \in s : IsVar(layout[j])}
           Nulls(s) == {j \in s : IsVar(layout[j]) /\ layout[j].nullable}
<1>1. /\ IsFiniteSet(Vars(js)) /\ IsFiniteSet(Nulls(js))
      /\ Vars(is) \in SUBSET Vars(js) /\ Nulls(is) \in SUBSET Nulls(js)
  <2>1. Vars(js) \in SUBSET js /\ Nulls(js) \in SUBSET js
    OBVIOUS
  <2> QED
    BY <2>1, FS_Subset
<1>2. /\ Bits(layout, is) = Cardinality(Vars(is)) + Cardinality(Nulls(is))
      /\ Bits(layout, js) = Cardinality(Vars(js)) + Cardinality(Nulls(js))
  BY DEF Bits
<1>3. x \in Vars(js) /\ x \notin Vars(is) /\ x \notin Nulls(is)
      /\ (layout[x].nullable => x \in Nulls(js))
  OBVIOUS
<1> HIDE DEF Vars, Nulls
<1>4. /\ Cardinality(Vars(is)) \in Nat /\ Cardinality(Vars(js)) \in Nat
      /\ Cardinality(Vars(is)) + 1 <= Cardinality(Vars(js))
  BY <1>1, <1>3, OneMore
<1>5. /\ Cardinality(Nulls(is)) \in Nat /\ Cardinality(Nulls(js)) \in Nat
      /\ Cardinality(Nulls(is)) <= Cardinality(Nulls(js))
  BY <1>1, FS_Subset, FS_CardinalityType
<1>6. layout[x].nullable => Cardinality(Nulls(is)) + 1 <= Cardinality(Nulls(js))
  BY <1>1, <1>3, OneMore
<1> QED
  BY <1>2, <1>4, <1>5, <1>6

(* ToBytes gives each column of variable length bits of its own. *)
LEMMA BitsApart ==
  ASSUME TypeOK, NEW i \in DOMAIN cols, NEW k \in DOMAIN cols, i < k, IsVar(cols[i])
  PROVE  /\ varPos(i) \in Nat /\ varPos(k) \in Nat /\ varPos(i) + 1 <= varPos(k)
         /\ cols[i].nullable => varPos(i) + 2 <= varPos(k)
<1>1. i \in Nat /\ k \in Nat /\ i \in 1..(k - 1) /\ i \notin 1..(i - 1)
      /\ 1..(i - 1) \in SUBSET (1..(k - 1))
  BY ColumnType
<1>2. IsFiniteSet(1..(k - 1))
  BY <1>1, FS_Interval
<1> QED
  BY <1>1, <1>2, BitsGrow, SMTT(30) DEF varPos

LEMMA BitsInByte ==
  ASSUME TypeOK, NEW i \in DOMAIN cols, IsVar(cols[i]), OneFlagByte(cols)
  PROVE  /\ varPos(i) \in Nat
         /\ cols[i].nullable => varPos(i) + 1 < FlagBits
<1>1. DOMAIN cols = 1..Len(cols) /\ Len(cols) \in Nat /\ i \in Nat
  BY ColumnType
<1>2. i \notin 1..(i - 1) /\ 1..(i - 1) \in SUBSET DOMAIN cols /\ IsFiniteSet(DOMAIN cols)
  <2>1. IsFiniteSet(1..Len(cols))
    BY <1>1, FS_Interval
  <2>2. i \in 1..Len(cols)
    BY <1>1
  <2> QED
    BY <1>1, <2>1, <2>2
<1>3. /\ varPos(i) \in Nat /\ Bits(cols, DOMAIN cols) \in Nat
      /\ cols[i].nullable => varPos(i) + 2 <= Bits(cols, DOMAIN cols)
  BY <1>2, BitsGrow DEF varPos
<1> QED
  BY <1>3, CodecAssumption DEF OneFlagByte

(* nullFlagPosition finds the bits that ToBytes has set. *)
LEMMA PositionsAgree ==
  ASSUME TypeOK, NEW i \in DOMAIN cols, IsVar(cols[i]), VarColumnsFirst(cols)
  PROVE  nullFlagPosition(i) = varPos(i)
<1> DEFINE before == {j \in 1..(i - 1) : \A k \in 1..j : IsVar(cols[k])}
<1>1. DOMAIN cols = 1..Len(cols) /\ Len(cols) \in Nat /\ i \in Nat
  BY ColumnType
<1>2. ASSUME NEW j \in 1..(i - 1)
      PROVE  j \in before <=> IsVar(cols[j])
  <2>1. j \in DOMAIN cols /\ j < i /\ j \in 1..j
    BY <1>1
  <2> QED
    BY <2>1 DEF VarColumnsFirst
<1>3. {j \in before : IsVar(cols[j])} = {j \in 1..(i - 1) : IsVar(cols[j])}
  BY <1>2
<1>4. {j \in before : IsVar(cols[j]) /\ cols[j].nullable} =
        {j \in 1..(i - 1) : IsVar(cols[j]) /\ cols[j].nullable}
  BY <1>2
<1> HIDE DEF before
<1>5. Bits(cols, before) = Bits(cols, 1..(i - 1))
  BY <1>3, <1>4 DEF Bits
<1> QED
  BY <1>5 DEF nullFlagPosition, varPos, before

(***************************************************************************)
(* What is read of a record.                                               *)
(***************************************************************************)

(* The bytes of a value of variable length are its own; it has none only   *)
(* if the column may be null.                                              *)
LEMMA VarBytes ==
  ASSUME NEW col \in Columns, NEW val, IsVar(col), Legal(col, val)
  PROVE  /\ Represent(col, val) \in Seq(Int)
         /\ val.t = "nil" => /\ Represent(col, val) = Repeat(NUL, col.len)
                             /\ Len(Represent(col, val)) = col.len
         /\ val.t # "nil" => Represent(col, val) = val.v
         /\ Empty(col, val) => col.nullable /\ val.t # "nil" /\ val.v = <<>>
<1>1. /\ col.type = "V" /\ col.len \in Nat \ {0} /\ col.nullable \in BOOLEAN
      /\ val \in [t : TypeNames, v : Seq(Int)]
  BY DEF Columns, Legal, PlainTypes, IsVar
<1>2. val.t = "nil" => /\ Represent(col, val) = Repeat(NUL, col.len)
                       /\ Represent(col, val) \in Seq(Int)
                       /\ Len(Represent(col, val)) = col.len
  BY <1>1, RepeatType DEF Represent, NUL
<1>3. val.t # "nil" => Represent(col, val) = val.v
  BY <1>1 DEF Represent
<1>4. Len(<<>>) = 0 /\ (Len(val.v) = 0 => val.v = <<>>)
  BY <1>1
<1> QED
  BY <1>1, <1>2, <1>3, <1>4 DEF Empty, Legal, PlainTypes

(* The flags of a column of variable length tell what ToBytes meant.       *)
LEMMA FlagsTell ==
  ASSUME TypeOK, WrittenInv, record # None, OneFlagByte(cols), VarColumnsFirst(cols),
         NEW i \in DOMAIN cols, IsVar(cols[i])
  PROVE  /\ ReadNullFlag(i).varlen = Partial(cols[i], written[i])
         /\ ReadNullFlag(i).null = (cols[i].nullable /\ Empty(cols[i], written[i]))
<1> DEFINE p == varPos(i)
           Sets(k, b) == b \in FlagsOf(k, written[k])
<1>1. p \in Nat /\ cols[i].nullable \in BOOLEAN /\ nullFlagPosition(i) = p
      /\ (cols[i].nullable => p + 1 < FlagBits)
  BY BitsInByte, ColumnType, PositionsAgree
<1>2. \A b : b \in record.flags <=> \E k \in DOMAIN cols : Sets(k, b)
  BY DEF WrittenInv, Image
<1>3. Partial(cols[i], written[i]) => p < FlagBits /\ Sets(i, p)
  <2>1. Partial(cols[i], written[i]) => p < FlagBits
    BY DEF WrittenInv
  <2> QED
    BY <1>1, <2>1, CodecAssumption DEF FlagsOf
<1>4. cols[i].nullable /\ Empty(cols[i], written[i]) => Sets(i, p + 1)
  BY <1>1, CodecAssumption DEF FlagsOf
<1>5. Sets(i, p) => Partial(cols[i], written[i])
  BY <1>1 DEF FlagsOf
<1>6. Sets(i, p + 1) => Empty(cols[i], written[i])
  BY <1>1 DEF FlagsOf
<1>7. ASSUME NEW k \in DOMAIN cols, k # i
      PROVE  ~Sets(k, p) /\ (cols[i].nullable => ~Sets(k, p + 1))
  <2>1. CASE ~IsVar(cols[k])
    BY <2>1 DEF FlagsOf, Partial, Empty
  <2>2. CASE IsVar(cols[k])
    <3>1. Empty(cols[k], written[k]) => cols[k].nullable
      BY <2>2, ColumnType, VarBytes DEF WrittenInv
    <3>2. i \in Nat /\ k \in Nat
      BY ColumnType
    <3>3. CASE k < i
      <4>1. varPos(k) \in Nat /\ varPos(k) + 1 <= p
            /\ (cols[k].nullable => varPos(k) + 2 <= p)
        BY <2>2, <3>3, BitsApart
      <4> QED
        BY <1>1, <3>1, <4>1 DEF FlagsOf
    <3>4. CASE i < k
      <4>1. varPos(k) \in Nat /\ p + 1 <= varPos(k)
            /\ (cols[i].nullable => p + 2 <= varPos(k))
        BY <3>4, BitsApart
      <4> QED
        BY <1>1, <4>1 DEF FlagsOf
    <3> QED
      BY <1>7, <3>2, <3>3, <3>4
  <2> QED
    BY <2>1, <2>2
<1> HIDE DEF Sets, p
<1>8. p \in record.flags <=> Partial(cols[i], written[i])
  BY <1>2, <1>3, <1>5, <1>7
<1>9. cols[i].nullable => (p + 1 \in record.flags <=> Empty(cols[i], written[i]))
  BY <1>2, <1>4, <1>6, <1>7
<1>10. /\ ReadNullFlag(i).varlen = (p \in record.flags)
       /\ ReadNullFlag(i).null = (cols[i].nullable /\ p + 1 \in record.flags)
  BY <1>1 DEF ReadNullFlag
<1>11. Partial(cols[i], written[i]) \in BOOLEAN /\ Empty(cols[i], written[i]) \in BOOLEAN
  BY DEF Partial, Empty
<1> QED
  BY <1>1, <1>8, <1>9, <1>10, <1>11

(* A field of variable length: its length is in the last byte of its cell. *)
LEMMA VarFieldRead ==
  ASSUME TypeOK, WrittenInv, record # None, OneFlagByte(cols), VarColumnsFirst(cols),
         NEW i \in DOMAIN cols, IsVar(cols[i])
  PROVE  /\ Empty(cols[i], written[i]) => FieldOf(i) = Value("bytes", <<>>)
         /\ Partial(cols[i], written[i]) => FieldOf(i) = Value("string", written[i].v)
         /\ ~Empty(cols[i], written[i]) /\ ~Partial(cols[i], written[i]) =>
              FieldOf(i) =
                Value("string", Copied(Represent(cols[i], written[i]), cols[i].len))
<1> DEFINE col == cols[i]
           val == written[i]
           bytes == Represent(col, val)
           raw == record.cells[i]
           n == Len(bytes)
<1>1. col \in Columns /\ col.len \in Nat \ {0} /\ Legal(col, val) /\ col.type = "V"
  BY ColumnType DEF WrittenInv, IsVar
<1>2. /\ bytes \in Seq(Int) /\ (val.t = "nil" => n = col.len)
      /\ (val.t # "nil" => bytes = val.v) /\ (Empty(col, val) => col.nullable)
  BY <1>1, VarBytes
<1>3. /\ ReadNullFlag(i).varlen = Partial(col, val)
      /\ ReadNullFlag(i).null = (col.nullable /\ Empty(col, val))
  BY FlagsTell
<1>4. raw = Cell(col, val)
  BY DEF WrittenInv, Image
<1>5. CASE Empty(col, val)
  <2>1. ~Partial(col, val)
    BY <1>5 DEF Empty, Partial
  <2>2. ReadNullFlag(i).null
    BY <1>2, <1>3, <1>5
  <2> QED
    BY <1>5, <2>1, <2>2 DEF FieldOf
<1>6. CASE Partial(col, val)
  <2>1. 0 < n /\ n < col.len /\ ~Empty(col, val) /\ n \in Nat
    BY <1>2, <1>6 DEF Empty, Partial
  <2>2. raw = [Copied(bytes, col.len) EXCEPT ![col.len] = n]
    BY <1>4, <1>6 DEF Cell
  <2>3. Copied(bytes, col.len) \in [1..col.len -> Int]
    BY <1>1, <1>2, CopiedType
  <2>4. raw \in [1..col.len -> Int] /\ raw[col.len] = n
        /\ \A j \in 1..n : raw[j] = Copied(bytes, col.len)[j]
    BY <1>1, <2>1, <2>2, <2>3
  <2>5. ASSUME NEW j \in 1..n PROVE raw[j] = bytes[j]
    <3>1. j \in 1..col.len /\ j <= n
      BY <1>1, <2>1
    <3>2. Copied(bytes, col.len)[j] = bytes[j]
      BY <3>1 DEF Copied
    <3> QED
      BY <2>4, <3>2
  <2>6. raw \in Seq(Int) /\ Len(raw) = col.len
    BY <1>1, <2>4, FunctionIsSeq
  <2>7. SubSeq(raw, 1, n) = bytes
    <3> HIDE DEF raw, n
    <3> DEFINE q == SubSeq(raw, 1, n)
    <3>1. q \in Seq(Int) /\ Len(q) = n /\ \A j \in 1..n : q[j] = raw[j]
      BY <1>1, <2>1, <2>6
    <3> HIDE DEF q
    <3>2. \A j \in 1..n : q[j] = bytes[j]
      BY <2>5, <3>1
    <3>3. q = bytes
      BY <1>2, <3>1, <3>2, SeqEqual DEF n
    <3> QED
      BY <3>3 DEF q
  <2>8. LengthIn(i) = n
    BY <2>4 DEF LengthIn
  <2>9. FieldOf(i) = Interpret(col, SubSeq(raw, 1, n))
    BY <1>3, <1>6, <2>1, <2>8 DEF FieldOf
  <2>10. bytes = val.v
    BY <1>2, <2>1
  <2> QED
    BY <1>1, <1>6, <2>1, <2>7, <2>9, <2>10 DEF Interpret
<1>7. CASE ~Empty(col, val) /\ ~Partial(col, val)
  <2>1. raw = Copied(bytes, col.len)
    BY <1>4, <1>7 DEF Cell
  <2>2. FieldOf(i) = Interpret(col, raw)
    BY <1>3, <1>7 DEF FieldOf
  <2> QED
    BY <1>1, <1>7, <2>1, <2>2 DEF Interpret
<1> QED
  BY <1>5, <1>6, <1>7

(* The length in the last byte of a cell is the one that was written.      *)
LEMMA VarLengthRead ==
  ASSUME TypeOK, WrittenInv, record # None, NEW i \in DOMAIN cols, IsVar(cols[i]),
         Partial(cols[i], written[i])
  PROVE  LengthIn(i) \in Nat /\ cols[i].len \in Nat /\ LengthIn(i) < cols[i].len
<1> DEFINE col == cols[i]
           bytes == Represent(col, written[i])
<1>1. col \in Columns /\ col.len \in Nat \ {0} /\ Legal(col, written[i])
  BY ColumnType DEF WrittenInv
<1>2. bytes \in Seq(Int) /\ Len(bytes) \in Nat
  BY <1>1, VarBytes
<1>3. record.cells[i] = [Copied(bytes, col.len) EXCEPT ![col.len] = Len(bytes)]
  BY DEF WrittenInv, Image, Cell
<1>4. Copied(bytes, col.len) \in [1..col.len -> Int]
  BY <1>1, <1>2, CopiedType
<1>5. Len(bytes) < col.len
  BY DEF Partial
<1> HIDE DEF bytes
<1>6. LengthIn(i) = Len(bytes)
  BY <1>1, <1>3, <1>4 DEF LengthIn
<1> QED
  BY <1>1, <1>2, <1>5, <1>6

LEMMA NamesOfTypes ==
  /\ "nil" \in TypeNames /\ "string" \in TypeNames /\ "bytes" \in TypeNames
  /\ "bool" \in TypeNames /\ "int32" \in TypeNames /\ "time" \in TypeNames
  /\ "string" # "nil" /\ "string" # "bool" /\ "bytes" # "nil" /\ "bytes" # "bool"
BY DEF TypeNames

LEMMA ValueType ==
  ASSUME NEW t \in TypeNames, NEW v \in Seq(Int)
  PROVE  /\ Value(t, v).t = t /\ Value(t, v).v = v
         /\ Value(t, v) \in [t : TypeNames, v : Seq(Int)]
<1>1. Value(t, v) = [t |-> t, v |-> v]
  BY DEF Value
<1> QED
  BY <1>1

LEMMA OneByte ==
  ASSUME NEW b \in Int
  PROVE  <<b>> \in Seq(Int) /\ Len(<<b>>) = 1 /\ <<b>>[1] = b
OBVIOUS

(* A text that is shorter than its cell is filled up. *)
LEMMA AppendedIsText ==
  ASSUME NEW s \in Seq(Int), NEW n \in Nat
  PROVE  /\ Appended(s, n, Space) \in Seq(Int)
         /\ Len(s) <= n =>
              /\ Len(Appended(s, n, Space)) = n
              /\ \A j \in 1..n : Appended(s, n, Space)[j] =
                                  IF j <= Len(s) THEN s[j] ELSE Space
<1>1. Len(s) \in Nat
  OBVIOUS
<1>2. CASE Len(s) < n
  <2> DEFINE m == n - Len(s)
             r == Repeat(Space, m)
             text == s \o r
  <2>1. m \in Nat /\ m + Len(s) = n
    BY <1>1, <1>2
  <2>2. Space \in Int
    BY DEF Space
  <2>3. \A j \in 1..m : r[j] = Space
    BY DEF Repeat
  <2> HIDE DEF m
  <2>4. r \in Seq(Int) /\ Len(r) = m
    BY <2>1, <2>2, RepeatType
  <2> HIDE DEF r
  <2>5. text \in Seq(Int) /\ Len(text) = n
    BY <2>1, <2>4
  <2>6. ASSUME NEW j \in 1..n
        PROVE  text[j] = IF j <= Len(s) THEN s[j] ELSE Space
    <3>1. CASE j <= Len(s)
      BY <3>1
    <3>2. CASE ~(j <= Len(s))
      <4>1. j - Len(s) \in 1..m
        BY <1>1, <2>1, <3>2
      <4>2. text[j] = r[j - Len(s)]
        BY <1>1, <2>1, <2>4, <3>2
      <4> QED
        BY <2>3, <3>2, <4>1, <4>2
    <3> QED
      BY <3>1, <3>2
  <2>7. Appended(s, n, Space) = text
    BY <1>2 DEF Appended, r, m
  <2> HIDE DEF text
  <2> QED
    BY <2>5, <2>6, <2>7
<1>3. CASE ~(Len(s) < n)
  <2>1. Appended(s, n, Space) = s
    BY <1>3 DEF Appended
  <2> QED
    BY <1>1, <1>3, <2>1
<1> QED
  BY <1>2, <1>3

(* A text that a field may hold. *)
LEMMA TextIsLegal ==
  ASSUME NEW col, col.type \in {"C", "V"}, NEW t \in {"string", "bytes"}, NEW s \in Seq(Int),
         IsVar(col) => col.nullable \/ s # <<>>
  PROVE  Legal(col, Value(t, s))
<1> DEFINE val == Value(t, s)
<1>1. t \in TypeNames /\ t # "nil" /\ t # "bool"
  BY NamesOfTypes
<1>2. val.t = t /\ val.v = s /\ val \in [t : TypeNames, v : Seq(Int)]
  BY <1>1, ValueType
<1> HIDE DEF val
<1>3. Legal(col, val)
  BY <1>1, <1>2 DEF Legal
<1> QED
  BY <1>3 DEF val

(* Cells of L columns. *)
Logicals == {<<0>>, <<1>>}

LEMMA LogicalIsLegal ==
  ASSUME NEW col, col.type = "L", NEW s \in Logicals
  PROVE  Legal(col, Value("bool", s))
<1> DEFINE val == Value("bool", s)
<1>1. s \in Seq(Int)
  <2>1. <<0>> \in Seq(Int)
    BY OneByte
  <2>2. <<1>> \in Seq(Int)
    BY OneByte
  <2> QED
    BY <2>1, <2>2 DEF Logicals
<1>2. val.t = "bool" /\ val.v = s /\ val \in [t : TypeNames, v : Seq(Int)]
  BY <1>1, ValueType, NamesOfTypes
<1>3. ~IsVar(col)
  BY DEF IsVar
<1> HIDE DEF val
<1>4. Legal(col, val)
  BY <1>2, <1>3 DEF Legal, Logicals
<1> QED
  BY <1>4 DEF val

(* A text of a column of fixed length. *)
LEMMA CharacterFieldRead ==
  ASSUME TypeOK, WrittenInv, record # None, NEW i \in DOMAIN cols, cols[i].type = "C"
  PROVE  /\ Legal(cols[i], FieldOf(i))
         /\ Fits(cols[i], written[i]) => FieldOf(i) = Kept(cols[i], written[i])
<1> DEFINE col == cols[i]
           val == written[i]
           n == col.len
           bytes == Represent(col, val)
<1>1. /\ n \in Nat \ {0} /\ ~IsVar(col)
      /\ val \in [t : TypeNames, v : Seq(Int)] /\ val.t \in {"nil", "string"}
  BY ColumnType DEF WrittenInv, Legal, PlainTypes, IsVar, Accepts, GoTypes
<1>2. record.cells[i] = Copied(bytes, n)
  BY <1>1 DEF WrittenInv, Image, Cell, Partial
<1>3. FieldOf(i) = Value("string", Copied(bytes, n))
  BY <1>1, <1>2 DEF FieldOf, Interpret
<1>4. CASE val.t = "nil"
  <2>1. bytes = Repeat(NUL, n)
    BY <1>4 DEF Represent
  <2>2. bytes \in Seq(Int) /\ Copied(bytes, n) = Repeat(NUL, n)
    BY <1>1, <2>1, RepeatType, CopiedWhole, SMTT(30) DEF NUL
  <2>3. Kept(col, val) = Value("string", Repeat(NUL, n))
    BY <1>4 DEF Kept
  <2>4. Repeat(NUL, n) \in Seq(Int)
    BY <2>1, <2>2
  <2>5. Legal(col, Value("string", Repeat(NUL, n)))
    BY <1>1, <2>4, TextIsLegal
  <2> QED
    BY <1>3, <2>2, <2>3, <2>5
<1>5. CASE val.t = "string"
  <2> DEFINE text == Appended(val.v, n, Space)
             cut == Copied(text, n)
  <2>1. bytes = cut
    BY <1>5 DEF Represent, CharacterBytes
  <2>2. text \in Seq(Int)
    BY <1>1, AppendedIsText
  <2>3. cut \in Seq(Int) /\ Len(cut) = n
    BY <1>1, <2>2, CopiedType, CopiedIsCell
  <2>4. Copied(bytes, n) = cut
    BY <1>1, <2>1, <2>3, CopiedWhole
  <2>5. ASSUME Len(val.v) <= n
        PROVE  cut = [j \in 1..n |-> IF j <= Len(val.v) THEN val.v[j] ELSE Space]
    <3>1. Len(val.v) \in Nat /\ val.v \in Seq(Int)
      BY <1>1
    <3>2. Len(text) = n /\ \A j \in 1..n :
                             text[j] = IF j <= Len(val.v) THEN val.v[j] ELSE Space
      BY <1>1, <2>5, <3>1, AppendedIsText
    <3>3. cut = text
      BY <1>1, <2>2, <3>2, CopiedWhole
    <3>4. cut = [j \in 1..n |-> IF j <= Len(text) THEN text[j] ELSE NUL]
      BY DEF Copied
    <3> HIDE DEF cut, text
    <3> QED
      BY <1>1, <3>2, <3>4
  <2> HIDE DEF cut
  <2>6. Fits(col, val) => Len(val.v) <= n
    BY <1>5 DEF Fits
  <2>7. Kept(col, val) = Value("string", [j \in 1..n |->
                           IF j <= Len(val.v) THEN val.v[j] ELSE Space])
    BY <1>5 DEF Kept
  <2>8. Legal(col, FieldOf(i))
    BY <1>1, <1>3, <2>3, <2>4, TextIsLegal
  <2> QED
    BY <1>3, <2>4, <2>5, <2>6, <2>7, <2>8
<1> QED
  BY <1>1, <1>4, <1>5

(* A logical value. *)
LEMMA LogicalFieldRead ==
  ASSUME TypeOK, WrittenInv, record # None, NEW i \in DOMAIN cols, cols[i].type = "L"
  PROVE  /\ Legal(cols[i], FieldOf(i))
         /\ FieldOf(i) = Kept(cols[i], written[i])
<1> DEFINE col == cols[i]
           val == written[i]
           bytes == Represent(col, val)
<1>1. /\ col.len = 1 /\ ~IsVar(col)
      /\ val \in [t : TypeNames, v : Seq(Int)] /\ val.t \in {"nil", "bool"}
      /\ (val.t = "bool" => val.v \in {<<0>>, <<1>>})
  <2>1. col = Column(col.type, col.len, col.nullable)
    BY ColumnType DEF Columns
  <2>2. col.len = 1
    BY <2>1 DEF Column
  <2> QED
    BY <2>2 DEF WrittenInv, Legal, PlainTypes, IsVar, Accepts, GoTypes
<1>2. record.cells[i] = Copied(bytes, 1)
  BY <1>1 DEF WrittenInv, Image, Cell, Partial
<1>3. FieldOf(i) = LogicalOf(Copied(bytes, 1))
  BY <1>1, <1>2 DEF FieldOf, Interpret
<1>4. CASE val.t = "nil"
  <2>1. bytes = Repeat(NUL, 1) /\ Len(bytes) = 1
    <3>1. bytes = Repeat(NUL, 1)
      BY <1>1, <1>4 DEF Represent
    <3>2. NUL \in Int
      BY DEF NUL
    <3> QED
      BY <3>1, <3>2, RepeatType
  <2>2. Copied(bytes, 1)[1] = 0
    BY <2>1 DEF Copied, Repeat, NUL
  <2>3. <<LetterT>>[1] # 0
    BY DEF LetterT
  <2>4. FieldOf(i) = Value("bool", <<0>>)
    BY <1>3, <2>2, <2>3 DEF LogicalOf
  <2> QED
    BY <1>1, <1>4, <2>4, LogicalIsLegal DEF Kept, Logicals
<1>5. CASE val.t = "bool"
  <2>1. bytes = <<IF val.v = <<1>> THEN LetterT ELSE LetterF>>
    BY <1>5 DEF Represent, LogicalBytes
  <2>2. Copied(bytes, 1) = bytes
    <3>1. LetterT \in Int /\ LetterF \in Int
      BY DEF LetterT, LetterF
    <3>2. bytes \in Seq(Int) /\ Len(bytes) = 1
      BY <2>1, <3>1, OneByte
    <3> QED
      BY <3>2, CopiedWhole
  <2>3. <<LetterF>> # <<LetterT>>
    BY DEF LetterT, LetterF
  <2>4. FieldOf(i) = Value("bool", val.v)
    BY <1>1, <1>3, <1>5, <2>1, <2>2, <2>3 DEF LogicalOf
  <2>5. Kept(col, val) = val
    BY <1>5 DEF Kept
  <2>6. Value("bool", val.v) = val
    BY <1>1, <1>5 DEF Value
  <2> QED
    BY <1>1, <1>5, <2>4, <2>5, <2>6, LogicalIsLegal DEF Logicals
<1> QED
  BY <1>1, <1>4, <1>5

(* A text of a column of variable length. *)
LEMMA VarFieldKept ==
  ASSUME TypeOK, WrittenInv, record # None, OneFlagByte(cols), VarColumnsFirst(cols),
         NEW i \in DOMAIN cols, IsVar(cols[i])
  PROVE  /\ Legal(cols[i], FieldOf(i))
         /\ Fits(cols[i], written[i]) => FieldOf(i) = Kept(cols[i], written[i])
<1> DEFINE col == cols[i]
           val == written[i]
           n == col.len
           bytes == Represent(col, val)
<1>1. /\ col \in Columns /\ n \in Nat \ {0} /\ col.type = "V" /\ Legal(col, val)
      /\ val \in [t : TypeNames, v : Seq(Int)] /\ val.t \in {"nil", "string", "bytes"}
  BY ColumnType DEF WrittenInv, Legal, PlainTypes, IsVar, Accepts, GoTypes
<1>2. /\ bytes \in Seq(Int)
      /\ val.t = "nil" => bytes = Repeat(NUL, n) /\ Len(bytes) = n
      /\ val.t # "nil" => bytes = val.v
      /\ Empty(col, val) => col.nullable /\ val.t # "nil" /\ val.v = <<>>
  BY <1>1, VarBytes
<1>3. /\ Empty(col, val) => FieldOf(i) = Value("bytes", <<>>)
      /\ Partial(col, val) => FieldOf(i) = Value("string", val.v)
      /\ ~Empty(col, val) /\ ~Partial(col, val) =>
           FieldOf(i) = Value("string", Copied(bytes, n))
  BY VarFieldRead
<1>4. val.t # "nil" => /\ Kept(col, val) =
                            Value(IF val.v = <<>> THEN "bytes" ELSE "string", val.v)
                       /\ (Fits(col, val) => Len(val.v) <= n)
  BY <1>1 DEF Kept, Fits
<1>5. CASE Empty(col, val)
  <2>1. col.nullable /\ val.t # "nil" /\ val.v = <<>>
    BY <1>2, <1>5
  <2>2. FieldOf(i) = Value("bytes", <<>>)
    BY <1>3, <1>5
  <2>3. Kept(col, val) = Value("bytes", <<>>)
    BY <1>4, <2>1
  <2>4. <<>> \in Seq(Int)
    OBVIOUS
  <2>5. Legal(col, Value("bytes", <<>>))
    BY <1>1, <2>1, <2>4, TextIsLegal
  <2> QED
    BY <2>2, <2>3, <2>5
<1>6. CASE Partial(col, val)
  <2>1. 0 < Len(bytes) /\ Len(bytes) < n
    BY <1>6 DEF Partial
  <2>2. val.t # "nil" /\ val.v # <<>> /\ val.v \in Seq(Int)
    BY <1>1, <1>2, <2>1
  <2>3. Legal(col, Value("string", val.v))
    BY <1>1, <2>2, TextIsLegal
  <2> QED
    BY <1>3, <1>4, <1>6, <2>2, <2>3
<1>7. CASE ~Empty(col, val) /\ ~Partial(col, val)
  <2> DEFINE raw == Copied(bytes, n)
  <2>1. raw \in Seq(Int) /\ Len(raw) = n
    BY <1>1, <1>2, CopiedType, CopiedIsCell
  <2>2. raw # <<>>
    BY <1>1, <2>1
  <2>3. Legal(col, FieldOf(i))
    BY <1>1, <1>3, <1>7, <2>1, <2>2, TextIsLegal
  <2>4. CASE val.t = "nil"
    <3>1. raw = Repeat(NUL, n)
      BY <1>1, <1>2, <2>4, CopiedWhole
    <3>2. Kept(col, val) = Value("string", Repeat(NUL, n))
      BY <1>1, <2>4 DEF Kept
    <3> QED
      BY <1>3, <1>7, <2>3, <3>1, <3>2
  <2>5. CASE val.t # "nil" /\ Fits(col, val)
    <3>1. Len(val.v) = n /\ val.v # <<>>
      BY <1>1, <1>2, <1>4, <1>7, <2>5 DEF Empty, Partial
    <3>2. raw = val.v
      BY <1>1, <1>2, <2>5, <3>1, CopiedWhole
    <3> QED
      BY <1>3, <1>4, <1>7, <2>3, <2>5, <3>1, <3>2
  <2> QED
    BY <2>3, <2>4, <2>5
<1> QED
  BY <1>5, <1>6, <1>7

(***************************************************************************)
(* Steps.                                                                  *)
(***************************************************************************)
LayoutOK(layout) == VarColumnsFirst(layout) /\ OneFlagByte(layout)

RowInv == LegalInv /\ WrittenInv /\ ReadInv

(* A table of the theorem, once there is one. *)
(***************************************************************************)
(* Integers.                                                               *)
(***************************************************************************)
LEMMA SignedAgain ==
  ASSUME NEW N \in Nat, N > 0, NEW x \in Int, -N <= x, x < N
  PROVE  /\ x % (2 * N) \in Int
         /\ (IF x % (2 * N) > N - 1 THEN (x % (2 * N)) - 2 * N ELSE x % (2 * N)) = x
<1>1. CASE x >= 0
  <2>1. x % (2 * N) = x
    BY <1>1
  <2> QED
    BY <1>1, <2>1
<1>2. CASE x < 0
  <2>1. x % (2 * N) = x + 2 * N
    BY <1>2
  <2> QED
    BY <1>2, <2>1
<1> QED
  BY <1>1, <1>2

LEMMA IntegerIsLegal ==
  ASSUME NEW col, col.type = "I", NEW x \in Int
  PROVE  Legal(col, Value("int32", <<x>>))
<1> DEFINE val == Value("int32", <<x>>)
<1>1. val.t = "int32" /\ val.v = <<x>> /\ val \in [t : TypeNames, v : Seq(Int)]
  BY OneByte, ValueType, NamesOfTypes
<1>2. ~IsVar(col)
  BY DEF IsVar
<1> HIDE DEF val
<1>3. Legal(col, val)
  BY <1>1, <1>2, OneByte DEF Legal
<1> QED
  BY <1>3 DEF val

(* An integer that an I column can keep. *)
LEMMA IntegerFieldRead ==
  ASSUME TypeOK, WrittenInv, record # None, NEW i \in DOMAIN cols, cols[i].type = "I"
  PROVE  /\ Legal(cols[i], FieldOf(i))
         /\ Fits(cols[i], written[i]) => FieldOf(i) = Kept(cols[i], written[i])
<1> DEFINE col == cols[i]
           val == written[i]
           bytes == Represent(col, val)
<1>1. /\ col.len = 1 /\ ~IsVar(col)
      /\ val \in [t : TypeNames, v : Seq(Int)] /\ val.t \in {"nil", "int32", "float64"}
      /\ (val.t # "nil" => Len(val.v) = 1)
  <2>1. col = Column(col.type, col.len, col.nullable)
    BY ColumnType DEF Columns
  <2>2. col.len = 1
    BY <2>1 DEF Column
  <2> QED
    BY <2>2 DEF WrittenInv, Legal, PlainTypes, IsVar, Accepts, GoTypes
<1>2. record.cells[i] = Copied(bytes, 1)
  BY <1>1 DEF WrittenInv, Image, Cell, Partial
<1>3. FieldOf(i) = IntegerOf(Copied(bytes, 1)[1])
  BY <1>1, <1>2 DEF FieldOf, Interpret
<1>4. MaxInt \in Nat /\ IntSize = 2 * (MaxInt + 1)
  BY ValuesAssumption DEF IntSize
<1>5. CASE val.t = "nil"
  <2>1. bytes = Repeat(NUL, 1) /\ Len(bytes) = 1
    <3>1. bytes = Repeat(NUL, 1)
      BY <1>1, <1>5 DEF Represent
    <3>2. NUL \in Int
      BY DEF NUL
    <3> QED
      BY <3>1, <3>2, RepeatType
  <2>2. Copied(bytes, 1)[1] = 0
    BY <2>1 DEF Copied, Repeat, NUL
  <2>3. FieldOf(i) = Value("int32", <<0>>)
    BY <1>3, <1>4, <2>2 DEF IntegerOf
  <2>4. Kept(col, val) = Value("int32", <<0>>)
    BY <1>5 DEF Kept
  <2> QED
    BY <2>3, <2>4, IntegerIsLegal
<1>6. CASE val.t # "nil"
  <2>1. PICK x \in Int : x = val.v[1] /\ val.v = <<x>>
    BY <1>1, <1>6
  <2>2. PICK y \in Int : y = AsInt(val)
    BY <2>1 DEF AsInt
  <2>3. PICK z \in Int : z = y % IntSize
    BY <1>4
  <2>4. bytes = <<z>>
    BY <1>6, <2>2, <2>3 DEF Represent, IntegerBytes
  <2>5. Copied(bytes, 1) = bytes
    BY <2>4, OneByte, CopiedWhole
  <2>6. FieldOf(i) = IntegerOf(z)
    BY <1>3, <2>4, <2>5
  <2>7. PICK w \in Int : /\ w = IF z > MaxInt THEN z - IntSize ELSE z
                         /\ FieldOf(i) = Value("int32", <<w>>)
    BY <1>4, <2>6 DEF IntegerOf
  <2>8. ASSUME Fits(col, val) PROVE w = x
    <3>1. /\ -(MaxInt + 1) <= x /\ x < MaxInt + 1
          /\ val.t = "float64" => x >= 0
      BY <1>4, <1>6, <2>1, <2>8 DEF Fits
    <3>2. y = x
      BY <1>1, <1>4, <1>6, <2>1, <2>2, <3>1 DEF AsInt
    <3>3. PICK N \in Nat : N = MaxInt + 1
      BY <1>4
    <3>4. /\ y % (2 * N) \in Int
          /\ (IF y % (2 * N) > N - 1 THEN (y % (2 * N)) - 2 * N ELSE y % (2 * N)) = y
      <4>1. N > 0 /\ -N <= y /\ y < N
        BY <1>4, <3>1, <3>2, <3>3
      <4> QED
        BY <4>1, SignedAgain
    <3>5. IntSize = 2 * N /\ MaxInt = N - 1 /\ z = y % (2 * N)
      BY <1>4, <2>3, <3>3
    <3> QED
      BY <2>7, <3>2, <3>4, <3>5
  <2>9. Kept(col, val) = Value("int32", val.v)
    BY <1>6 DEF Kept
  <2> QED
    BY <2>1, <2>7, <2>8, <2>9, IntegerIsLegal
<1> QED
  BY <1>5, <1>6

(***************************************************************************)
(* Dates.  julianDate counts the months from March, so that a leap day is  *)
(* the last of its year; here years are counted from -4900, in centuries.  *)
(***************************************************************************)
Early(m)   == IF m <= 2 THEN 1 ELSE 0
Month(m)   == m - 2 + 12 * Early(m)
Days(m, d) == Quot(367 * Month(m), 12) + d - 31

(* Day d of month m is day g of its year, in which p is the month.         *)
MonthOf(m, d, a, p, v, g, h) ==
  /\ Quot(m - 14, 12) = -a /\ 0 <= a /\ a <= 1 /\ (m = 2 => a = 1)
  /\ p = m - 2 + 12 * a /\ 1 <= p /\ p <= 12
  /\ v = Quot(367 * p, 12) /\ g = v + d - 31 /\ 0 <= g /\ g <= 365
  /\ g = 365 => m = 2 /\ d = 29
  /\ Quot(80 * (g + 31), 2447) = p /\ Quot(p, 11) = a
  /\ h = Quot(2447 * p, 80) /\ g + 31 - h = d

(* Year r of century c; k days are before the century, and q in it.        *)
YearOf(y, a, c, r) ==
  y + 4900 - a = 100 * c + r /\ 48 <= c /\ c <= 148 /\ 0 <= r /\ r <= 99

DaysBefore(c, r, k, q, u, w) ==
  /\ k = Quot(146097 * c + 3, 4) /\ q = Quot(1461 * r, 4)
  /\ u = Quot(1461 * (100 * c + r - 100), 4) /\ w = Quot(3 * c, 4)
  /\ u - w + 36525 = k + q
  /\ 4 * k >= 146097 * c /\ 4 * k <= 146097 * c + 3
  /\ c % 4 = 0 => 4 * k = 146097 * c
  /\ 4 * q <= 1461 * r /\ 4 * q >= 1461 * r - 3
  /\ r % 4 = 3 => 4 * q = 1461 * r - 3

(* A leap day is at the end of a fourth year. *)
LeapDay(c, r, g) == g = 365 => r % 4 = 3 /\ (r = 99 => c % 4 = 0)

(* What julianToDate computes, one after the other. *)
Steps(jd, s, n, k, e, i, q, l, j, a, h) ==
  /\ s = jd + 68569 /\ n = Quot(4 * s, 146097) /\ k = Quot(146097 * n + 3, 4)
  /\ e = s - k /\ i = Quot(4000 * (e + 1), 1461001) /\ q = Quot(1461 * i, 4)
  /\ l = e - q + 31 /\ j = Quot(80 * l, 2447) /\ a = Quot(j, 11) /\ h = Quot(2447 * j, 80)

LEMMA DateBounds ==
  ASSUME NEW y \in Int, NEW m \in Int, NEW d \in Int, IsDate(y, m, d)
  PROVE  /\ 0 <= y /\ y <= 9999 /\ 1 <= m /\ m <= 12 /\ 1 <= d /\ d <= 31
         /\ m \in {4, 6, 9, 11} => d <= 30
         /\ m = 2 => d <= 29
         /\ m = 2 /\ d = 29 => y % 4 = 0 /\ (y % 100 = 0 => y % 400 = 0)
<1>0. y \in FourDigits /\ m \in 1..12 /\ d \in 1..DaysIn(y, m)
  BY Zenon DEF IsDate
<1>1. 0 <= y /\ y <= 9999 /\ m \in 1..12 /\ d \in 1..DaysIn(y, m)
  BY <1>0, SMT DEF FourDigits
<1>2. PICK n \in Int : n = DaysIn(y, m)
  BY DEF DaysIn
<1>3. 1 <= d /\ d <= n
  BY <1>1, <1>2
<1>4. CASE m \in {4, 6, 9, 11}
  <2>1. n = 30
    BY <1>2, <1>4 DEF DaysIn
  <2> QED
    BY <1>1, <1>3, <1>4, <2>1
<1>5. CASE m = 2
  <2>1. n <= 29 /\ (n = 29 => Leap(y))
    BY <1>2, <1>5 DEF DaysIn
  <2>2. Leap(y) => y % 4 = 0 /\ (y % 100 = 0 => y % 400 = 0)
    BY DEF Leap
  <2> QED
    BY <1>1, <1>3, <1>5, <2>1, <2>2
<1>6. CASE m \notin {2, 4, 6, 9, 11}
  <2>1. n = 31
    BY <1>2, <1>6 DEF DaysIn
  <2> QED
    BY <1>1, <1>3, <1>6, <2>1
<1> QED
  BY <1>4, <1>5, <1>6

(* Months from March, of which the days of the year tell month and day. *)
LEMMA MonthFacts ==
  ASSUME NEW m \in Int, 1 <= m, m <= 12, NEW d \in Int, 1 <= d, d <= 31,
         m \in {4, 6, 9, 11} => d <= 30, m = 2 => d <= 29
  PROVE  /\ Early(m) \in Int /\ Month(m) \in Int /\ Days(m, d) \in Int
         /\ Quot(367 * Month(m), 12) \in Int /\ Quot(2447 * Month(m), 80) \in Int
         /\ MonthOf(m, d, Early(m), Month(m), Quot(367 * Month(m), 12), Days(m, d),
                    Quot(2447 * Month(m), 80))
<1>1. CASE m = 1
  BY <1>1, SMT DEF MonthOf, Days, Month, Early, Quot
<1>2. CASE m = 2
  BY <1>2, SMT DEF MonthOf, Days, Month, Early, Quot
<1>3. CASE m = 3
  BY <1>3, SMT DEF MonthOf, Days, Month, Early, Quot
<1>4. CASE m = 4
  BY <1>4, SMT DEF MonthOf, Days, Month, Early, Quot
<1>5. CASE m = 5
  BY <1>5, SMT DEF MonthOf, Days, Month, Early, Quot
<1>6. CASE m = 6
  BY <1>6, SMT DEF MonthOf, Days, Month, Early, Quot
<1>7. CASE m = 7
  BY <1>7, SMT DEF MonthOf, Days, Month, Early, Quot
<1>8. CASE m = 8
  BY <1>8, SMT DEF MonthOf, Days, Month, Early, Quot
<1>9. CASE m = 9
  BY <1>9, SMT DEF MonthOf, Days, Month, Early, Quot
<1>10. CASE m = 10
  BY <1>10, SMT DEF MonthOf, Days, Month, Early, Quot
<1>11. CASE m = 11
  BY <1>11, SMT DEF MonthOf, Days, Month, Early, Quot
<1>12. CASE m = 12
  BY <1>12, SMT DEF MonthOf, Days, Month, Early, Quot
<1> QED
  BY <1>1, <1>2, <1>3, <1>4, <1>5, <1>6, <1>7, <1>8, <1>9, <1>10, <1>11, <1>12

LEMMA MonthFound ==
  ASSUME NEW y \in Int, NEW m \in Int, NEW d \in Int, IsDate(y, m, d)
  PROVE  \E a, p, v, g, h \in Int : MonthOf(m, d, a, p, v, g, h)
<1>1. /\ 1 <= m /\ m <= 12 /\ 1 <= d /\ d <= 31
      /\ m \in {4, 6, 9, 11} => d <= 30
      /\ m = 2 => d <= 29
  BY DateBounds
<1> DEFINE v == Quot(367 * Month(m), 12)
           h == Quot(2447 * Month(m), 80)
<1>2. /\ Early(m) \in Int /\ Month(m) \in Int /\ Days(m, d) \in Int /\ v \in Int /\ h \in Int
      /\ MonthOf(m, d, Early(m), Month(m), v, Days(m, d), h)
  BY <1>1, MonthFacts, SMT
<1> HIDE DEF v, h
<1> QED
  BY <1>2

(* The days before century c, and before year r of it. *)
LEMMA CenturyDays ==
  ASSUME NEW c \in Int, 48 <= c, c <= 148, NEW r \in Int, 0 <= r, r <= 99
  PROVE  \E k, q, u, w \in Int : DaysBefore(c, r, k, q, u, w)
<1>1. PICK k \in Int : k = (146097 * c + 3) \div 4
  BY SMT
<1>2. PICK q \in Int : q = (1461 * r) \div 4
  BY SMT
<1>3. PICK w \in Int : w = (3 * c) \div 4
  BY SMT
<1>4. PICK u \in Int : u = (1461 * (100 * c + r - 100)) \div 4
  BY SMT
<1>5. u = 36525 * (c - 1) + q
  BY <1>2, <1>4, SMT
<1>6. k = 36525 * c - w
  BY <1>1, <1>3, SMT
<1>7. /\ 4 * k >= 146097 * c /\ 4 * k <= 146097 * c + 3
      /\ c % 4 = 0 => 4 * k = 146097 * c
  BY <1>1, SMT
<1>8. /\ 4 * q <= 1461 * r /\ 4 * q >= 1461 * r - 3
      /\ r % 4 = 3 => 4 * q = 1461 * r - 3
  BY <1>2, SMT
<1>9. k = Quot(146097 * c + 3, 4)
  BY <1>1, SMT DEF Quot
<1>10. q = Quot(1461 * r, 4)
  BY <1>2, SMT DEF Quot
<1>11. w = Quot(3 * c, 4)
  BY <1>3, SMT DEF Quot
<1>12. u = Quot(1461 * (100 * c + r - 100), 4)
  BY <1>4, SMT DEF Quot
<1>13. u - w + 36525 = k + q
  BY <1>5, <1>6, SMT
<1> QED
  BY <1>7, <1>8, <1>9, <1>10, <1>11, <1>12, <1>13, SMT DEF DaysBefore

(* The day number, taken apart. *)
LEMMA DayNumber ==
  ASSUME NEW y \in Int, NEW m \in Int, NEW d \in Int,
         NEW a \in Int, NEW p \in Int, NEW v \in Int, NEW g \in Int, NEW h \in Int,
         NEW c \in Int, NEW r \in Int,
         NEW k \in Int, NEW q \in Int, NEW u \in Int, NEW w \in Int,
         MonthOf(m, d, a, p, v, g, h), YearOf(y, a, c, r), DaysBefore(c, r, k, q, u, w)
  PROVE  \E jd, s \in Int : jd = julianDate(y, m, d) /\ s = jd + 68569 /\ s = k + (q + g)
<1>1. /\ Quot(m - 14, 12) = -a /\ p = m - 2 + 12 * a /\ v = Quot(367 * p, 12)
      /\ g = v + d - 31
  BY DEF MonthOf
<1>2. /\ y + 4900 - a = 100 * c + r /\ 48 <= c /\ 0 <= r /\ r <= 99
  BY DEF YearOf
<1>3. /\ u = Quot(1461 * (100 * c + r - 100), 4) /\ w = Quot(3 * c, 4)
      /\ u - w + 36525 = k + q
  BY SMT DEF DaysBefore
<1>4. PICK s \in Int : s = 100 * c + r
  OBVIOUS
<1>5. s \div 100 = c
  BY <1>2, <1>4, SMT
<1>6. Quot(s, 100) = c
  BY <1>2, <1>4, <1>5, SMT DEF Quot
<1>7. /\ y + 4800 + Quot(m - 14, 12) = 100 * c + r - 100
      /\ m - 2 - 12 * Quot(m - 14, 12) = p
      /\ y + 4900 + Quot(m - 14, 12) = s
  BY <1>1, <1>2, <1>4, SMT
<1>8. julianDate(y, m, d) = u + v - w + d - 32075
  BY <1>1, <1>3, <1>6, <1>7, SMT DEF julianDate
<1> QED
  BY <1>1, <1>3, <1>8, SMT

(* The century and the year in it are found again. *)
LEMMA CenturyFound ==
  ASSUME NEW y \in Int, NEW m \in Int, NEW d \in Int,
         NEW a \in Int, NEW p \in Int, NEW v \in Int, NEW g \in Int, NEW h \in Int,
         NEW c \in Int, NEW r \in Int,
         NEW k \in Int, NEW q \in Int, NEW u \in Int, NEW w \in Int,
         MonthOf(m, d, a, p, v, g, h), YearOf(y, a, c, r), DaysBefore(c, r, k, q, u, w),
         LeapDay(c, r, g)
  PROVE  /\ \A s \in Int : s = k + (q + g) => Quot(4 * s, 146097) = c
         /\ \A e \in Int : e = q + g => Quot(4000 * (e + 1), 1461001) = r
<1>1. 0 <= g /\ g <= 365
  BY DEF MonthOf
<1>2. 48 <= c /\ 0 <= r /\ r <= 99
  BY DEF YearOf
<1>3. /\ 4 * k >= 146097 * c /\ 4 * k <= 146097 * c + 3
      /\ c % 4 = 0 => 4 * k = 146097 * c
      /\ 4 * q <= 1461 * r /\ 4 * q >= 1461 * r - 3
      /\ r % 4 = 3 => 4 * q = 1461 * r - 3
  BY SMT DEF DaysBefore
<1>4. g = 365 => r % 4 = 3 /\ (r = 99 => c % 4 = 0)
  BY DEF LeapDay
<1>5. 4 * q + 4 * g <= 146094 \/ (4 * q + 4 * g <= 146099 /\ c % 4 = 0)
  <2>1. CASE r <= 98
    BY <1>1, <1>3, <2>1, SMT
  <2>2. CASE r = 99
    BY <1>1, <1>3, <1>4, <2>2, SMT
  <2> QED
    BY <1>2, <2>1, <2>2, SMT
<1>6. ASSUME NEW s \in Int, s = k + (q + g) PROVE Quot(4 * s, 146097) = c
  <2>1. PICK n \in Int : n = 4 * s
    OBVIOUS
  <2>2. n >= 146097 * c /\ n < 146097 * c + 146097
    BY <1>1, <1>2, <1>3, <1>5, <1>6, <2>1, SMT
  <2>3. Quot(n, 146097) = c
    BY <1>2, <2>2, SMT DEF Quot
  <2> QED
    BY <2>1, <2>3, SMT
<1>7. ASSUME NEW e \in Int, e = q + g PROVE Quot(4000 * (e + 1), 1461001) = r
  <2>1. PICK n \in Int : n = 4000 * (e + 1)
    OBVIOUS
  <2>2. 4 * q + 4 * g + 4 >= 1461 * r + 1 /\ 4 * q + 4 * g + 4 <= 1461 * r + 1461
    BY <1>1, <1>2, <1>3, <1>4, SMT
  <2>3. n >= 1461001 * r /\ n < 1461001 * r + 1461001
    BY <1>2, <1>7, <2>1, <2>2, SMT
  <2>4. Quot(n, 1461001) = r
    BY <1>2, <2>3, SMT DEF Quot
  <2> QED
    BY <2>1, <2>4, SMT
<1> QED
  BY <1>6, <1>7, SMT

LEMMA LeapYear ==
  ASSUME NEW y \in Int, NEW m \in Int, NEW d \in Int, IsDate(y, m, d),
         NEW a \in Int, NEW p \in Int, NEW v \in Int, NEW g \in Int, NEW h \in Int,
         NEW c \in Int, NEW r \in Int, MonthOf(m, d, a, p, v, g, h), YearOf(y, a, c, r)
  PROVE  LeapDay(c, r, g)
<1> SUFFICES ASSUME g = 365 PROVE r % 4 = 3 /\ (r = 99 => c % 4 = 0)
  BY DEF LeapDay
<1>1. m = 2 /\ d = 29 /\ a = 1
  BY DEF MonthOf
<1>2. y % 4 = 0 /\ (y % 100 = 0 => y % 400 = 0)
  BY <1>1, DateBounds
<1>3. y + 4899 = 100 * c + r
  BY <1>1, SMT DEF YearOf
<1>4. r % 4 = 3
  BY <1>2, <1>3, SMT
<1>5. ASSUME r = 99 PROVE c % 4 = 0
  <2>1. y = 100 * (c - 48)
    BY <1>3, <1>5, SMT
  <2>2. y % 100 = 0
    BY <2>1, SMT
  <2> QED
    BY <1>2, <2>1, <2>2, SMT
<1> QED
  BY <1>4, <1>5

(* julianToDate, step by step. *)
LEMMA ToDateSteps ==
  ASSUME NEW jd, NEW s, NEW n, NEW k, NEW e, NEW i, NEW q, NEW l, NEW j, NEW a, NEW h,
         Steps(jd, s, n, k, e, i, q, l, j, a, h)
  PROVE  julianToDate(jd) = <<100 * (n - 49) + i + a, j + 2 - 12 * a, l - h>>
BY SMT DEF Steps, julianToDate

LEMMA StepsOf ==
  ASSUME NEW y \in Int, NEW m \in Int, NEW d \in Int,
         NEW a \in Int, NEW p \in Int, NEW v \in Int, NEW g \in Int, NEW h \in Int,
         NEW c \in Int, NEW r \in Int,
         NEW k \in Int, NEW q \in Int, NEW u \in Int, NEW w \in Int,
         MonthOf(m, d, a, p, v, g, h), DaysBefore(c, r, k, q, u, w),
         NEW jd \in Int, NEW s \in Int, s = jd + 68569, s = k + (q + g),
         NEW e \in Int, e = q + g, NEW l \in Int, l = g + 31,
         Quot(4 * s, 146097) = c, Quot(4000 * (e + 1), 1461001) = r
  PROVE  Steps(jd, s, c, k, e, r, q, l, p, a, h) /\ l - h = d /\ p + 2 - 12 * a = m
<1>1. /\ Quot(80 * (g + 31), 2447) = p /\ Quot(p, 11) = a /\ h = Quot(2447 * p, 80)
      /\ g + 31 - h = d /\ p = m - 2 + 12 * a
  BY SMT DEF MonthOf
<1>2. k = Quot(146097 * c + 3, 4) /\ q = Quot(1461 * r, 4)
  BY SMT DEF DaysBefore
<1>3. Quot(80 * l, 2447) = p
  BY <1>1, SMT
<1>4. e = s - k /\ l = e - q + 31
  BY SMT
<1>5. l - h = d /\ p + 2 - 12 * a = m
  BY <1>1, SMT
<1> QED
  BY <1>1, <1>2, <1>3, <1>4, <1>5, SMT DEF Steps

(* The day number of a date tells the date: julianToDate inverts           *)
(* julianDate for every date of four digits (conversion.go).               *)
THEOREM DatesReadBack ==
  ASSUME NEW y \in Int, NEW m \in Int, NEW d \in Int, IsDate(y, m, d)
  PROVE  julianToDate(julianDate(y, m, d)) = <<y, m, d>>
<1>1. /\ 0 <= y /\ y <= 9999 /\ 1 <= m /\ m <= 12 /\ 1 <= d /\ d <= 31
  BY DateBounds
<1>2. PICK a \in Int, p \in Int, v \in Int, g \in Int, h \in Int :
        MonthOf(m, d, a, p, v, g, h)
  BY MonthFound
<1>3. PICK c \in Int, r \in Int : YearOf(y, a, c, r)
  <2>1. PICK z \in Int : z = y + 4900 - a
    OBVIOUS
  <2>2. PICK c \in Int, r \in Int : c = z \div 100 /\ r = z % 100
    BY SMT
  <2>3. 0 <= a /\ a <= 1
    BY <1>2 DEF MonthOf
  <2>4. z = 100 * c + r /\ 0 <= r /\ r <= 99 /\ 48 <= c /\ c <= 148
    BY <1>1, <2>1, <2>2, <2>3, SMT
  <2> QED
    BY <2>1, <2>4 DEF YearOf
<1>4. 48 <= c /\ c <= 148 /\ 0 <= r /\ r <= 99 /\ y = 100 * (c - 49) + r + a
  BY <1>3, SMT DEF YearOf
<1>5. PICK k \in Int, q \in Int, u \in Int, w \in Int : DaysBefore(c, r, k, q, u, w)
  BY <1>4, CenturyDays
<1>6. PICK jd \in Int, s \in Int :
        jd = julianDate(y, m, d) /\ s = jd + 68569 /\ s = k + (q + g)
  BY <1>2, <1>3, <1>5, DayNumber, SMT
<1>7. PICK e \in Int, l \in Int : e = q + g /\ l = g + 31
  OBVIOUS
<1>8. Quot(4 * s, 146097) = c /\ Quot(4000 * (e + 1), 1461001) = r
  <2>1. LeapDay(c, r, g)
    BY <1>2, <1>3, LeapYear
  <2> QED
    BY <1>2, <1>3, <1>5, <1>6, <1>7, <2>1, CenturyFound, SMT
<1>9. Steps(jd, s, c, k, e, r, q, l, p, a, h) /\ l - h = d /\ p + 2 - 12 * a = m
  BY <1>2, <1>5, <1>6, <1>7, <1>8, StepsOf, SMT
<1>10. julianToDate(jd) = <<100 * (c - 49) + r + a, p + 2 - 12 * a, l - h>>
  BY <1>9, ToDateSteps
<1> QED
  BY <1>4, <1>6, <1>9, <1>10
(* Day 0 is before the years of four digits. *)
LEMMA NoDate == julianToDate(0)[1] \notin FourDigits
<1>1. Quot(4 * 68569, 146097) = 1 /\ Quot(146097 * 1 + 3, 4) = 36525
  BY SMT DEF Quot
<1>2. Quot(4000 * (32044 + 1), 1461001) = 87 /\ Quot(1461 * 87, 4) = 31776
  BY SMT DEF Quot
<1>3. Quot(80 * 299, 2447) = 9 /\ Quot(9, 11) = 0 /\ Quot(2447 * 9, 80) = 275
  BY SMT DEF Quot
<1>4. Steps(0, 68569, 1, 36525, 32044, 87, 31776, 299, 9, 0, 275)
  BY <1>1, <1>2, <1>3, SMT DEF Steps
<1>5. julianToDate(0) = <<100 * (1 - 49) + 87 + 0, 9 + 2 - 12 * 0, 299 - 275>>
  BY <1>4, ToDateSteps, SMT
<1>6. julianToDate(0) = <<-4713, 11, 24>>
  BY <1>5, SMT
<1>7. PICK y \in Int : y = -4713 /\ julianToDate(0) = <<y, 11, 24>>
  BY <1>6, SMT
<1>8. y \notin FourDigits
  BY <1>7, SMT DEF FourDigits
<1>9. <<y, 11, 24>>[1] = y
  OBVIOUS
<1>10. julianToDate(0) = <<y, 11, 24>>
  BY <1>7
<1> QED
  BY <1>8, <1>9, <1>10, Zenon

LEMMA DayIsInt ==
  ASSUME NEW y \in Int, NEW m \in Int, NEW d \in Int
  PROVE  julianDate(y, m, d) \in Int
BY SMT DEF julianDate, Quot

LEMMA FourNumbers ==
  ASSUME NEW v \in Seq(Int), Len(v) = 4
  PROVE  v = <<v[1], v[2], v[3], v[4]>> /\ \A j \in 1..4 : v[j] \in Int
OBVIOUS

LEMMA TwoWords ==
  ASSUME NEW a \in Int, NEW b \in Int
  PROVE  /\ <<a, b>> \in Seq(Int) /\ Len(<<a, b>>) = 2
         /\ <<a, b>>[1] = a /\ <<a, b>>[2] = b
OBVIOUS

LEMMA DateAndTime ==
  ASSUME NEW y \in Int, NEW m \in Int, NEW d \in Int, NEW ms \in Int
  PROVE  <<y, m, d>> \o <<ms>> = <<y, m, d, ms>>
<1> DEFINE s == <<y, m, d>> \o <<ms>>
           t == <<y, m, d, ms>>
<1>1. s \in Seq(Int) /\ Len(s) = 4
  OBVIOUS
<1>2. t \in Seq(Int) /\ Len(t) = 4
  OBVIOUS
<1>3. \A j \in 1..4 : s[j] = t[j]
  OBVIOUS
<1> HIDE DEF s, t
<1>4. s = t
  BY <1>1, <1>2, <1>3, SeqEqual
<1> QED
  BY <1>4 DEF s, t

LEMMA ZeroTimeIsLegal ==
  ASSUME NEW col, col.type = "T"
  PROVE  Legal(col, ZeroTime)
<1>1. /\ ZeroTime.t = "time" /\ ZeroTime.v = <<1, 1, 1, 0>>
      /\ ZeroTime \in [t : TypeNames, v : Seq(Int)]
  <2>1. <<1, 1, 1, 0>> \in Seq(Int)
    OBVIOUS
  <2> QED
    <3>1. PICK v \in Seq(Int) : v = <<1, 1, 1, 0>>
      BY <2>1
    <3>2. /\ Value("time", v).t = "time" /\ Value("time", v).v = v
          /\ Value("time", v) \in [t : TypeNames, v : Seq(Int)]
      BY ValueType, NamesOfTypes
    <3> QED
      BY <3>1, <3>2 DEF ZeroTime
<1>2. IsTime(<<1, 1, 1, 0>>)
  BY SMT DEF IsTime, IsDate, FourDigits, DaysIn
<1>3. ~IsVar(col)
  BY DEF IsVar
<1> QED
  BY <1>1, <1>2, <1>3 DEF Legal

(* A time, but for the one that stands for none. *)
LEMMA TimeFieldRead ==
  ASSUME TypeOK, WrittenInv, record # None, NEW i \in DOMAIN cols, cols[i].type = "T"
  PROVE  Legal(cols[i], FieldOf(i)) /\ FieldOf(i) = Kept(cols[i], written[i])
<1> DEFINE col == cols[i]
           val == written[i]
           bytes == Represent(col, val)
<1>1. /\ col.len = 2 /\ ~IsVar(col)
      /\ val \in [t : TypeNames, v : Seq(Int)] /\ val.t \in {"nil", "time"}
      /\ (val.t = "time" => IsTime(val.v))
  <2>1. col = Column(col.type, col.len, col.nullable)
    BY ColumnType DEF Columns
  <2>2. col.len = 2
    BY <2>1 DEF Column
  <2> QED
    BY <2>2 DEF WrittenInv, Legal, PlainTypes, IsVar, Accepts, GoTypes
<1>2. record.cells[i] = Copied(bytes, 2)
  BY <1>1 DEF WrittenInv, Image, Cell, Partial
<1>3. FieldOf(i) = TimeOf(Copied(bytes, 2))
  BY <1>1, <1>2 DEF FieldOf, Interpret
<1>4. CASE val.t = "nil" \/ val = ZeroTime
  <2>1. bytes = Repeat(NUL, 2) /\ Len(bytes) = 2
    <3>1. bytes = Repeat(NUL, 2)
      BY <1>1, <1>4 DEF Represent, DateTimeBytes
    <3>2. NUL \in Int
      BY DEF NUL
    <3> QED
      BY <3>1, <3>2, RepeatType
  <2>2. Copied(bytes, 2)[1] = 0
    BY <2>1 DEF Copied, Repeat, NUL
  <2>3. FieldOf(i) = ZeroTime
    BY <1>3, <2>2, NoDate, Zenon DEF TimeOf
  <2>4. Kept(col, val) = ZeroTime
    BY <1>4 DEF Kept, ZeroTime, Value
  <2> QED
    BY <2>3, <2>4, ZeroTimeIsLegal
<1>5. CASE val.t = "time" /\ val # ZeroTime
  <2>1. PICK y \in Int, m \in Int, d \in Int, ms \in Int :
          val.v = <<y, m, d, ms>> /\ IsDate(y, m, d)
    BY <1>1, <1>5, FourNumbers DEF IsTime
  <2>2. PICK jd \in Int : jd = julianDate(y, m, d) /\ julianToDate(jd) = <<y, m, d>>
    <3>1. julianDate(y, m, d) \in Int
      BY DayIsInt
    <3>2. julianToDate(julianDate(y, m, d)) = <<y, m, d>>
      BY <2>1, DatesReadBack
    <3> QED
      BY <3>1, <3>2
  <2>3. bytes = <<jd, ms>>
    BY <1>1, <1>5, <2>1, <2>2 DEF Represent, DateTimeBytes
  <2>4. Copied(bytes, 2) = bytes
    <3>1. bytes \in Seq(Int) /\ Len(bytes) = 2
      BY <2>3, TwoWords
    <3> HIDE DEF bytes
    <3> QED
      BY <3>1, CopiedWhole
  <2>5. y \in FourDigits
    BY <2>1 DEF IsDate
  <2>6. FieldOf(i) = Value("time", <<y, m, d>> \o <<ms>>)
    <3>1. bytes[1] = jd /\ bytes[2] = ms
      BY <2>3, TwoWords
    <3>2. julianToDate(bytes[1])[1] \in FourDigits
      <4>1. <<y, m, d>>[1] = y
        OBVIOUS
      <4> QED
        BY <2>2, <2>5, <3>1, <4>1, Zenon
    <3>3. FieldOf(i) = TimeOf(bytes)
      BY <1>3, <2>4
    <3> HIDE DEF bytes
    <3>4. TimeOf(bytes) = Value("time", julianToDate(bytes[1]) \o <<bytes[2]>>)
      BY <3>2, Zenon DEF TimeOf
    <3> QED
      BY <2>2, <3>1, <3>3, <3>4
  <2>7. <<y, m, d>> \o <<ms>> = val.v
    BY <2>1, DateAndTime
  <2>8. FieldOf(i) = val
    BY <1>1, <1>5, <2>6, <2>7 DEF Value
  <2>9. Kept(col, val) = val
    BY <1>5 DEF Kept
  <2> QED
    BY <2>8, <2>9 DEF WrittenInv
<1> QED
  BY <1>1, <1>4, <1>5

LEMMA LayoutOfTable ==
  ASSUME TypeOK, \A layout \in Layouts : LayoutOK(layout), NEW i \in DOMAIN cols
  PROVE  VarColumnsFirst(cols) /\ OneFlagByte(cols)
<1>1. cols # <<>>
  OBVIOUS
<1> QED
  BY <1>1 DEF TypeOK, LayoutOK

LEMMA NilIsLegal ==
  ASSUME NEW col
  PROVE  Legal(col, NilValue)
<1>1. NilValue.t = "nil" /\ NilValue.v = <<>> /\ NilValue \in [t : TypeNames, v : Seq(Int)]
  <2>1. <<>> \in Seq(Int)
    OBVIOUS
  <2> QED
    BY <2>1, ValueType, NamesOfTypes DEF NilValue
<1> QED
  BY <1>1 DEF Legal, GoTypes

(* Programs are offered legal values only. *)
LEMMA OfferedIsLegal ==
  ASSUME TypeOK, EmptyIsNull, NEW i \in DOMAIN cols, NEW val \in Offered(i)
  PROVE  Legal(cols[i], val)
<1> DEFINE col == cols[i]
<1>1. CASE val = NilValue
  BY <1>1, NilIsLegal
<1>2. CASE val # NilValue
  <2>1. val \in FieldValues[col.type] /\ col.type \in DOMAIN GoTypes
    BY <1>2, ColumnType DEF Offered
  <2>2. val \in [t : TypeNames, v : Seq(Int)]
    BY <2>1, CodecAssumption
  <2>3. IsVar(col) => col.nullable \/ val.v # <<>>
    BY <1>2 DEF Offered
  <2>4. col.type = "L" /\ val.t = "bool" => val.v \in {<<0>>, <<1>>}
    BY <2>1, CodecAssumption
  <2>5. col.type = "I" /\ val.t \in GoTypes.I => Len(val.v) = 1
    BY <2>1, CodecAssumption
  <2>6. col.type = "T" /\ val.t = "time" => IsTime(val.v)
    BY <2>1, CodecAssumption
  <2> QED
    BY <2>2, <2>3, <2>4, <2>5, <2>6 DEF Legal
<1> QED
  BY <1>1, <1>2

(* What is read may be written again. *)
LEMMA FieldIsLegal ==
  ASSUME TypeOK, WrittenInv, record # None, \A layout \in Layouts : LayoutOK(layout),
         NEW i \in DOMAIN cols
  PROVE  Legal(cols[i], FieldOf(i))
<1>1. CASE cols[i].type = "C"
  BY <1>1, CharacterFieldRead
<1>2. CASE cols[i].type = "L"
  BY <1>2, LogicalFieldRead
<1>3. CASE cols[i].type = "V"
  BY <1>3, LayoutOfTable, VarFieldKept DEF IsVar
<1>4. CASE cols[i].type = "I"
  BY <1>4, IntegerFieldRead
<1>5. CASE cols[i].type = "T"
  BY <1>5, TimeFieldRead
<1>6. CASE cols[i].type \notin PlainTypes
  BY <1>6 DEF Legal
<1> QED
  BY <1>1, <1>2, <1>3, <1>4, <1>5, <1>6 DEF PlainTypes

LEMMA RowInit == Init => RowInv
BY DEF Init, RowInv, LegalInv, WrittenInv, ReadInv

LEMMA RowNext ==
  ASSUME TypeOK, RowInv, EmptyIsNull, \A layout \in Layouts : LayoutOK(layout),
         [Next]_vars
  PROVE  RowInv'
<1>1. ASSUME NEW layout \in Layouts, NewTable(layout) PROVE RowInv'
  <2>1. record' = None /\ last' # "read"
    BY <1>1 DEF NewTable, TypeOK, RowInv, ReadInv
  <2>2. layout \in Seq(Columns) /\ cols' = layout
    BY <1>1, CodecAssumption DEF NewTable
  <2>3. \A i \in DOMAIN cols' : row'[i] = NilValue
    BY <1>1, <2>2 DEF NewTable
  <2>4. LegalInv'
    BY <2>3, NilIsLegal DEF LegalInv
  <2> QED
    BY <2>1, <2>4 DEF RowInv, WrittenInv, ReadInv
<1>2. ASSUME NEW i \in DOMAIN cols, NEW val \in Offered(i), SetValue(i, val)
      PROVE  RowInv'
  <2>1. Legal(cols[i], val)
    BY OfferedIsLegal
  <2>2. LegalInv'
    BY <1>2, <2>1 DEF SetValue, LegalInv, RowInv, TypeOK
  <2>3. WrittenInv'
    BY <1>2 DEF SetValue, WrittenInv, RowInv, Image, FlagsOf, varPos
  <2>4. ReadInv'
    BY <1>2 DEF SetValue, ReadInv
  <2> QED
    BY <2>2, <2>3, <2>4 DEF RowInv
<1>3. CASE Write
  <2>1. LegalInv'
    BY <1>3 DEF Write, LegalInv, RowInv
  <2>2. record' = Image(row) /\ UNCHANGED cols /\ written' = row
    BY <1>3 DEF Write
  <2>3. record' = Image(written)'
    BY <2>2 DEF Image, FlagsOf, varPos
  <2>4. ASSUME NEW i \in DOMAIN cols
        PROVE  /\ Legal(cols[i], row[i]) /\ Accepts(cols[i], row[i])
               /\ Partial(cols[i], row[i]) \/ Empty(cols[i], row[i]) => varPos(i) < FlagBits
    <3>1. Legal(cols[i], row[i]) /\ Accepts(cols[i], row[i])
      BY <1>3 DEF Write, Accepted, LegalInv, RowInv
    <3>2. IsVar(cols[i]) => varPos(i) \in Nat
      BY LayoutOfTable, BitsInByte
    <3>3. Partial(cols[i], row[i]) \/ Empty(cols[i], row[i]) => IsVar(cols[i])
      BY DEF Partial, Empty
    <3>4. Partial(cols[i], row[i]) \/ Empty(cols[i], row[i]) => ~(varPos(i) >= FlagBits)
      BY <1>3 DEF Write, OutOfFlags
    <3> QED
      BY <3>1, <3>2, <3>3, <3>4, CodecAssumption
  <2>5. WrittenInv'
    BY <2>2, <2>3, <2>4 DEF WrittenInv, varPos
  <2>6. ReadInv'
    BY <1>3 DEF Write, ReadInv
  <2> QED
    BY <2>1, <2>5, <2>6 DEF RowInv
<1>4. CASE WriteRefused \/ WritePanics \/ ReadFails
  <2>1. UNCHANGED <<cols, row, record, written>> /\ last' # "read"
    BY <1>4 DEF WriteRefused, WritePanics, ReadFails
  <2> QED
    BY <2>1 DEF RowInv, LegalInv, WrittenInv, ReadInv, Image, FlagsOf, varPos
<1>5. CASE Read
  <2>1. record # None /\ UNCHANGED <<cols, record, written>>
        /\ row' = [i \in DOMAIN cols |-> FieldOf(i)]
    BY <1>5 DEF Read
  <2>2. LegalInv'
    BY <2>1, FieldIsLegal DEF LegalInv, RowInv
  <2>3. WrittenInv'
    BY <2>1 DEF WrittenInv, RowInv, Image, FlagsOf, varPos
  <2>4. ReadInv'
    BY <2>1 DEF ReadInv, FieldOf, ReadNullFlag, nullFlagPosition, LengthIn
  <2> QED
    BY <2>2, <2>3, <2>4 DEF RowInv
<1>6. CASE UNCHANGED vars
  <2>1. UNCHANGED <<cols, row, record, written, last>>
    BY <1>6 DEF vars
  <2>2. LegalInv'
    BY <2>1 DEF LegalInv, RowInv
  <2>3. WrittenInv'
    BY <2>1 DEF WrittenInv, RowInv, Image, FlagsOf, varPos
  <2>4. ReadInv'
    BY <2>1 DEF ReadInv, RowInv, FieldOf, ReadNullFlag, nullFlagPosition, LengthIn
  <2> QED
    BY <2>2, <2>3, <2>4 DEF RowInv
<1> QED
  BY <1>1, <1>2, <1>3, <1>4, <1>5, <1>6 DEF Next

LEMMA FieldKept ==
  ASSUME TypeOK, RowInv, last = "read", \A layout \in Layouts : LayoutOK(layout),
         NEW i \in DOMAIN cols, cols[i].type \in PlainTypes
  PROVE  FieldReadsBack(i)
<1>1. record # None /\ WrittenInv /\ row[i] = FieldOf(i)
  BY DEF RowInv, ReadInv
<1>2. CASE cols[i].type = "C"
  BY <1>1, <1>2, CharacterFieldRead DEF FieldReadsBack
<1>3. CASE cols[i].type = "L"
  BY <1>1, <1>3, LogicalFieldRead DEF FieldReadsBack
<1>4. CASE cols[i].type = "V"
  BY <1>1, <1>4, LayoutOfTable, VarFieldKept DEF FieldReadsBack, IsVar
<1>5. CASE cols[i].type = "I"
  BY <1>1, <1>5, IntegerFieldRead DEF FieldReadsBack
<1>6. CASE cols[i].type = "T"
  BY <1>1, <1>6, TimeFieldRead DEF FieldReadsBack
<1> QED
  BY <1>2, <1>3, <1>4, <1>5, <1>6 DEF PlainTypes

(* A row reads back as it was written, whatever texts, integers and times  *)
(* its fields hold, in every table of C, V, I, L and T columns whose V     *)
(* columns come first, the last excepted, and whose flags fit in one byte  *)
(* (Row.ToBytes, File.BytesToRow).                                         *)
THEOREM FieldsReadBack ==
  ASSUME EmptyIsNull, \A layout \in Layouts : LayoutOK(layout),
         \A layout \in Layouts : \A i \in DOMAIN layout : layout[i].type \in PlainTypes
  PROVE  Spec => []ReadsBack
<1>1. Init => TypeOK /\ RowInv
  BY TypeInit, RowInit
<1>2. TypeOK /\ RowInv /\ [Next]_vars => (TypeOK /\ RowInv)'
  BY TypeNext, RowNext
<1>3. TypeOK /\ RowInv => ReadsBack
  <2> SUFFICES ASSUME TypeOK, RowInv, last = "read", NEW i \in DOMAIN cols
               PROVE  FieldReadsBack(i)
    BY DEF ReadsBack
  <2>1. cols # <<>>
    OBVIOUS
  <2>2. cols[i].type \in PlainTypes
    BY <2>1 DEF TypeOK
  <2> QED
    BY <2>2, FieldKept
<1> QED
  BY <1>1, <1>2, <1>3, PTL DEF Spec

(* The null flags never make a row unreadable, nor do values of the types  *)
(* that any bytes stand for: a row of a table without N and D columns that *)
(* was written without an error can be read.                               *)
THEOREM RowsAreReadable ==
  ASSUME EmptyIsNull, \A layout \in Layouts : LayoutOK(layout),
         \A layout \in Layouts : \A i \in DOMAIN layout : layout[i].type \notin {"N", "D"}
  PROVE  Spec => []RowReadable
<1> DEFINE Readable == last # "unreadable"
<1>1. Init => TypeOK /\ RowInv /\ Readable
  BY TypeInit, RowInit DEF Init
<1>2. ASSUME TypeOK, RowInv, Readable, [Next]_vars PROVE (TypeOK /\ RowInv /\ Readable)'
  <2>1. (TypeOK /\ RowInv)'
    BY <1>2, TypeNext, RowNext
  <2>2. ASSUME ReadFails PROVE FALSE
    <3>1. record # None /\ WrittenInv
      BY <1>2, <2>2 DEF ReadFails, RowInv
    <3>2. PICK i \in DOMAIN cols : FieldFails(i)
      BY <2>2 DEF ReadFails
    <3>3. CASE IsVar(cols[i])
      <4>1. ReadNullFlag(i).varlen = Partial(cols[i], written[i])
        BY <1>2, <3>1, <3>3, LayoutOfTable, FlagsTell
      <4>2. Partial(cols[i], written[i])
        BY <3>2, <3>3, <4>1 DEF FieldFails
      <4>3. LengthIn(i) < cols[i].len
        BY <1>2, <3>1, <3>3, <4>2, VarLengthRead
      <4>4. LengthIn(i) > cols[i].len
        BY <3>2, <3>3 DEF FieldFails
      <4> QED
        BY <1>2, <3>1, <3>3, <4>2, <4>3, <4>4, VarLengthRead
    <3>4. CASE ~IsVar(cols[i])
      <4>1. cols # <<>> /\ cols[i].type \notin {"N", "D"}
        BY <1>2 DEF TypeOK
      <4> QED
        BY <3>2, <3>4, <4>1 DEF FieldFails, Interprets
    <3> QED
      BY <3>3, <3>4
  <2>3. Readable'
    BY <1>2, <2>2 DEF Next, NewTable, SetValue, Write, WriteRefused, WritePanics, Read, vars
  <2> QED
    BY <2>1, <2>3
<1>3. Readable => RowReadable
  BY DEF RowReadable
<1> QED
  BY <1>1, <1>2, <1>3, PTL DEF Spec
=============================================================================
