------------------------------- MODULE Values -------------------------------
(***************************************************************************)
(* What a field of each type is in a record, and back: File.Represent and  *)
(* File.Interpret (interpreter.go, conversion.go).  A cell, the place of a *)
(* column in a record, is a sequence of bytes; a T cell is two words.      *)
(*                                                                         *)
(* Left out: decimals (Y, B, F and N with decimals), encodings other than  *)
(* ASCII, times given as strings, memo columns (MemoFile has them).        *)
(***************************************************************************)
EXTENDS Integers, Sequences, SequencesExt

CONSTANTS
  MaxInt,              (* the largest I value: math.MaxInt32               *)
  MaxCharacterLength   (* 254                                              *)

ASSUME ValuesAssumption ==
  MaxInt \in Nat /\ MaxCharacterLength \in Nat

(***************************************************************************)
(* Bytes.                                                                  *)
(***************************************************************************)
NUL   == 0
Minus == 45
Space == 32
Digit(d) == 48 + d

Repeat(b, n) == [j \in 1..n |-> b]

(* copy to a slice of n zero bytes *)
Copied(s, n) == [j \in 1..n |-> IF j <= Len(s) THEN s[j] ELSE NUL]

Appended(s, n, b)  == IF Len(s) < n THEN s \o Repeat(b, n - Len(s)) ELSE s
Prepended(s, n, b) == IF Len(s) < n THEN Repeat(b, n - Len(s)) \o s ELSE s

(* The bytes but NUL, without spaces at the ends. *)
Sanitized_Spaces(s) == SelectSeq(s, LAMBDA b : b # NUL)
Sanitized(s) ==
  LET bytes == SelectSeq(s, LAMBDA b : b # NUL)
      solid == {j \in 1..Len(bytes) : bytes[j] # Space}
  IN  IF solid = {} THEN <<>>
      ELSE SubSeq(bytes, CHOOSE j \in solid : \A k \in solid : j <= k,
                         CHOOSE j \in solid : \A k \in solid : k <= j)

(***************************************************************************)
(* Decimal numbers (strconv).                                              *)
(***************************************************************************)
Digits[n \in Nat] ==
  IF n < 10 THEN <<Digit(n)>> ELSE Append(Digits[n \div 10], Digit(n % 10))

Decimal(n) == IF n < 0 THEN <<Minus>> \o Digits[-n] ELSE Digits[n]

IsDigits(s) == s # <<>> /\ \A j \in 1..Len(s) : s[j] \in Digit(0)..Digit(9)
ValueOf(s)  == FoldLeft(LAMBDA n, b : 10 * n + (b - Digit(0)), 0, s)

(* The digits of a number that may have a sign. *)
Unsigned(s) == IF s # <<>> /\ Head(s) = Minus THEN Tail(s) ELSE s
IsInt(s)    == s = <<>> \/ IsDigits(Unsigned(s))
ParseInt(s) == IF s = <<>> THEN 0
               ELSE IF Head(s) = Minus THEN -ValueOf(Tail(s)) ELSE ValueOf(s)

(***************************************************************************)
(* Dates.  Go's division goes towards zero.                                *)
(***************************************************************************)
Quot(a, b) == IF a >= 0 THEN a \div b ELSE -((-a) \div b)

julianDate(y, m, d) ==
    Quot(1461 * (y + 4800 + Quot(m - 14, 12)), 4)
  + Quot(367 * (m - 2 - 12 * Quot(m - 14, 12)), 12)
  - Quot(3 * Quot(y + 4900 + Quot(m - 14, 12), 100), 4)
  + d - 32075

(* The year, month and day of a Julian day number. *)
julianToDate(jd) ==
  LET l1 == jd + 68569
      n  == Quot(4 * l1, 146097)
      l2 == l1 - Quot(146097 * n + 3, 4)
      i  == Quot(4000 * (l2 + 1), 1461001)
      l3 == l2 - Quot(1461 * i, 4) + 31
      j  == Quot(80 * l3, 2447)
      l4 == Quot(j, 11)
  IN  <<100 * (n - 49) + i + l4, j + 2 - 12 * l4, l3 - Quot(2447 * j, 80)>>

Leap(y) == y % 4 = 0 /\ (y % 100 # 0 \/ y % 400 = 0)
DaysIn(y, m) == CASE m \in {4, 6, 9, 11} -> 30
                  [] m = 2 /\ Leap(y)    -> 29
                  [] m = 2 /\ ~Leap(y)   -> 28
                  [] OTHER               -> 31

(* The years of four digits. *)
FourDigits == 0..9999

IsDate(y, m, d) == y \in FourDigits /\ m \in 1..12 /\ d \in 1..DaysIn(y, m)

(* A date and the milliseconds of the day. *)
IsTime(v) == Len(v) = 4 /\ IsDate(v[1], v[2], v[3]) /\ 0 <= v[4] /\ v[4] < 86400000

(***************************************************************************)
(* A column has a type, a length, and may take null; a value has a Go type *)
(* and a sequence of integers: bytes, one number, year-month-day-ms.       *)
(***************************************************************************)
Value(t, v) == [t |-> t, v |-> v]
NilValue    == Value("nil", <<>>)
ZeroTime    == Value("time", <<1, 1, 1, 0>>)

(* NewColumn: the length is given for C, N and V only. *)
Column(type, len, nullable) ==
  [type |-> type, nullable |-> nullable,
   len  |-> CASE type \in {"C", "N", "V"} -> len
              [] type \in {"I", "L"}      -> 1
              [] type = "D"               -> 8
              [] type = "T"               -> 2]

GoTypes == [C |-> {"string"}, V |-> {"string", "bytes"}, L |-> {"bool"},
            I |-> {"int32", "float64"}, N |-> {"int32", "int64", "float64"},
            D |-> {"time"}, T |-> {"time"}]

(* The values Represent takes for a column. *)
Accepts(col, val) ==
  \/ val.t = "nil"
  \/ /\ val.t \in GoTypes[col.type]
     /\ col.type = "C" => Len(val.v) <= MaxCharacterLength

(* 2^32: as many I values are negative as are not. *)
IntSize == 2 * (MaxInt + 1)

(* A float64 for an I column: out of bounds is zero. *)
AsInt(val) == IF val.t = "float64" /\ ~(0 < val.v[1] /\ val.v[1] <= MaxInt)
                THEN 0 ELSE val.v[1]

DateDigits(v) ==
  [j \in 1..8 |-> CASE j <= 4     -> Digit((v[1] \div 10^(4 - j)) % 10)
                    [] j \in 5..6 -> Digit((v[2] \div 10^(6 - j)) % 10)
                    [] j \in 7..8 -> Digit((v[3] \div 10^(8 - j)) % 10)]

LetterT == 84
LetterF == 70

(* The bytes of a value that is not nil, by the type of the column. *)
CharacterBytes(col, v) == Copied(Appended(v, col.len, Space), col.len)
IntegerBytes(val)      == <<AsInt(val) % IntSize>>
NumericBytes(col, v)   == Prepended(Decimal(v[1]), col.len, Space)
LogicalBytes(v)        == <<IF v = <<1>> THEN LetterT ELSE LetterF>>
DateBytes(val)         == IF val = ZeroTime THEN Repeat(Space, 8) ELSE DateDigits(val.v)
DateTimeBytes(val)     == IF val = ZeroTime THEN Repeat(NUL, 2)
                          ELSE <<julianDate(val.v[1], val.v[2], val.v[3]), val.v[4]>>

Represent(col, val) ==
  CASE val.t = "nil"  -> Repeat(NUL, col.len)
    [] OTHER ->
  CASE col.type = "C" -> CharacterBytes(col, val.v)
    [] col.type = "I" -> IntegerBytes(val)
    [] col.type = "N" -> NumericBytes(col, val.v)
    [] col.type = "L" -> LogicalBytes(val.v)
    [] col.type = "D" -> DateBytes(val)
    [] col.type = "T" -> DateTimeBytes(val)
    [] col.type = "V" -> val.v

(* The number that the digits i to j of a text are. *)
Part(s, i, j) == ValueOf(SubSeq(s, i, j))

(* The text of a D cell: none, or the eight digits of a date. *)
ReadsAsDate(s) ==
  \/ s = <<>>
  \/ /\ Len(s) = 8 /\ IsDigits(s)
     /\ IsDate(Part(s, 1, 4), Part(s, 5, 6), Part(s, 7, 8))

DateOf(s) == IF s = <<>> THEN ZeroTime
             ELSE Value("time", <<Part(s, 1, 4), Part(s, 5, 6), Part(s, 7, 8), 0>>)

IntegerOf(n) == Value("int32", <<IF n > MaxInt THEN n - IntSize ELSE n>>)

LogicalOf(raw) == Value("bool", IF raw = <<LetterT>> THEN <<1>> ELSE <<0>>)

TimeOf(raw) ==
  LET date == julianToDate(raw[1])
  IN  IF date[1] \in FourDigits THEN Value("time", date \o <<raw[2]>>) ELSE ZeroTime

(* The cells Interpret makes a value of without an error. *)
Interprets(col, raw) ==
  CASE col.type = "N" -> IsInt(Sanitized(raw))
    [] col.type = "D" -> ReadsAsDate(Sanitized(raw))
    [] OTHER          -> TRUE

Interpret(col, raw) ==
  CASE col.type \in {"C", "V"} -> Value("string", raw)
    [] col.type = "I" -> IntegerOf(raw[1])
    [] col.type = "N" -> Value("int64", <<ParseInt(Sanitized(raw))>>)
    [] col.type = "L" -> LogicalOf(raw)
    [] col.type = "D" -> DateOf(Sanitized(raw))
    [] col.type = "T" -> TimeOf(raw)
=============================================================================
