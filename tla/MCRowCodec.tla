---------------------------- MODULE MCRowCodec -----------------------------
(* RowCodec with values of each type and the layouts that matter. *)
EXTENDS RowCodec

C2 == Column("C", 2, FALSE)
N2 == Column("N", 2, FALSE)
I  == Column("I", 0, FALSE)
L  == Column("L", 0, FALSE)
D  == Column("D", 0, FALSE)
T  == Column("T", 0, FALSE)
V3 == Column("V", 3, FALSE)
N3 == Column("V", 3, TRUE)

(* Each type; all columns of variable length but the last come first; the  *)
(* bits of a byte used up, and one more than a byte.                       *)
MCLayouts == {<<C2, N2>>, <<I, L>>, <<D>>, <<T>>, <<V3, C2>>, <<C2, N3>>,
              <<N3, L, V3>>, <<V3, N3, V3>>, <<N3, N3, V3>>}

(* A column of fixed length before the second one of variable length. *)
MixedLayouts == {<<L, V3, V3>>}

x == 120
Texts  == {<<>>, <<x>>, <<x, Space>>, <<x, x, x>>}
Years  == {1, 1582, 1900, 2000, 2024, 9999}
Months == {1, 2, 3, 12}
Dates  == {v \in Years \X Months \X {1, 28, 29, 31} : IsDate(v[1], v[2], v[3])}

(* Any of these days at midnight, the first days also just before the next. *)
Times(dates) == {Value("time", v \o <<0>>) : v \in dates}
                  \cup {Value("time", v \o <<86399999>>) : v \in {w \in dates : w[3] = 1}}

MCValues ==
  [C |-> {Value("string", s) : s \in Texts},
   V |-> {Value("string", s) : s \in Texts},
   N |-> {Value("int64", <<n>>) : n \in {-10, -7, 0, 42, 100}}
           \cup {Value("float64", <<5>>), Value("bool", <<1>>)},
   I |-> {Value("int32", <<n>>) : n \in {-128, -1, 0, 127}}
           \cup {Value("float64", <<n>>) : n \in {-1, 5, 300}},
   L |-> {Value("bool", <<b>>) : b \in {0, 1}},
   D |-> Times({v \in Dates : v[1] \in {1, 2024}}),
   T |-> Times(Dates)]
=============================================================================
