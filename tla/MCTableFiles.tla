---------------------------- MODULE MCTableFiles ----------------------------
(* TableFiles with a container and two tables. *)
EXTENDS TableFiles, TLC

CONSTANTS DB, T1, S1, P1, P2

(* One goroutine opens, the other creates, both close. *)
MCCalls == "g1" :> {"open", "opendb", "close", "closedb"} @@ "g2" :> {"create", "close", "closedb"}

(* T1 is in the catalogue twice.  It has an underscore: S1 has a space. *)
MCCatalog  == <<Blank, T1, T1>>
MCProvided == {T1}
MCPathOf   == DB :> DB @@ T1 :> S1 @@ S1 :> S1

Missing == [dbf |-> "none", fpt |-> "none", page |-> P1, memo |-> FALSE, tested |-> TRUE]
Plain   == [dbf |-> "whole", fpt |-> "none", page |-> P1, memo |-> FALSE, tested |-> TRUE]
Memo    == [dbf |-> "whole", fpt |-> "whole", page |-> P2, memo |-> TRUE, tested |-> TRUE]

Old     == [Plain EXCEPT !.tested = FALSE]

MCDisks == {DB :> Plain @@ T1 :> Memo @@ S1 :> Missing,
            DB :> Plain @@ T1 :> Old @@ S1 :> Memo}

Config(source, converter, interpret, validate, untested) ==
  [source |-> source, converter |-> converter, interpret |-> interpret,
   validate |-> validate, untested |-> untested]

Files(converter, interpret) == Config("file", converter, interpret, FALSE, FALSE)
Bytes(converter, interpret) == Config("data", converter, interpret, FALSE, FALSE)

(* Two Configs for file names, and one of each kind. *)
MCSetups == {<<Files(P1, FALSE), Files(None, FALSE)>>, <<Bytes(None, FALSE), Files(P1, FALSE)>>}
=============================================================================
