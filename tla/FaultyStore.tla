----------------------------- MODULE FaultyStore -----------------------------
(***************************************************************************)
(* What is left of the promise of RowStore when I/O errors, torn writes    *)
(* and crashes strike: a fault ends calls, and of all the rows only the one*)
(* being written may be damaged by it.  A row that was to be appended may  *)
(* leave a hole behind, which shows when the next row is appended.  There  *)
(* are never more damaged rows than there were faults.                     *)
(***************************************************************************)
EXTENDS RowStore, FiniteSets

CONSTANT
  Damaged     (* content of a row that is nobody's                         *)

VARIABLE
  faults      (* faults so far                                             *)

faultyVars == <<vars, faults>>

FaultyInit == Init /\ faults = 0

DamagedRows(s) == {i \in DOMAIN s : s[i] = Damaged}

(* The row goes behind the holes that faults have left.                    *)
AppendPastHoles(c) ==
  /\ call[c].st = "asked" /\ call[c].op = "append"
  /\ \E holes \in 1..faults : rows' = rows \o [i \in 1..holes |-> Damaged] \o <<call[c].val>>
  /\ Cardinality(DamagedRows(rows')) <= faults
  /\ call' = [call EXCEPT ![c].st = "done"]

(* A damaged row cannot always be read.                                    *)
ReadFails(c) ==
  /\ call[c].st = "asked" /\ call[c].op = "read"
  /\ call[c].at \in DamagedRows(rows)
  /\ call' = [call EXCEPT ![c] = NoCall]
  /\ UNCHANGED rows

(* A write that fails has done all of its work, some of it or nothing.     *)
LeftBehind(c) ==
  \/ UNCHANGED rows
  \/ /\ call[c].op = "update" /\ call[c].at \in DOMAIN rows
     /\ \E content \in {call[c].val, Damaged} :
          rows' = [rows EXCEPT ![call[c].at] = content]
  \/ /\ call[c].op = "append"
     /\ \E holes \in 1..faults' : rows' = rows \o [i \in 1..holes |-> Damaged]

(* The call in progress ends in an error.                                  *)
Lose(c) ==
  /\ call[c].st \in {"asked", "done"}
  /\ faults' = faults + 1
  /\ LeftBehind(c)
  /\ Cardinality(DamagedRows(rows')) <= faults'
  /\ \E ended \in {NoCall, [call[c] EXCEPT !.st = "refused"]} :
       call' = [call EXCEPT ![c] = ended]

(* The process dies and another one opens the table.                       *)
Crash ==
  /\ faults' = faults + 1
  /\ call' = [c \in Callers |-> NoCall]
  /\ UNCHANGED rows

FaultyNext ==
  \/ \E c \in Callers : \/ Step(c) /\ UNCHANGED faults
                        \/ AppendPastHoles(c) /\ UNCHANGED faults
                        \/ ReadFails(c) /\ UNCHANGED faults
                        \/ Lose(c)
  \/ Crash

FaultySpec == FaultyInit /\ [][FaultyNext]_faultyVars
=============================================================================
