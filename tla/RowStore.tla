------------------------------ MODULE RowStore ------------------------------
(***************************************************************************)
(* What a dBase table promises its callers: a sequence of rows.  Add puts  *)
(* one row at the end, Write replaces exactly the row it was read from,    *)
(* Next returns the content of the row it names.  Every call takes effect  *)
(* in one step between its beginning and its return, or is refused without *)
(* any effect.  RowFile is the code that is meant to implement this.       *)
(***************************************************************************)
EXTENDS Naturals, Sequences

CONSTANTS
  Callers,    (* goroutines that call the table                            *)
  Payloads,   (* contents a row can have                                   *)
  Start,      (* the rows the table holds when it is opened                *)
  None        (* no content returned yet                                   *)

VARIABLES
  rows,       (* the table                                                 *)
  call        (* for each caller, the call it has in progress              *)

vars == <<rows, call>>

Calls == [op : {"append", "update", "read"}, at : Nat,
          val : Payloads \cup {None}, st : {"asked", "done", "refused"}]

NoCall == [op |-> "none", at |-> 0, val |-> None, st |-> "none"]

TypeOK == /\ rows \in Seq(Payloads)
          /\ call \in [Callers -> Calls \cup {NoCall}]

Init == /\ rows = Start
        /\ call = [c \in Callers |-> NoCall]

(* What a caller can ask for: a row appended, a row replaced, a row read. *)
Requests ==
       [op : {"append"}, at : {0}, val : Payloads, st : {"asked"}]
  \cup [op : {"update"}, at : DOMAIN rows, val : Payloads, st : {"asked"}]
  \cup [op : {"read"}, at : DOMAIN rows, val : {None}, st : {"asked"}]

Begin(c) ==
  /\ call[c] = NoCall
  /\ call'[c] \in Requests
  /\ call' = [call EXCEPT ![c] = call'[c]]
  /\ UNCHANGED rows

(* The call takes effect, all at once. *)
Apply(c) ==
  /\ call[c].st = "asked"
  /\ \/ /\ call[c].op = "append"
        /\ rows' = Append(rows, call[c].val)
        /\ call' = [call EXCEPT ![c].st = "done"]
     \/ /\ call[c].op = "update"
        /\ call[c].at \in DOMAIN rows
        /\ rows' = [rows EXCEPT ![call[c].at] = call[c].val]
        /\ call' = [call EXCEPT ![c].st = "done"]
     \/ /\ call[c].op = "read"
        /\ call[c].at \in DOMAIN rows
        /\ call' = [call EXCEPT ![c].val = rows[call[c].at], ![c].st = "done"]
        /\ UNCHANGED rows

(* A limit of the format: an error and no effect. *)
Refuse(c) ==
  /\ call[c].st = "asked"
  /\ call' = [call EXCEPT ![c].st = "refused"]
  /\ UNCHANGED rows

Return(c) ==
  /\ call[c].st \in {"done", "refused"}
  /\ call' = [call EXCEPT ![c] = NoCall]
  /\ UNCHANGED rows

Step(c) == Begin(c) \/ Apply(c) \/ Refuse(c) \/ Return(c)

Next == \E c \in Callers : Step(c)

Spec == Init /\ [][Next]_vars
=============================================================================
