-------------------------- MODULE TableFilesProofs --------------------------
(* Theorems about TableFiles for every number of goroutines, catalogue,    *)
(* file and failure.                                                       *)
EXTENDS TableFiles, TLAPS

(***************************************************************************)
(* Types.                                                                  *)
(***************************************************************************)
HandleSet == [path : Names, part : {"dbf", "fpt"}, open : BOOLEAN]
DatabaseSet == [main : DOMAIN files, tables : [Names -> 0..Len(files)]]

DataOK ==
  /\ disk \in [Names -> Contents]
  /\ handles \in Seq(HandleSet)
  /\ configs \in Seq(ConfigSet)
  /\ files \in Seq(FileSet)
  /\ dbs \in Seq(DatabaseSet)
  /\ \A k \in DOMAIN files : configs[files[k].cfg].converter \in Pages

(* What is there stays there, with the fields that never change. *)
Grown ==
  /\ Len(handles) <= Len(handles') /\ Len(configs) <= Len(configs')
  /\ Len(files) <= Len(files') /\ Len(dbs) <= Len(dbs')
  /\ \A k \in DOMAIN configs :
       configs[k].converter \in Pages => configs'[k].converter \in Pages
  /\ \A k \in DOMAIN files : files'[k].fpt = files[k].fpt
  /\ \A d \in DOMAIN dbs : dbs'[d] = dbs[d]

Outcomes == {"none", "ok", "error"}

(* A step of one goroutine. *)
Local(c) ==
  /\ DataOK' /\ Grown
  /\ DOMAIN call' = Callers /\ \A b \in Callers : b # c => call'[b] = call[b]
  /\ call'[c] \in CallSet' /\ StepOK(c, call[c])'
  /\ outcome' \in [Callers -> Outcomes]

Inv == TypeOK /\ DOMAIN call = Callers /\ StepsOK

LEMMA Domains ==
  ASSUME Inv
  PROVE  /\ DataOK /\ outcome \in [Callers -> Outcomes] /\ DOMAIN call = Callers
         /\ DOMAIN handles = 1..Len(handles) /\ Len(handles) \in Nat
         /\ DOMAIN configs = 1..Len(configs) /\ Len(configs) \in Nat
         /\ DOMAIN files = 1..Len(files) /\ Len(files) \in Nat
         /\ DOMAIN dbs = 1..Len(dbs) /\ Len(dbs) \in Nat
         /\ \A c \in Callers : call[c] \in CallSet /\ StepOK(c, call[c])
BY DEF Inv, TypeOK, DataOK, HandleSet, DatabaseSet, Outcomes, StepsOK

LEMMA CallsGrow ==
  ASSUME Inv, DataOK', Grown
  PROVE  CallSet \subseteq CallSet'
<1>1. /\ Len(handles) \in Nat /\ Len(configs) \in Nat /\ Len(files) \in Nat
      /\ Len(dbs) \in Nat
  BY Domains
<1>2. /\ Len(handles') \in Nat /\ Len(configs') \in Nat /\ Len(files') \in Nat
      /\ Len(dbs') \in Nat
  BY DEF DataOK
<1>3. /\ 0..Len(handles) \subseteq 0..Len(handles')
      /\ 0..Len(configs) \subseteq 0..Len(configs')
      /\ 0..Len(files) \subseteq 0..Len(files') /\ 0..Len(dbs) \subseteq 0..Len(dbs')
  BY <1>1, <1>2 DEF Grown
<1>4. [Names -> 0..Len(files)] \subseteq [Names -> 0..Len(files')]
  BY <1>3
<1> DEFINE H == 0..Len(handles)
           K == 0..Len(configs)
           F == 0..Len(files)
           D == 0..Len(dbs)
           T == [Names -> F]
           H1 == 0..Len(handles')
           K1 == 0..Len(configs')
           F1 == 0..Len(files')
           D1 == 0..Len(dbs')
           T1 == [Names -> F1]
<1> HIDE DEF H, K, F, D, T, H1, K1, F1, D1, T1
<1>5. H \subseteq H1 /\ K \subseteq K1 /\ F \subseteq F1 /\ D \subseteq D1 /\ T \subseteq T1
  BY <1>3, <1>4 DEF H, K, F, D, T, H1, K1, F1, D1, T1
<1> QED
  BY <1>5 DEF CallSet, H, K, F, D, T, H1, K1, F1, D1, T1

(* Other goroutines do not notice. *)
LEMMA OthersOK ==
  ASSUME Inv, DataOK', Grown, NEW b \in Callers
  PROVE  call[b] \in CallSet' /\ (call'[b] = call[b] => StepOK(b, call[b])')
<1>1. call[b] \in CallSet' /\ StepOK(b, call[b])
  BY CallsGrow, Domains
<1> DEFINE r == call[b]
<1> HIDE DEF r
<1>2. /\ DOMAIN configs \subseteq DOMAIN configs' /\ DOMAIN files \subseteq DOMAIN files'
      /\ DOMAIN dbs \subseteq DOMAIN dbs'
  <2>1. /\ Len(configs') \in Nat /\ Len(files') \in Nat /\ Len(dbs') \in Nat
        /\ DOMAIN configs' = 1..Len(configs') /\ DOMAIN files' = 1..Len(files')
        /\ DOMAIN dbs' = 1..Len(dbs')
    BY DEF DataOK
  <2> QED
    BY <2>1, Domains DEF Grown
<1>3. StepOK(b, r)
  BY <1>1 DEF r
<1>4. ASSUME call'[b] = r PROVE StepOK(b, call[b])'
  BY <1>2, <1>3, <1>4 DEF StepOK, Grown, Opening, Creating, Closing
<1> QED
  BY <1>1, <1>4 DEF r

LEMMA LocalSteps ==
  ASSUME Inv, NEW c \in Callers, Local(c), calls' \in 0..MaxCalls, faults' \in 0..MaxFaults
  PROVE  Inv'
<1>1. \A b \in Callers : call'[b] \in CallSet' /\ StepOK(b, call[b])'
  <2> TAKE b \in Callers
  <2>1. CASE b = c
    BY <2>1 DEF Local
  <2>2. CASE b # c
    <3>1. call'[b] = call[b]
      BY <2>2 DEF Local
    <3> QED
      BY <3>1, OthersOK DEF Local
  <2> QED
    BY <2>1, <2>2
<1> QED
  BY <1>1 DEF Inv, TypeOK, StepsOK, Local, DataOK, HandleSet, DatabaseSet, Outcomes

(***************************************************************************)
(* How steps change the data.                                              *)
(***************************************************************************)
Holders == {"program", "table", "main", "lost"} \cup Callers

(* Handles and Configs may be added, and the Configs get converters. *)
Added ==
  /\ disk' \in [Names -> Contents]
  /\ handles' \in Seq(HandleSet) /\ Len(handles) <= Len(handles')
  /\ configs' \in Seq(ConfigSet) /\ Len(configs) <= Len(configs')
  /\ \A k \in DOMAIN configs :
       configs[k].converter \in Pages => configs'[k].converter \in Pages

LEMMA FileSetGrows ==
  ASSUME Inv, Added
  PROVE  FileSet \subseteq FileSet'
<1>1. /\ DOMAIN configs \subseteq DOMAIN configs'
      /\ 0..Len(handles) \subseteq 0..Len(handles')
  <2>1. Len(handles') \in Nat /\ Len(configs') \in Nat /\ DOMAIN configs' = 1..Len(configs')
    BY DEF Added
  <2> QED
    BY <2>1, Domains DEF Added
<1> DEFINE K == DOMAIN configs
           K1 == DOMAIN configs'
           H == 0..Len(handles)
           H1 == 0..Len(handles')
<1> HIDE DEF K, K1, H, H1
<1>2. K \subseteq K1 /\ H \subseteq H1
  BY <1>1 DEF K, K1, H, H1
<1> QED
  BY <1>2 DEF FileSet, K, K1, H, H1

LEMMA DatabasesKept ==
  ASSUME Inv, dbs' = dbs, Len(files') \in Nat, DOMAIN files' = 1..Len(files'),
         Len(files) <= Len(files')
  PROVE  dbs' \in Seq(DatabaseSet')
<1>1. DOMAIN files \subseteq DOMAIN files' /\ 0..Len(files) \subseteq 0..Len(files')
  BY Domains
<1> DEFINE F == DOMAIN files
           F1 == DOMAIN files'
           N == 0..Len(files)
           N1 == 0..Len(files')
<1> HIDE DEF F, F1, N, N1
<1>2. F \subseteq F1 /\ N \subseteq N1
  BY <1>1 DEF F, F1, N, N1
<1>3. [Names -> N] \subseteq [Names -> N1]
  BY <1>2
<1>4. DatabaseSet \subseteq DatabaseSet'
  BY <1>2, <1>3 DEF DatabaseSet, F, F1, N, N1
<1> QED
  BY <1>4, Domains DEF DataOK

LEMMA KeptFiles ==
  ASSUME Inv, Added, UNCHANGED <<files, dbs>>
  PROVE  DataOK' /\ Grown
<1>1. files' \in Seq(FileSet')
  BY FileSetGrows, Domains DEF DataOK
<1>2. dbs' \in Seq(DatabaseSet')
  BY Domains, DatabasesKept
<1>3. \A k \in DOMAIN files' : configs'[files'[k].cfg].converter \in Pages
  <2> TAKE k \in DOMAIN files'
  <2>1. k \in DOMAIN files /\ files[k] \in FileSet /\ configs[files[k].cfg].converter \in Pages
    BY Domains DEF DataOK
  <2>2. files[k].cfg \in DOMAIN configs
    BY <2>1 DEF FileSet
  <2> QED
    BY <2>1, <2>2 DEF Added
<1> QED
  BY <1>1, <1>2, <1>3, Domains DEF DataOK, Grown, Added

(* Files change hands, and there may be one more. *)
LEMMA ChangedFiles ==
  ASSUME Inv, Added, dbs' = dbs, Len(files) <= Len(files'), files' \in Seq(FileSet'),
         \A k \in DOMAIN files : files'[k].fpt = files[k].fpt /\ files'[k].cfg = files[k].cfg,
         \A k \in DOMAIN files' \ DOMAIN files :
           configs'[files'[k].cfg].converter \in Pages
  PROVE  DataOK' /\ Grown
<1>1. DOMAIN files' = 1..Len(files') /\ Len(files') \in Nat
  OBVIOUS
<1>2. dbs' \in Seq(DatabaseSet')
  BY <1>1, DatabasesKept
<1>3. \A k \in DOMAIN files' : configs'[files'[k].cfg].converter \in Pages
  <2> TAKE k \in DOMAIN files'
  <2>1. CASE k \in DOMAIN files
    <3>1. files[k] \in FileSet /\ configs[files[k].cfg].converter \in Pages
      BY <2>1, Domains DEF DataOK
    <3>2. files[k].cfg \in DOMAIN configs
      BY <3>1 DEF FileSet
    <3> QED
      BY <2>1, <3>1, <3>2 DEF Added
  <2>2. CASE k \notin DOMAIN files
    BY <2>2
  <2> QED
    BY <2>1, <2>2
<1> QED
  BY <1>2, <1>3, Domains DEF DataOK, Grown, Added

(* The same files in other hands. *)
Rehold(fs) ==
  /\ DOMAIN fs = DOMAIN files
  /\ \A k \in DOMAIN files : \E h \in Holders : fs[k] = [files[k] EXCEPT !.held = h]

LEMMA ReheldFiles ==
  ASSUME Inv, NEW fs, Rehold(fs)
  PROVE  /\ \A k \in DOMAIN files : /\ fs[k] \in FileSet /\ fs[k].cfg = files[k].cfg
                                    /\ fs[k].fpt = files[k].fpt /\ fs[k].dbf = files[k].dbf
                                    /\ fs[k].path = files[k].path /\ fs[k].page = files[k].page
         /\ fs = [k \in 1..Len(files) |-> fs[k]] =>
              fs \in Seq(FileSet) /\ Len(fs) = Len(files)
<1>1. ASSUME NEW k \in DOMAIN files
      PROVE  /\ fs[k] \in FileSet /\ fs[k].cfg = files[k].cfg
             /\ fs[k].fpt = files[k].fpt /\ fs[k].dbf = files[k].dbf
             /\ fs[k].path = files[k].path /\ fs[k].page = files[k].page
  <2>1. files[k] \in FileSet
    BY Domains DEF DataOK
  <2>2. PICK h \in Holders : fs[k] = [files[k] EXCEPT !.held = h]
    BY DEF Rehold
  <2> QED
    BY <2>1, <2>2 DEF FileSet, Holders
<1>2. ASSUME fs = [k \in 1..Len(files) |-> fs[k]]
      PROVE  fs \in Seq(FileSet) /\ Len(fs) = Len(files)
  <2>1. fs \in [1..Len(files) -> FileSet] /\ Len(files) \in Nat
    BY <1>1, <1>2, Domains
  <2> QED
    BY <2>1
<1> QED
  BY <1>1, <1>2

LEMMA DroppedIsReheld ==
  ASSUME Inv, NEW c \in Callers
  PROVE  /\ Rehold(Dropped(c)) /\ Dropped(c) \in Seq(FileSet)
         /\ Len(Dropped(c)) = Len(files)
<1> DEFINE fs == Dropped(c)
<1>1. DOMAIN fs = DOMAIN files /\ fs = [k \in 1..Len(files) |-> fs[k]]
  BY Domains DEF Dropped
<1>2. \A k \in DOMAIN files : \E h \in Holders : fs[k] = [files[k] EXCEPT !.held = h]
  <2> TAKE k \in DOMAIN files
  <2>1. files[k] \in FileSet
    BY Domains DEF DataOK
  <2>2. files[k] = [files[k] EXCEPT !.held = files[k].held] /\ files[k].held \in Holders
    BY <2>1 DEF FileSet, Holders
  <2> QED
    BY <2>2 DEF Dropped, Holders
<1> HIDE DEF fs
<1>3. Rehold(fs)
  BY <1>1, <1>2 DEF Rehold
<1> QED
  BY <1>1, <1>3, ReheldFiles DEF fs

(***************************************************************************)
(* How calls go on.                                                        *)
(***************************************************************************)
LEMMA Goes ==
  ASSUME Inv, NEW c \in Callers, DataOK', Grown, NEW r, r \in CallSet', StepOK(c, r)',
         Goto(c, r)
  PROVE  Local(c)
<1>1. DOMAIN call' = Callers /\ call'[c] = r /\ outcome' = outcome
      /\ \A b \in Callers : b # c => call'[b] = call[b]
  BY Domains DEF Goto
<1>2. StepOK(c, call[c])'
  BY <1>1 DEF StepOK, Opening, Creating, Closing
<1> QED
  BY <1>1, <1>2, Domains DEF Local

LEMMA NowAt ==
  ASSUME Inv, NEW c \in Callers
  PROVE  /\ \A r : Goto(c, r) => call'[c] = r
         /\ \A how : Return(c, how) => call'[c] = NoCall
BY Domains DEF Goto, Return

LEMMA NoCallTyped ==
  ASSUME Inv, DataOK'
  PROVE  NoCall \in CallSet' /\ \A c \in Callers : StepOK(c, NoCall)'
<1>1. /\ 0 \in 0..Len(handles') /\ 0 \in 0..Len(configs') /\ 0 \in 0..Len(files')
      /\ 0 \in 0..Len(dbs') /\ 0 \in 0..(Len(Catalog) + 1)
  BY FilesAssumption DEF DataOK
<1>2. [n \in Names |-> 0] \in [Names -> 0..Len(files')]
  BY <1>1
<1>3. NoCall \in CallSet'
  BY <1>1, <1>2 DEF CallSet, NoCall
<1>4. ASSUME NEW c \in Callers PROVE StepOK(c, NoCall)'
  BY DEF StepOK, NoCall, Opening, Creating, Closing
<1> QED
  BY <1>3, <1>4

LEMMA Returns ==
  ASSUME Inv, NEW c \in Callers, DataOK', Grown, NEW how \in {"ok", "error"}, Return(c, how)
  PROVE  Local(c)
<1>1. DOMAIN call' = Callers /\ call'[c] = NoCall /\ outcome' \in [Callers -> Outcomes]
      /\ \A b \in Callers : b # c => call'[b] = call[b]
  BY Domains DEF Return, Outcomes
<1>2. StepOK(c, call[c])'
  BY <1>1, NoCallTyped DEF StepOK, Opening, Creating, Closing
<1> QED
  BY <1>1, <1>2, NoCallTyped DEF Local

LEMMA Fails ==
  ASSUME Inv, NEW c \in Callers, Added, dbs' = dbs, Fail(c)
  PROVE  Local(c)
<1>1. files' = Dropped(c) /\ Return(c, "error")
  BY DEF Fail
<1>2. /\ Rehold(files') /\ files' \in Seq(FileSet) /\ Len(files') = Len(files)
      /\ DOMAIN files' = DOMAIN files
  BY <1>1, DroppedIsReheld, Domains
<1>3. files' \in Seq(FileSet')
  BY <1>2, FileSetGrows
<1>4. \A k \in DOMAIN files : files'[k].fpt = files[k].fpt /\ files'[k].cfg = files[k].cfg
  BY <1>2, ReheldFiles
<1>5. DataOK' /\ Grown
  BY <1>2, <1>3, <1>4, ChangedFiles, Domains
<1> QED
  BY <1>1, <1>5, Returns

(***************************************************************************)
(* Each step.                                                              *)
(***************************************************************************)
LEMMA AddedSame ==
  ASSUME Inv, disk' \in [Names -> Contents], UNCHANGED <<handles, configs>>
  PROVE  Added
BY Domains DEF Added, DataOK

LEMMA AddedHandle ==
  ASSUME Inv, disk' \in [Names -> Contents], configs' = configs,
         NEW path \in Names, NEW part \in {"dbf", "fpt"}, NewHandle(path, part)
  PROVE  Added /\ Len(handles') = Len(handles) + 1
<1> DEFINE h == [path |-> path, part |-> part, open |-> TRUE]
<1>1. h \in HandleSet
  BY DEF HandleSet
<1>2. handles' = Append(handles, h)
  BY DEF NewHandle
<1> HIDE DEF h
<1>3. handles' \in Seq(HandleSet) /\ Len(handles') = Len(handles) + 1
  BY <1>1, <1>2, Domains DEF DataOK
<1> QED
  BY <1>3, Domains DEF Added, DataOK

LEMMA AddedConfig ==
  ASSUME Inv, disk' \in [Names -> Contents], handles' = handles, NEW config \in ConfigSet,
         configs' = Append(configs, config)
  PROVE  Added /\ Len(configs') = Len(configs) + 1
BY Domains DEF Added, DataOK

LEMMA SetConfig ==
  ASSUME Inv, disk' \in [Names -> Contents], handles' = handles, NEW k \in DOMAIN configs,
         NEW config \in ConfigSet, configs[k].converter \in Pages => config.converter \in Pages,
         configs' = [configs EXCEPT ![k] = config]
  PROVE  Added /\ Len(configs') = Len(configs) /\ configs'[k] = config
BY Domains DEF Added, DataOK

(* What a call knows. *)
LEMMA CallFields ==
  ASSUME Inv, NEW c \in Callers
  PROVE  /\ call[c] \in CallSet /\ StepOK(c, call[c])
         /\ DataOK' /\ Grown => call[c] \in CallSet'
BY Domains, CallsGrow

Steps == {"idle", "handle", "head", "related", "memohead", "catalog", "row",
          "stat", "make", "makefpt", "writehead", "writecols", "writemark",
          "writefill", "writememo", "writepad", "next", "closedbf", "closefpt"}

Ops == {"none", "open", "opendb", "create", "close", "closedb"}

(* Records of calls, with sets for what grows. *)
RecordSet(H, K, F, D, R) ==
  [op : Ops, step : Steps, cfg : K, path : Names \cup {None}, dbf : H, fpt : H,
   memo : BOOLEAN, tested : BOOLEAN, dbcfg : K, main : F, row : R, tables : [Names -> F],
   file : F, db : D, left : SUBSET Names]

LEMMA Edits ==
  ASSUME NEW H, NEW K, NEW F, NEW D, NEW R, NEW q \in RecordSet(H, K, F, D, R)
  PROVE  /\ \A x \in Ops : [q EXCEPT !.op = x] \in RecordSet(H, K, F, D, R)
         /\ \A x \in Steps : [q EXCEPT !.step = x] \in RecordSet(H, K, F, D, R)
         /\ \A x \in K : /\ [q EXCEPT !.cfg = x] \in RecordSet(H, K, F, D, R)
                         /\ [q EXCEPT !.dbcfg = x] \in RecordSet(H, K, F, D, R)
         /\ \A x \in Names \cup {None} : [q EXCEPT !.path = x] \in RecordSet(H, K, F, D, R)
         /\ \A x \in H : /\ [q EXCEPT !.dbf = x] \in RecordSet(H, K, F, D, R)
                         /\ [q EXCEPT !.fpt = x] \in RecordSet(H, K, F, D, R)
         /\ \A x \in BOOLEAN : /\ [q EXCEPT !.memo = x] \in RecordSet(H, K, F, D, R)
                               /\ [q EXCEPT !.tested = x] \in RecordSet(H, K, F, D, R)
         /\ \A x \in F : /\ [q EXCEPT !.main = x] \in RecordSet(H, K, F, D, R)
                         /\ [q EXCEPT !.file = x] \in RecordSet(H, K, F, D, R)
         /\ \A x \in R : [q EXCEPT !.row = x] \in RecordSet(H, K, F, D, R)
         /\ \A n \in Names : \A x \in F :
              [q EXCEPT !.tables[n] = x] \in RecordSet(H, K, F, D, R)
         /\ \A x \in D : [q EXCEPT !.db = x] \in RecordSet(H, K, F, D, R)
         /\ \A x \in SUBSET Names : [q EXCEPT !.left = x] \in RecordSet(H, K, F, D, R)
<1> DEFINE S == Steps
           O == Ops
           T == [Names -> F]
<1> HIDE DEF S, O, T
<1>1. \A x \in Ops : [q EXCEPT !.op = x] \in RecordSet(H, K, F, D, R)
  BY DEF RecordSet, T
<1>2. \A x \in Steps : [q EXCEPT !.step = x] \in RecordSet(H, K, F, D, R)
  BY DEF RecordSet, T
<1>3. \A x \in K : [q EXCEPT !.cfg = x] \in RecordSet(H, K, F, D, R)
  BY DEF RecordSet, T
<1>4. \A x \in K : [q EXCEPT !.dbcfg = x] \in RecordSet(H, K, F, D, R)
  BY DEF RecordSet, T
<1>5. \A x \in Names \cup {None} : [q EXCEPT !.path = x] \in RecordSet(H, K, F, D, R)
  BY DEF RecordSet, T
<1>6. \A x \in H : [q EXCEPT !.dbf = x] \in RecordSet(H, K, F, D, R)
  BY DEF RecordSet, T
<1>7. \A x \in H : [q EXCEPT !.fpt = x] \in RecordSet(H, K, F, D, R)
  BY DEF RecordSet, T
<1>8. \A x \in BOOLEAN : [q EXCEPT !.memo = x] \in RecordSet(H, K, F, D, R)
  BY DEF RecordSet, T
<1>9. \A x \in BOOLEAN : [q EXCEPT !.tested = x] \in RecordSet(H, K, F, D, R)
  BY DEF RecordSet, T
<1>10. \A x \in F : [q EXCEPT !.main = x] \in RecordSet(H, K, F, D, R)
  BY DEF RecordSet, T
<1>11. \A x \in F : [q EXCEPT !.file = x] \in RecordSet(H, K, F, D, R)
  BY DEF RecordSet, T
<1>12. \A x \in R : [q EXCEPT !.row = x] \in RecordSet(H, K, F, D, R)
  BY DEF RecordSet, T
<1>13. \A x \in D : [q EXCEPT !.db = x] \in RecordSet(H, K, F, D, R)
  BY DEF RecordSet, T
<1>14. \A x \in SUBSET Names : [q EXCEPT !.left = x] \in RecordSet(H, K, F, D, R)
  BY DEF RecordSet, T
<1>15. ASSUME NEW n \in Names, NEW x \in F PROVE [q.tables EXCEPT ![n] = x] \in T
  BY DEF RecordSet, T
<1>16. \A n \in Names : \A x \in F :
        [q EXCEPT !.tables[n] = x] \in RecordSet(H, K, F, D, R)
  BY <1>15 DEF RecordSet, T
<1> QED
  BY <1>1, <1>2, <1>3, <1>4, <1>5, <1>6, <1>7, <1>8, <1>9, <1>10, <1>11, <1>12,
     <1>13, <1>14, <1>16

(* The next record of a call, field by field. *)
CallEdits(q) ==
  /\ \A x \in Ops : [q EXCEPT !.op = x] \in CallSet
  /\ \A x \in Steps : [q EXCEPT !.step = x] \in CallSet
  /\ \A x \in 0..Len(configs) : /\ [q EXCEPT !.cfg = x] \in CallSet
                                 /\ [q EXCEPT !.dbcfg = x] \in CallSet
  /\ \A x \in Names \cup {None} : [q EXCEPT !.path = x] \in CallSet
  /\ \A x \in 0..Len(handles) : /\ [q EXCEPT !.dbf = x] \in CallSet
                                 /\ [q EXCEPT !.fpt = x] \in CallSet
  /\ \A x \in BOOLEAN : /\ [q EXCEPT !.memo = x] \in CallSet
                        /\ [q EXCEPT !.tested = x] \in CallSet
  /\ \A x \in 0..Len(files) : /\ [q EXCEPT !.main = x] \in CallSet
                               /\ [q EXCEPT !.file = x] \in CallSet
  /\ \A x \in 0..(Len(Catalog) + 1) : [q EXCEPT !.row = x] \in CallSet
  /\ \A n \in Names : \A x \in 0..Len(files) : [q EXCEPT !.tables[n] = x] \in CallSet
  /\ \A x \in 0..Len(dbs) : [q EXCEPT !.db = x] \in CallSet
  /\ \A x \in SUBSET Names : [q EXCEPT !.left = x] \in CallSet

LEMMA CallRecord ==
  ASSUME NEW q, q \in CallSet'
  PROVE  CallEdits(q)'
<1>1. CallSet' = RecordSet(0..Len(handles'), 0..Len(configs'), 0..Len(files'),
                           0..Len(dbs'), 0..(Len(Catalog) + 1))
  BY DEF CallSet, RecordSet, Ops, Steps
<1> QED
  BY <1>1, Edits DEF CallEdits

(* OpenTable goes on to its next step. *)
LEMMA OpeningGoes ==
  ASSUME Inv, NEW c \in Callers, Opening(call[c]), DataOK', Grown, NEW r, r \in CallSet',
         r.step \in {"head", "related", "memohead"},
         r.step # "head" => configs'[call[c].cfg].converter \in Pages,
         r.op = call[c].op, r.path = call[c].path, r.cfg = call[c].cfg,
         r.main = call[c].main, r.row = call[c].row, r.dbcfg = call[c].dbcfg,
         Goto(c, r)
  PROVE  Local(c)
<1>1. StepOK(c, call[c]) /\ DOMAIN configs \subseteq DOMAIN configs'
  <2>1. Len(configs') \in Nat /\ DOMAIN configs' = 1..Len(configs')
    BY DEF DataOK
  <2> QED
    BY <2>1, CallFields, Domains DEF Grown
<1>2. StepOK(c, r)'
  BY <1>1 DEF StepOK, Opening, Creating, Closing
<1> QED
  BY <1>2, Goes

LEMMA OpenHandleTyped ==
  ASSUME Inv, NEW c \in Callers, OpenHandle(c)
  PROVE  Local(c)
<1> DEFINE p == call[c].path
<1>1. /\ Opening(call[c]) /\ UNCHANGED <<disk, configs, dbs>> /\ p \in Names
      /\ disk' \in [Names -> Contents]
  BY CallFields, Domains DEF OpenHandle, StepOK, Opening, DataOK
<1>2. CASE Found(disk[p].dbf)
  <2>1. PICK r : r = [call[c] EXCEPT !.step = "head", !.dbf = Len(handles')]
    OBVIOUS
  <2>2. NewHandle(p, "dbf") /\ Goto(c, r) /\ files' = files
    BY <1>2, <2>1 DEF OpenHandle
  <2>3. Added /\ Len(handles') \in 0..Len(handles')
    BY <1>1, <2>2, AddedHandle, Domains
  <2>4. DataOK' /\ Grown
    BY <1>1, <2>2, <2>3, KeptFiles
  <2>5. call[c] \in CallSet' /\ call[c] \in CallSet
    BY <2>4, CallFields
  <2>6. r \in CallSet'
    <3>1. [call[c] EXCEPT !.step = "head"] \in CallSet'
      BY <2>5, CallRecord DEF CallEdits, Steps
    <3> QED
      BY <2>1, <2>3, <3>1, CallRecord DEF CallEdits
  <2>7. /\ r.step = "head" /\ r.op = call[c].op /\ r.path = call[c].path
        /\ r.cfg = call[c].cfg /\ r.main = call[c].main /\ r.row = call[c].row
        /\ r.dbcfg = call[c].dbcfg
    BY <2>1, <2>5 DEF CallSet
  <2> QED
    BY <1>1, <2>2, <2>4, <2>6, <2>7, OpeningGoes
<1>3. CASE ~Found(disk[p].dbf)
  BY <1>1, <1>3, AddedSame, Fails DEF OpenHandle
<1> QED
  BY <1>2, <1>3

LEMMA AddedFile ==
  ASSUME Inv, Added, dbs' = dbs, NEW fs, Rehold(fs), fs \in Seq(FileSet),
         Len(fs) = Len(files), NEW f, f \in FileSet', configs'[f.cfg].converter \in Pages,
         files' = Append(fs, f)
  PROVE  DataOK' /\ Grown /\ Len(files') = Len(files) + 1
<1>1. fs \in Seq(FileSet')
  BY FileSetGrows
<1>2. /\ files' \in Seq(FileSet') /\ Len(files') = Len(files) + 1
      /\ files'[Len(files) + 1] = f /\ \A k \in DOMAIN files : files'[k] = fs[k]
  BY <1>1, Domains
<1>3. \A k \in DOMAIN files : files'[k].fpt = files[k].fpt /\ files'[k].cfg = files[k].cfg
  BY <1>2, ReheldFiles
<1>4. \A k \in DOMAIN files' \ DOMAIN files : k = Len(files) + 1
  BY <1>2, Domains
<1> QED
  BY <1>2, <1>3, <1>4, ChangedFiles, Domains

LEMMA FilesAreReheld ==
  ASSUME Inv
  PROVE  Rehold(files)
<1>1. ASSUME NEW k \in DOMAIN files
      PROVE  files[k] = [files[k] EXCEPT !.held = files[k].held] /\ files[k].held \in Holders
  <2>1. files[k] \in FileSet
    BY Domains DEF DataOK
  <2> QED
    BY <2>1 DEF FileSet, Holders
<1> QED
  BY <1>1 DEF Rehold

(* The File of a call that is complete. *)
LEMMA OpenedTyped ==
  ASSUME Inv, NEW c \in Callers, Opening(call[c]), Added, dbs' = dbs,
         configs'[call[c].cfg].converter \in Pages, Opened(c)
  PROVE  Local(c)
<1> DEFINE k == Len(files) + 1
           n == Catalog[call[c].row]
           File(held) == [cfg |-> call[c].cfg, dbf |-> call[c].dbf, fpt |-> call[c].fpt,
                          path |-> call[c].path, page |-> disk[call[c].path].page,
                          held |-> held]
           kept == [i \in DOMAIN files |->
                      IF i = call[c].tables[n] THEN [files[i] EXCEPT !.held = "lost"]
                                               ELSE files[i]]
           next == [call[c] EXCEPT !.dbf = 0, !.fpt = 0, !.cfg = 0, !.path = None]
<1>1. /\ call[c] \in CallSet /\ StepOK(c, call[c])
      /\ call[c].path \in Names /\ call[c].cfg \in DOMAIN configs
      /\ call[c].op = "opendb" /\ call[c].main # 0 =>
           call[c].row \in DOMAIN Catalog /\ Catalog[call[c].row] # Blank
      /\ call[c].op = "opendb" => call[c].dbcfg \in DOMAIN configs
  BY CallFields DEF StepOK
<1>2. \A held \in Holders : File(held) \in FileSet' /\ File(held).cfg = call[c].cfg
  <2>1. disk[call[c].path].page \in Pages
    BY <1>1, Domains DEF DataOK, Contents
  <2>2. call[c].dbf \in 0..Len(handles') /\ call[c].fpt \in 0..Len(handles')
        /\ call[c].cfg \in DOMAIN configs'
    <3>1. /\ Len(handles') \in Nat /\ Len(configs') \in Nat
          /\ DOMAIN configs' = 1..Len(configs')
      BY DEF Added
    <3>2. call[c].dbf \in 0..Len(handles) /\ call[c].fpt \in 0..Len(handles)
      BY <1>1 DEF CallSet
    <3> QED
      BY <1>1, <3>1, <3>2, Domains DEF Added
  <2> QED
    BY <1>1, <2>1, <2>2 DEF FileSet, Holders
<1>3. {"program", c} \subseteq Holders
  BY DEF Holders
<1> HIDE DEF File
<1>4. ASSUME NEW fs, Rehold(fs), fs \in Seq(FileSet), Len(fs) = Len(files),
             NEW held \in Holders, files' = Append(fs, File(held))
      PROVE  DataOK' /\ Grown /\ k \in 0..Len(files') /\ call[c] \in CallSet'
             /\ 0 \in 0..Len(configs') /\ 0 \in 0..Len(handles')
  <2>1. DataOK' /\ Grown /\ Len(files') = Len(files) + 1
    BY <1>2, <1>4, AddedFile
  <2>2. Len(configs') \in Nat /\ Len(handles') \in Nat
    BY DEF Added
  <2> QED
    BY <2>1, <2>2, Domains, CallFields
<1>5. ASSUME DataOK', Grown, k \in 0..Len(files'), call[c] \in CallSet',
             0 \in 0..Len(configs'), 0 \in 0..Len(handles')
      PROVE  next \in CallSet'
  <2>1. [call[c] EXCEPT !.dbf = 0] \in CallSet'
    BY <1>5, CallRecord DEF CallEdits
  <2>2. [[call[c] EXCEPT !.dbf = 0] EXCEPT !.fpt = 0] \in CallSet'
    BY <1>5, <2>1, CallRecord DEF CallEdits
  <2>3. [[[call[c] EXCEPT !.dbf = 0] EXCEPT !.fpt = 0] EXCEPT !.cfg = 0] \in CallSet'
    BY <1>5, <2>2, CallRecord DEF CallEdits
  <2>4. [[[[call[c] EXCEPT !.dbf = 0] EXCEPT !.fpt = 0] EXCEPT !.cfg = 0]
           EXCEPT !.path = None] \in CallSet'
    BY <1>5, <2>3, CallRecord DEF CallEdits
  <2> QED
    BY <2>4
<1>6. /\ next.op = call[c].op /\ next.dbcfg = call[c].dbcfg /\ next.row = call[c].row
      /\ next.main = call[c].main
      /\ next \in CallSet' => \A x, y : /\ [next EXCEPT !.main = x, !.step = y].op = next.op
                                        /\ [next EXCEPT !.main = x, !.step = y].main = x
                                        /\ [next EXCEPT !.main = x, !.step = y].step = y
                                        /\ [next EXCEPT !.main = x, !.step = y].dbcfg = next.dbcfg
  BY <1>1 DEF CallSet
<1>7. DOMAIN configs \subseteq DOMAIN configs'
  <2>1. Len(configs') \in Nat /\ DOMAIN configs' = 1..Len(configs')
    BY DEF Added
  <2> QED
    BY <2>1, Domains DEF Added
<1>8. CASE call[c].op = "open"
  <2>1. Return(c, "ok") /\ files' = Append(files, File("program"))
    BY <1>8 DEF Opened, File
  <2> QED
    BY <1>3, <1>4, <2>1, FilesAreReheld, Domains, Returns DEF DataOK
<1>9. CASE call[c].op = "opendb" /\ call[c].main = 0
  <2>1. Goto(c, [next EXCEPT !.main = k, !.step = "catalog"]) /\ files' = Append(files, File(c))
    BY <1>9 DEF Opened, File
  <2>2. /\ DataOK' /\ Grown /\ k \in 0..Len(files') /\ call[c] \in CallSet'
        /\ 0 \in 0..Len(configs') /\ 0 \in 0..Len(handles')
    BY <1>3, <1>4, <2>1, FilesAreReheld, Domains DEF DataOK
  <2>3. next \in CallSet'
    BY <1>5, <2>2
  <2> HIDE DEF next, File
  <2>4. PICK r : r = [next EXCEPT !.main = k, !.step = "catalog"]
    OBVIOUS
  <2>5. r \in CallSet'
    <3>1. [next EXCEPT !.main = k] \in CallSet'
      BY <2>2, <2>3, CallRecord DEF CallEdits
    <3>2. [[next EXCEPT !.main = k] EXCEPT !.step = "catalog"] \in CallSet'
      BY <3>1, CallRecord DEF CallEdits, Steps
    <3> QED
      BY <2>4, <3>2
  <2>6. r.op = "opendb" /\ r.main # 0 /\ r.step = "catalog" /\ r.dbcfg \in DOMAIN configs'
    BY <1>1, <1>6, <1>7, <1>9, <2>3, <2>4, Domains
  <2>7. StepOK(c, r)'
    BY <2>6 DEF StepOK, Opening, Creating, Closing
  <2> QED
    BY <2>1, <2>2, <2>4, <2>5, <2>7, Goes
<1>10. CASE call[c].op = "opendb" /\ call[c].main # 0
  <2>1. Goto(c, [next EXCEPT !.tables[n] = k, !.step = "row", !.row = @ + 1])
        /\ files' = Append(kept, File(c))
    BY <1>10 DEF Opened, File
  <2>2. Rehold(kept) /\ kept \in Seq(FileSet) /\ Len(kept) = Len(files)
    <3>1. DOMAIN kept = DOMAIN files /\ kept = [j \in 1..Len(files) |-> kept[j]]
      BY Domains
    <3>2. \A j \in DOMAIN files : \E h \in Holders : kept[j] = [files[j] EXCEPT !.held = h]
      BY FilesAreReheld DEF Rehold, Holders
    <3> HIDE DEF kept
    <3>3. Rehold(kept)
      BY <3>1, <3>2 DEF Rehold
    <3> QED
      BY <3>1, <3>3, ReheldFiles
  <2> HIDE DEF kept
  <2>3. /\ DataOK' /\ Grown /\ k \in 0..Len(files') /\ call[c] \in CallSet'
        /\ 0 \in 0..Len(configs') /\ 0 \in 0..Len(handles')
    BY <1>3, <1>4, <2>1, <2>2
  <2>4. next \in CallSet'
    BY <1>5, <2>3
  <2>5. n \in Names /\ call[c].row + 1 \in 1..(Len(Catalog) + 1)
    <3>1. Catalog \in Seq((Names \ {Container}) \cup {Blank})
      BY FilesAssumption
    <3> QED
      BY <1>1, <1>10, <3>1
  <2> HIDE DEF next, File, n
  <2>6. PICK r : r = [next EXCEPT !.tables[n] = k, !.step = "row", !.row = @ + 1]
    OBVIOUS
  <2>7. next.row + 1 \in 0..(Len(Catalog) + 1) /\ next.row + 1 # 0
    BY <1>6, <2>5
  <2>8. r \in CallSet'
    <3>1. [next EXCEPT !.tables[n] = k] \in CallSet'
      BY <2>3, <2>4, <2>5, CallRecord DEF CallEdits
    <3>2. [[next EXCEPT !.tables[n] = k] EXCEPT !.step = "row"] \in CallSet'
      BY <3>1, CallRecord DEF CallEdits, Steps
    <3>3. [[[next EXCEPT !.tables[n] = k] EXCEPT !.step = "row"] EXCEPT !.row = next.row + 1]
            \in CallSet'
      BY <2>7, <3>2, CallRecord DEF CallEdits
    <3>4. r = [[[next EXCEPT !.tables[n] = k] EXCEPT !.step = "row"] EXCEPT !.row = next.row + 1]
      BY <2>4, <2>6 DEF CallSet
    <3> QED
      BY <3>3, <3>4
  <2>9. r.op = "opendb" /\ r.main # 0 /\ r.step = "row" /\ r.dbcfg \in DOMAIN configs'
        /\ r.row # 0
    <3>1. r.op = next.op /\ r.main = next.main /\ r.step = "row" /\ r.dbcfg = next.dbcfg
          /\ r.row = next.row + 1
      BY <2>4, <2>6 DEF CallSet
    <3> QED
      BY <1>1, <1>6, <1>7, <1>10, <2>7, <3>1
  <2>10. StepOK(c, r)'
    BY <2>9 DEF StepOK, Opening, Creating, Closing
  <2> QED
    BY <2>1, <2>3, <2>6, <2>8, <2>10, Goes
<1> QED
  BY <1>1, <1>8, <1>9, <1>10 DEF StepOK

LEMMA ReadHeadTyped ==
  ASSUME Inv, NEW c \in Callers, ReadHead(c)
  PROVE  Local(c)
<1> DEFINE j == call[c].cfg
           d == disk[call[c].path]
           config == Converted(configs[j], d.page)
<1>1. /\ Opening(call[c]) /\ UNCHANGED <<disk, handles, dbs>> /\ j \in DOMAIN configs
      /\ call[c].path \in Names /\ disk' \in [Names -> Contents]
      /\ configs[j] \in ConfigSet /\ d.page \in Pages
  <2>1. call[c].step = "head" /\ StepOK(c, call[c]) /\ UNCHANGED <<disk, handles, dbs>>
    BY CallFields DEF ReadHead
  <2>2. j \in DOMAIN configs /\ call[c].path \in Names
    BY <2>1 DEF StepOK, Opening
  <2>3. d \in Contents /\ configs[j] \in ConfigSet
    BY <2>2, Domains DEF DataOK
  <2> QED
    BY <2>1, <2>2, <2>3, Domains DEF Opening, Contents, DataOK
<1>2. config \in ConfigSet /\ config.converter \in Pages
  <2>1. DEFINE v == IF configs[j].interpret \/ configs[j].converter = None
                      THEN d.page ELSE configs[j].converter
  <2>2. v \in Pages
    BY <1>1 DEF ConfigSet
  <2>3. config = [configs[j] EXCEPT !.converter = v]
    BY DEF Converted
  <2> HIDE DEF v, config
  <2> QED
    BY <1>1, <2>2, <2>3 DEF ConfigSet
<1>3. CASE ~(Readable(d) /\ ValidVersion(d, configs[j]))
  BY <1>1, <1>3, AddedSame, Fails DEF ReadHead
<1>4. CASE Readable(d) /\ ValidVersion(d, configs[j])
  <2>1. configs' = [configs EXCEPT ![j] = config]
    BY <1>4 DEF ReadHead
  <2> HIDE DEF config
  <2>2. Added /\ configs'[j].converter \in Pages
    BY <1>1, <1>2, <2>1, SetConfig
  <2>3. CASE config.validate /\ config.converter # d.page
    <3>1. Fail(c)
      BY <1>4, <2>3 DEF ReadHead, config
    <3> QED
      BY <1>1, <2>2, <3>1, Fails
  <2>4. CASE ~(config.validate /\ config.converter # d.page) /\ d.memo
    <3>1. PICK r : r = [call[c] EXCEPT !.step = "related"]
      OBVIOUS
    <3>2. Goto(c, r) /\ files' = files
      BY <1>4, <2>4, <3>1 DEF ReadHead, config
    <3>3. DataOK' /\ Grown
      BY <1>1, <2>2, <3>2, KeptFiles
    <3>4. call[c] \in CallSet' /\ call[c] \in CallSet
      BY <3>3, CallFields
    <3>5. r \in CallSet'
      BY <3>1, <3>4, CallRecord DEF CallEdits, Steps
    <3>6. /\ r.step = "related" /\ r.op = call[c].op /\ r.path = call[c].path
          /\ r.cfg = call[c].cfg /\ r.main = call[c].main /\ r.row = call[c].row
          /\ r.dbcfg = call[c].dbcfg
      BY <3>1, <3>4 DEF CallSet
    <3> QED
      BY <1>1, <2>2, <3>2, <3>3, <3>5, <3>6, OpeningGoes
  <2>5. CASE ~(config.validate /\ config.converter # d.page) /\ ~d.memo
    <3>1. Opened(c)
      BY <1>4, <2>5 DEF ReadHead, config
    <3> QED
      BY <1>1, <2>2, <3>1, OpenedTyped
  <2> QED
    BY <2>3, <2>4, <2>5
<1> QED
  BY <1>3, <1>4

LEMMA OpenRelatedTyped ==
  ASSUME Inv, NEW c \in Callers, OpenRelated(c)
  PROVE  Local(c)
<1> DEFINE p == call[c].path
<1>1. /\ Opening(call[c]) /\ UNCHANGED <<disk, configs, dbs>> /\ p \in Names
      /\ call[c].cfg \in DOMAIN configs /\ configs'[call[c].cfg].converter \in Pages
      /\ disk' \in [Names -> Contents]
  BY CallFields, Domains DEF OpenRelated, StepOK, Opening, DataOK
<1>2. CASE ~Found(disk[p].fpt)
  BY <1>1, <1>2, AddedSame, Fails DEF OpenRelated
<1>3. ASSUME NEW r, Goto(c, r), files' = files, Added,
             \/ r = [call[c] EXCEPT !.step = "memohead"]
             \/ Len(handles') \in Nat
                /\ r = [call[c] EXCEPT !.step = "memohead", !.fpt = Len(handles')]
      PROVE  Local(c)
  <2>1. DataOK' /\ Grown
    BY <1>1, <1>3, KeptFiles
  <2>2. call[c] \in CallSet' /\ call[c] \in CallSet
    BY <2>1, CallFields
  <2>3. r \in CallSet'
    <3>1. [call[c] EXCEPT !.step = "memohead"] \in CallSet'
      BY <2>2, CallRecord DEF CallEdits, Steps
    <3>2. Len(handles') \in Nat =>
            [[call[c] EXCEPT !.step = "memohead"] EXCEPT !.fpt = Len(handles')] \in CallSet'
      <4>1. Len(handles') \in Nat => Len(handles') \in 0..Len(handles')
        OBVIOUS
      <4>2. \A x \in 0..Len(handles') :
              [[call[c] EXCEPT !.step = "memohead"] EXCEPT !.fpt = x] \in CallSet'
        BY <3>1, CallRecord DEF CallEdits
      <4> QED
        BY <4>1, <4>2
    <3>3. [call[c] EXCEPT !.step = "memohead", !.fpt = Len(handles')] =
            [[call[c] EXCEPT !.step = "memohead"] EXCEPT !.fpt = Len(handles')]
      OBVIOUS
    <3> QED
      BY <1>3, <3>1, <3>2, <3>3
  <2>4. /\ r.step = "memohead" /\ r.op = call[c].op /\ r.path = call[c].path
        /\ r.cfg = call[c].cfg /\ r.main = call[c].main /\ r.row = call[c].row
        /\ r.dbcfg = call[c].dbcfg
    BY <1>3, <2>2, ZenonT(30) DEF CallSet
  <2> QED
    BY <1>1, <1>3, <2>1, <2>3, <2>4, OpeningGoes
<1>4. CASE Found(disk[p].fpt) /\ configs[call[c].cfg].source = "file"
  <2>1. PICK r : r = [call[c] EXCEPT !.step = "memohead", !.fpt = Len(handles')]
    OBVIOUS
  <2>2. NewHandle(p, "fpt") /\ Goto(c, r) /\ files' = files
    BY <1>4, <2>1 DEF OpenRelated
  <2>3. Added /\ Len(handles') \in Nat
    BY <1>1, <2>2, AddedHandle, Domains
  <2> QED
    BY <1>3, <2>1, <2>2, <2>3
<1>5. CASE Found(disk[p].fpt) /\ configs[call[c].cfg].source # "file"
  <2>1. PICK r : r = [call[c] EXCEPT !.step = "memohead"]
    OBVIOUS
  <2>2. handles' = handles /\ Goto(c, r) /\ files' = files
    BY <1>5, <2>1 DEF OpenRelated
  <2> QED
    BY <1>1, <1>3, <2>1, <2>2, AddedSame
<1> QED
  BY <1>2, <1>4, <1>5

LEMMA ReadMemoHeadTyped ==
  ASSUME Inv, NEW c \in Callers, ReadMemoHead(c)
  PROVE  Local(c)
<1>1. /\ Opening(call[c]) /\ UNCHANGED <<disk, handles, configs, dbs>>
      /\ configs'[call[c].cfg].converter \in Pages /\ disk' \in [Names -> Contents]
  BY CallFields, Domains DEF ReadMemoHead, StepOK, Opening, DataOK
<1>2. Added
  BY <1>1, AddedSame
<1> QED
  BY <1>1, <1>2, OpenedTyped, Fails DEF ReadMemoHead

(* OpenTable and OpenDatabase enter with a Config. *)
LEMMA EnterTyped ==
  ASSUME Inv, NEW k \in DOMAIN configs, UNCHANGED <<disk, handles, files, dbs>>, Enter(k)
  PROVE  DataOK' /\ Grown /\ Entered(k) \in DOMAIN configs' /\ k \in DOMAIN configs'
         /\ DOMAIN configs' \subseteq 0..Len(configs')
<1>1. configs[k] \in ConfigSet /\ disk' \in [Names -> Contents]
  BY Domains DEF DataOK
<1>2. Added /\ Entered(k) \in DOMAIN configs' /\ k \in DOMAIN configs'
  <2>1. CASE configs[k].source = "file"
    <3>1. PICK new : new = [configs[k] EXCEPT !.io = TRUE]
      OBVIOUS
    <3>2. new \in ConfigSet /\ new.converter = configs[k].converter
      BY <1>1, <3>1 DEF ConfigSet
    <3>3. configs' = [configs EXCEPT ![k] = new] /\ Entered(k) = k
      BY <2>1, <3>1 DEF Enter, Entered
    <3>4. Added /\ Len(configs') = Len(configs)
      BY <1>1, <3>2, <3>3, SetConfig
    <3>5. DOMAIN configs' = 1..Len(configs')
      BY <3>4 DEF Added
    <3> QED
      BY <3>3, <3>4, <3>5, Domains
  <2>2. CASE configs[k].source # "file"
    <3>1. PICK new : new = [configs[k] EXCEPT !.io = TRUE, !.mine = FALSE]
      OBVIOUS
    <3>2. new \in ConfigSet
      BY <1>1, <3>1 DEF ConfigSet
    <3>3. configs' = Append(configs, new) /\ Entered(k) = Len(configs) + 1
      BY <2>2, <3>1 DEF Enter, Entered
    <3>4. Added /\ Len(configs') = Len(configs) + 1
      BY <1>1, <3>2, <3>3, AddedConfig
    <3>5. DOMAIN configs' = 1..Len(configs')
      BY <3>4 DEF Added
    <3> QED
      BY <3>3, <3>4, <3>5, Domains
  <2> QED
    BY <2>1, <2>2
<1>3. DataOK' /\ Grown
  BY <1>2, KeptFiles
<1>4. DOMAIN configs' = 1..Len(configs') /\ Len(configs') \in Nat
  BY <1>3 DEF DataOK
<1> QED
  BY <1>2, <1>3, <1>4

LEMMA SameData ==
  ASSUME Inv, UNCHANGED <<disk, handles, configs, files, dbs>>
  PROVE  DataOK' /\ Grown
<1>1. Added
  BY AddedSame, Domains DEF DataOK
<1> QED
  BY <1>1, KeptFiles

LEMMA OpenTableTyped ==
  ASSUME Inv, NEW c \in Callers, NEW k \in DOMAIN configs, NEW path \in Names,
         OpenTable(c, k, path)
  PROVE  Local(c)
<1>1. UNCHANGED <<disk, handles, files, dbs>>
  BY DEF OpenTable
<1>2. CASE ~SingleSource(configs[k])
  BY <1>1, <1>2, SameData, Returns DEF OpenTable
<1>3. CASE SingleSource(configs[k])
  <2>1. PICK r : r = [NoCall EXCEPT !.op = "open", !.step = FirstStep(k),
                        !.cfg = Entered(k), !.path = path]
    OBVIOUS
  <2>2. Goto(c, r) /\ Enter(k)
    BY <1>3, <2>1 DEF OpenTable
  <2>3. DataOK' /\ Grown /\ Entered(k) \in DOMAIN configs' /\ Entered(k) \in 0..Len(configs')
    BY <1>1, <2>2, EnterTyped
  <2>4. r \in CallSet'
    <3>1. [NoCall EXCEPT !.op = "open"] \in CallSet'
      BY <2>3, NoCallTyped, CallRecord DEF CallEdits, Ops
    <3>2. [[NoCall EXCEPT !.op = "open"] EXCEPT !.step = FirstStep(k)] \in CallSet'
      BY <3>1, CallRecord DEF CallEdits, Steps, FirstStep
    <3>3. [[[NoCall EXCEPT !.op = "open"] EXCEPT !.step = FirstStep(k)]
             EXCEPT !.cfg = Entered(k)] \in CallSet'
      BY <2>3, <3>2, CallRecord DEF CallEdits
    <3>4. [[[[NoCall EXCEPT !.op = "open"] EXCEPT !.step = FirstStep(k)]
              EXCEPT !.cfg = Entered(k)] EXCEPT !.path = path] \in CallSet'
      BY <3>3, CallRecord DEF CallEdits
    <3> QED
      BY <2>1, <3>4
  <2>5. /\ r.op = "open" /\ r.step \in {"handle", "head"} /\ r.cfg = Entered(k)
        /\ r.path = path
    BY <2>1 DEF NoCall, FirstStep
  <2>6. StepOK(c, r)'
    BY <2>3, <2>5 DEF StepOK, Opening, Creating, Closing
  <2> QED
    BY <2>2, <2>3, <2>4, <2>6, Goes
<1> QED
  BY <1>2, <1>3

LEMMA OpenDatabaseTyped ==
  ASSUME Inv, NEW c \in Callers, NEW k \in DOMAIN configs, OpenDatabase(c, k)
  PROVE  Local(c)
<1>1. UNCHANGED <<disk, handles, files, dbs>>
  BY DEF OpenDatabase
<1>2. CASE ~SingleSource(configs[k])
  BY <1>1, <1>2, SameData, Returns DEF OpenDatabase
<1>3. CASE SingleSource(configs[k])
  <2>1. PICK r : r = [NoCall EXCEPT !.op = "opendb", !.step = FirstStep(k),
                        !.cfg = Entered(k), !.dbcfg = k, !.path = Container]
    OBVIOUS
  <2>2. Goto(c, r) /\ Enter(k)
    BY <1>3, <2>1 DEF OpenDatabase
  <2>3. /\ DataOK' /\ Grown /\ Entered(k) \in DOMAIN configs'
        /\ Entered(k) \in 0..Len(configs') /\ k \in DOMAIN configs' /\ k \in 0..Len(configs')
        /\ Container \in Names
    BY <1>1, <2>2, EnterTyped, FilesAssumption
  <2>4. r \in CallSet'
    <3>1. [NoCall EXCEPT !.op = "opendb"] \in CallSet'
      BY <2>3, NoCallTyped, CallRecord DEF CallEdits, Ops
    <3>2. [[NoCall EXCEPT !.op = "opendb"] EXCEPT !.step = FirstStep(k)] \in CallSet'
      BY <3>1, CallRecord DEF CallEdits, Steps, FirstStep
    <3>3. [[[NoCall EXCEPT !.op = "opendb"] EXCEPT !.step = FirstStep(k)]
             EXCEPT !.cfg = Entered(k)] \in CallSet'
      BY <2>3, <3>2, CallRecord DEF CallEdits
    <3>4. [[[[NoCall EXCEPT !.op = "opendb"] EXCEPT !.step = FirstStep(k)]
              EXCEPT !.cfg = Entered(k)] EXCEPT !.dbcfg = k] \in CallSet'
      BY <2>3, <3>3, CallRecord DEF CallEdits
    <3>5. [[[[[NoCall EXCEPT !.op = "opendb"] EXCEPT !.step = FirstStep(k)]
               EXCEPT !.cfg = Entered(k)] EXCEPT !.dbcfg = k] EXCEPT !.path = Container]
             \in CallSet'
      BY <2>3, <3>4, CallRecord DEF CallEdits
    <3> QED
      BY <2>1, <3>5
  <2>5. /\ r.op = "opendb" /\ r.step \in {"handle", "head"} /\ r.cfg = Entered(k)
        /\ r.path = Container /\ r.main = 0 /\ r.dbcfg = k
    BY <2>1 DEF NoCall, FirstStep
  <2>6. StepOK(c, r)'
    BY <2>3, <2>5 DEF StepOK, Opening, Creating, Closing
  <2> QED
    BY <2>2, <2>3, <2>4, <2>6, Goes
<1> QED
  BY <1>2, <1>3

LEMMA SearchCatalogTyped ==
  ASSUME Inv, NEW c \in Callers, SearchCatalog(c)
  PROVE  Local(c)
<1>1. PICK r : r = [call[c] EXCEPT !.step = "row", !.row = 1]
  OBVIOUS
<1>2. /\ call[c].step = "catalog" /\ Goto(c, r)
      /\ UNCHANGED <<disk, handles, configs, files, dbs>>
  BY <1>1 DEF SearchCatalog
<1>3. DataOK' /\ Grown
  BY <1>2, SameData
<1>4. call[c] \in CallSet /\ call[c] \in CallSet' /\ StepOK(c, call[c])
  BY <1>3, CallFields
<1>5. r \in CallSet'
  <2>1. [call[c] EXCEPT !.step = "row"] \in CallSet'
    BY <1>4, CallRecord DEF CallEdits, Steps
  <2>2. 1 \in 0..(Len(Catalog) + 1)
    BY FilesAssumption
  <2> QED
    BY <1>1, <2>1, <2>2, CallRecord DEF CallEdits
<1>6. r.step = "row" /\ r.row = 1 /\ r.op = call[c].op /\ r.main = call[c].main
      /\ r.dbcfg = call[c].dbcfg
  BY <1>1, <1>4 DEF CallSet
<1>7. StepOK(c, r)'
  BY <1>2, <1>4, <1>6 DEF StepOK, Opening, Creating, Closing
<1> QED
  BY <1>2, <1>3, <1>5, <1>7, Goes

LEMMA SkipRowTyped ==
  ASSUME Inv, NEW c \in Callers, SkipRow(c)
  PROVE  Local(c)
<1>1. PICK r : r = [call[c] EXCEPT !.row = AfterSkipped(@)]
  OBVIOUS
<1>2. /\ call[c].step = "row" /\ call[c].row <= Len(Catalog) /\ Goto(c, r)
      /\ UNCHANGED <<disk, handles, configs, files, dbs>>
  BY <1>1 DEF SkipRow
<1>3. DataOK' /\ Grown
  BY <1>2, SameData
<1>4. call[c] \in CallSet /\ call[c] \in CallSet' /\ StepOK(c, call[c])
  BY <1>3, CallFields
<1>5. r = [call[c] EXCEPT !.row = call[c].row + 1]
  BY <1>1, <1>4 DEF AfterSkipped, CallSet
<1>6. call[c].row \in Nat /\ call[c].row + 1 \in 0..(Len(Catalog) + 1)
  <2>1. call[c].row \in 0..(Len(Catalog) + 1)
    BY <1>4 DEF CallSet
  <2>2. Catalog \in Seq((Names \ {Container}) \cup {Blank})
    BY FilesAssumption
  <2>3. Len(Catalog) \in Nat
    BY <2>2
  <2> QED
    BY <1>2, <2>1, <2>3
<1>7. r \in CallSet'
  BY <1>4, <1>5, <1>6, CallRecord DEF CallEdits
<1>8. r.step = "row" /\ r.row # 0 /\ r.op = call[c].op /\ r.main = call[c].main
      /\ r.dbcfg = call[c].dbcfg
  <2>1. r.row = call[c].row + 1 /\ r.step = call[c].step /\ r.op = call[c].op
        /\ r.main = call[c].main /\ r.dbcfg = call[c].dbcfg
    BY <1>4, <1>5 DEF CallSet
  <2> QED
    BY <1>2, <1>6, <2>1
<1>9. StepOK(c, r)'
  BY <1>2, <1>4, <1>8 DEF StepOK, Opening, Creating, Closing
<1> QED
  BY <1>2, <1>3, <1>7, <1>9, Goes

LEMMA OpenRowTyped ==
  ASSUME Inv, NEW c \in Callers, OpenRow(c)
  PROVE  Local(c)
<1> DEFINE k == call[c].dbcfg
           n == Catalog[call[c].row]
           path == TablePath(configs[k].source, n)
<1>1. PICK r : r = [call[c] EXCEPT !.step = FirstStep(k), !.cfg = Len(configs'),
                      !.path = path]
  OBVIOUS
<1>2. /\ call[c].step = "row" /\ call[c].row <= Len(Catalog) /\ ~Skipped(c)
      /\ Goto(c, r) /\ configs' = Append(configs, TableConfig(k))
      /\ UNCHANGED <<disk, handles, files, dbs>>
  BY <1>1 DEF OpenRow
<1>3. call[c] \in CallSet /\ StepOK(c, call[c])
  BY CallFields
<1>4. call[c].op = "opendb" /\ call[c].main # 0 /\ call[c].row # 0 /\ k \in DOMAIN configs
  BY <1>2, <1>3 DEF StepOK
<1>5. call[c].row \in DOMAIN Catalog /\ n # Blank /\ n \in Names
  <2>1. Catalog \in Seq((Names \ {Container}) \cup {Blank})
    BY FilesAssumption
  <2>2. call[c].row \in 0..(Len(Catalog) + 1)
    BY <1>3 DEF CallSet
  <2>3. call[c].row \in DOMAIN Catalog
    BY <1>2, <1>4, <2>1, <2>2
  <2> QED
    BY <1>2, <2>1, <2>3 DEF Skipped
<1>6. path \in Names
  BY <1>5, FilesAssumption DEF TablePath
<1>7. Added /\ Len(configs') = Len(configs) + 1
  <2>1. configs[k] \in ConfigSet /\ disk' \in [Names -> Contents]
    BY <1>2, <1>4, Domains DEF DataOK
  <2>2. TableConfig(k) \in ConfigSet
    BY <2>1 DEF TableConfig, ConfigSet
  <2> QED
    BY <1>2, <2>1, <2>2, AddedConfig
<1>8. DataOK' /\ Grown
  BY <1>2, <1>7, KeptFiles
<1>9. /\ DOMAIN configs' = 1..Len(configs') /\ Len(configs') \in DOMAIN configs'
      /\ Len(configs') \in 0..Len(configs') /\ k \in DOMAIN configs'
  <2>1. DOMAIN configs' = 1..Len(configs')
    BY <1>7 DEF Added
  <2> QED
    BY <1>4, <1>7, <2>1, Domains
<1> HIDE DEF k, n, path
<1>10. r \in CallSet'
  <2>1. [call[c] EXCEPT !.step = FirstStep(k)] \in CallSet'
    BY <1>8, CallFields, CallRecord DEF CallEdits, Steps, FirstStep
  <2>2. [[call[c] EXCEPT !.step = FirstStep(k)] EXCEPT !.cfg = Len(configs')] \in CallSet'
    BY <1>9, <2>1, CallRecord DEF CallEdits
  <2>3. [[[call[c] EXCEPT !.step = FirstStep(k)] EXCEPT !.cfg = Len(configs')]
           EXCEPT !.path = path] \in CallSet'
    BY <1>6, <2>2, CallRecord DEF CallEdits
  <2> QED
    BY <1>1, <2>3
<1>11. /\ r.step \in {"handle", "head"} /\ r.cfg = Len(configs') /\ r.path = path
       /\ r.op = call[c].op /\ r.main = call[c].main /\ r.row = call[c].row
       /\ r.dbcfg = call[c].dbcfg
  BY <1>1, <1>3 DEF CallSet, FirstStep
<1>12. StepOK(c, r)'
  BY <1>4, <1>5, <1>6, <1>9, <1>11 DEF StepOK, Opening, Creating, Closing, k, n
<1> QED
  BY <1>2, <1>8, <1>10, <1>12, Goes

LEMMA DatabaseOpenedTyped ==
  ASSUME Inv, NEW c \in Callers, DatabaseOpened(c)
  PROVE  Local(c)
<1> DEFINE d == [main |-> call[c].main, tables |-> call[c].tables]
<1>1. /\ call[c].step = "row" /\ dbs' = Append(dbs, d) /\ Return(c, "ok")
      /\ UNCHANGED <<disk, handles, configs>>
      /\ files' = [k \in DOMAIN files |->
                     IF k = call[c].main THEN [files[k] EXCEPT !.held = "main"]
                     ELSE IF files[k].held = c THEN [files[k] EXCEPT !.held = "table"]
                     ELSE files[k]]
  BY DEF DatabaseOpened
<1>2. call[c] \in CallSet /\ StepOK(c, call[c])
  BY CallFields
<1>3. call[c].main \in DOMAIN files /\ call[c].tables \in [Names -> 0..Len(files)]
  BY <1>1, <1>2, Domains DEF StepOK, CallSet
<1>4. Added
  BY <1>1, AddedSame, Domains DEF DataOK
<1>5. Rehold(files') /\ files' \in Seq(FileSet) /\ Len(files') = Len(files)
      /\ DOMAIN files' = DOMAIN files
  <2> DEFINE fs == [k \in DOMAIN files |->
                     IF k = call[c].main THEN [files[k] EXCEPT !.held = "main"]
                     ELSE IF files[k].held = c THEN [files[k] EXCEPT !.held = "table"]
                     ELSE files[k]]
  <2>1. DOMAIN fs = DOMAIN files /\ fs = [k \in 1..Len(files) |-> fs[k]]
    BY Domains
  <2>2. \A k \in DOMAIN files : \E h \in Holders : fs[k] = [files[k] EXCEPT !.held = h]
    BY FilesAreReheld DEF Rehold, Holders
  <2>3. files' = fs
    BY <1>1
  <2> HIDE DEF fs
  <2>4. Rehold(fs)
    BY <2>1, <2>2 DEF Rehold
  <2> QED
    BY <2>1, <2>3, <2>4, ReheldFiles
<1>6. files' \in Seq(FileSet')
  BY <1>4, <1>5, FileSetGrows
<1>7. \A k \in DOMAIN files : files'[k].fpt = files[k].fpt /\ files'[k].cfg = files[k].cfg
  BY <1>5, ReheldFiles
<1>8. DatabaseSet' = DatabaseSet /\ d \in DatabaseSet
  BY <1>3, <1>5 DEF DatabaseSet
<1> HIDE DEF d
<1>9. /\ dbs' \in Seq(DatabaseSet') /\ Len(dbs) <= Len(dbs')
      /\ \A i \in DOMAIN dbs : dbs'[i] = dbs[i]
  BY <1>1, <1>8, Domains DEF DataOK
<1>10. \A k \in DOMAIN files' : configs'[files'[k].cfg].converter \in Pages
  BY <1>1, <1>5, <1>7, Domains DEF DataOK
<1>11. DataOK' /\ Grown
  BY <1>4, <1>5, <1>6, <1>7, <1>9, <1>10, Domains DEF DataOK, Grown, Added
<1> QED
  BY <1>1, <1>11, Returns

(***************************************************************************)
(* NewTable goes on to its next step.                                      *)
(***************************************************************************)
LEMMA CreatingGoes ==
  ASSUME Inv, NEW c \in Callers, Creating(call[c]), DataOK', Grown, NEW r, r \in CallSet',
         Creating(r), r.op = call[c].op, r.path = call[c].path, r.cfg = call[c].cfg,
         Goto(c, r)
  PROVE  Local(c)
<1>1. StepOK(c, call[c]) /\ DOMAIN configs \subseteq DOMAIN configs'
  <2>1. Len(configs') \in Nat /\ DOMAIN configs' = 1..Len(configs')
    BY DEF DataOK
  <2> QED
    BY <2>1, CallFields, Domains DEF Grown
<1>2. call[c].cfg \in DOMAIN configs' /\ configs'[call[c].cfg].converter \in Pages
  BY <1>1 DEF StepOK, Grown
<1>3. StepOK(c, r)'
  BY <1>1, <1>2 DEF StepOK, Opening, Creating, Closing
<1> QED
  BY <1>3, Goes

LEMMA CreatingKnows ==
  ASSUME Inv, NEW c \in Callers, Creating(call[c])
  PROVE  /\ call[c].path \in Names /\ call[c].cfg \in DOMAIN configs
         /\ configs[call[c].cfg].converter \in Pages
         /\ call[c] \in CallSet /\ call[c].memo \in BOOLEAN /\ call[c].tested \in BOOLEAN
BY CallFields DEF StepOK, CallSet

LEMMA NewTableTyped ==
  ASSUME Inv, NEW c \in Callers, NEW k \in DOMAIN configs, NEW path \in Names,
         NEW memo \in BOOLEAN, NEW tested \in BOOLEAN, NewTable(c, k, path, memo, tested)
  PROVE  Local(c)
<1>1. PICK r : r = [NoCall EXCEPT !.op = "create", !.step = "stat", !.cfg = k,
                      !.path = path, !.memo = memo, !.tested = tested]
  OBVIOUS
<1>2. /\ Goto(c, r) /\ UNCHANGED <<disk, handles, configs, files, dbs>>
      /\ "create" \in Calls[c] /\ configs[k].converter # None
  BY <1>1 DEF NewTable, Call
<1>3. DataOK' /\ Grown
  BY <1>2, SameData
<1>4. k \in 0..Len(configs') /\ configs[k].converter \in Pages
  <2>1. configs[k] \in ConfigSet /\ configs' = configs
    BY <1>2, Domains DEF DataOK
  <2>2. configs[k].converter \in Pages \cup {None}
    BY <2>1 DEF ConfigSet
  <2> QED
    BY <1>2, <2>1, <2>2, Domains
<1>5. r \in CallSet'
  <2>1. [NoCall EXCEPT !.op = "create"] \in CallSet'
    BY <1>3, NoCallTyped, CallRecord DEF CallEdits, Ops
  <2>2. [[NoCall EXCEPT !.op = "create"] EXCEPT !.step = "stat"] \in CallSet'
    BY <2>1, CallRecord DEF CallEdits, Steps
  <2>3. [[[NoCall EXCEPT !.op = "create"] EXCEPT !.step = "stat"] EXCEPT !.cfg = k] \in CallSet'
    BY <1>4, <2>2, CallRecord DEF CallEdits
  <2>4. [[[[NoCall EXCEPT !.op = "create"] EXCEPT !.step = "stat"] EXCEPT !.cfg = k]
           EXCEPT !.path = path] \in CallSet'
    BY <2>3, CallRecord DEF CallEdits
  <2>5. [[[[[NoCall EXCEPT !.op = "create"] EXCEPT !.step = "stat"] EXCEPT !.cfg = k]
            EXCEPT !.path = path] EXCEPT !.memo = memo] \in CallSet'
    BY <2>4, CallRecord DEF CallEdits
  <2>6. [[[[[[NoCall EXCEPT !.op = "create"] EXCEPT !.step = "stat"] EXCEPT !.cfg = k]
             EXCEPT !.path = path] EXCEPT !.memo = memo] EXCEPT !.tested = tested] \in CallSet'
    BY <2>5, CallRecord DEF CallEdits
  <2> QED
    BY <1>1, <2>6
<1>6. r.op = "create" /\ r.step = "stat" /\ r.cfg = k /\ r.path = path
  BY <1>1 DEF NoCall
<1>7. StepOK(c, r)'
  BY <1>2, <1>4, <1>6 DEF StepOK, Opening, Creating, Closing
<1> QED
  BY <1>2, <1>3, <1>5, <1>7, Goes

LEMMA StatTyped ==
  ASSUME Inv, NEW c \in Callers, Stat(c)
  PROVE  Local(c)
<1>1. /\ Creating(call[c]) /\ UNCHANGED <<disk, handles, configs, files, dbs>>
  BY DEF Stat, Creating
<1>2. DataOK' /\ Grown
  BY <1>1, SameData
<1>3. CASE Exists(disk[call[c].path])
  BY <1>2, <1>3, Returns DEF Stat
<1>4. CASE ~Exists(disk[call[c].path])
  <2>1. PICK r : r = [call[c] EXCEPT !.step = "make"]
    OBVIOUS
  <2>2. Goto(c, r)
    BY <1>4, <2>1 DEF Stat
  <2>3. call[c] \in CallSet' /\ call[c] \in CallSet
    BY <1>2, CallFields
  <2>4. r \in CallSet'
    BY <2>1, <2>3, CallRecord DEF CallEdits, Steps
  <2>5. r.step = "make" /\ r.op = call[c].op /\ r.path = call[c].path /\ r.cfg = call[c].cfg
    BY <2>1, <2>3 DEF CallSet
  <2> QED
    BY <1>1, <1>2, <2>2, <2>4, <2>5, CreatingGoes DEF Creating
<1> QED
  BY <1>3, <1>4

LEMMA MakeDbfTyped ==
  ASSUME Inv, NEW c \in Callers, MakeDbf(c)
  PROVE  Local(c)
<1> DEFINE step == IF call[c].memo THEN "makefpt" ELSE "writehead"
           p == call[c].path
<1>1. PICK r : r = [call[c] EXCEPT !.dbf = Len(handles'), !.step = step]
  OBVIOUS
<1>2. /\ call[c].step = "make" /\ Creating(call[c]) /\ UNCHANGED <<configs, files, dbs>>
      /\ NewHandle(p, "dbf") /\ Goto(c, r) /\ disk' = [disk EXCEPT ![p].dbf = "empty"]
  BY <1>1 DEF MakeDbf, Creating
<1>3. p \in Names
  BY <1>2, CreatingKnows
<1>4. disk' \in [Names -> Contents]
  <2>1. disk[p] \in Contents /\ "empty" \in TableStages
    BY <1>3, Domains DEF DataOK, TableStages
  <2>2. [disk[p] EXCEPT !.dbf = "empty"] \in Contents
    BY <2>1 DEF Contents
  <2> QED
    BY <1>2, <1>3, <2>2, Domains DEF DataOK
<1>5. Added /\ Len(handles') \in 0..Len(handles')
  BY <1>2, <1>3, <1>4, AddedHandle, Domains
<1>6. DataOK' /\ Grown
  BY <1>2, <1>5, KeptFiles
<1>7. call[c] \in CallSet' /\ call[c] \in CallSet
  BY <1>6, CallFields
<1>8. r \in CallSet'
  <2>1. [call[c] EXCEPT !.dbf = Len(handles')] \in CallSet'
    BY <1>5, <1>7, CallRecord DEF CallEdits
  <2>2. step \in Steps
    BY DEF Steps
  <2> HIDE DEF step
  <2>3. [[call[c] EXCEPT !.dbf = Len(handles')] EXCEPT !.step = step] \in CallSet'
    BY <2>1, <2>2, CallRecord DEF CallEdits
  <2> QED
    BY <1>1, <2>3
<1>9. /\ r.step \in {"makefpt", "writehead"} /\ r.op = call[c].op /\ r.path = call[c].path
      /\ r.cfg = call[c].cfg
  BY <1>1, <1>7 DEF CallSet
<1> QED
  BY <1>2, <1>6, <1>8, <1>9, CreatingGoes DEF Creating

LEMMA MakeFptTyped ==
  ASSUME Inv, NEW c \in Callers, MakeFpt(c)
  PROVE  Local(c)
<1> DEFINE p == call[c].path
<1>1. PICK r : r = [call[c] EXCEPT !.fpt = Len(handles'), !.step = "writehead"]
  OBVIOUS
<1>2. /\ Creating(call[c]) /\ UNCHANGED <<configs, files, dbs>>
      /\ NewHandle(p, "fpt") /\ Goto(c, r) /\ disk' = [disk EXCEPT ![p].fpt = "empty"]
  BY <1>1 DEF MakeFpt, Creating
<1>3. p \in Names
  BY <1>2, CreatingKnows
<1>4. disk' \in [Names -> Contents]
  <2>1. disk[p] \in Contents /\ "empty" \in MemoStages
    BY <1>3, Domains DEF DataOK, MemoStages
  <2>2. [disk[p] EXCEPT !.fpt = "empty"] \in Contents
    BY <2>1 DEF Contents
  <2> QED
    BY <1>2, <1>3, <2>2, Domains DEF DataOK
<1>5. Added /\ Len(handles') \in 0..Len(handles')
  BY <1>2, <1>3, <1>4, AddedHandle, Domains
<1>6. DataOK' /\ Grown
  BY <1>2, <1>5, KeptFiles
<1>7. call[c] \in CallSet' /\ call[c] \in CallSet
  BY <1>6, CallFields
<1>8. r \in CallSet'
  <2>1. [call[c] EXCEPT !.fpt = Len(handles')] \in CallSet'
    BY <1>5, <1>7, CallRecord DEF CallEdits
  <2>2. [[call[c] EXCEPT !.fpt = Len(handles')] EXCEPT !.step = "writehead"] \in CallSet'
    BY <2>1, CallRecord DEF CallEdits, Steps
  <2> QED
    BY <1>1, <2>2
<1>9. /\ r.step = "writehead" /\ r.op = call[c].op /\ r.path = call[c].path
      /\ r.cfg = call[c].cfg
  BY <1>1, <1>7 DEF CallSet
<1> QED
  BY <1>2, <1>6, <1>8, <1>9, CreatingGoes DEF Creating

LEMMA WriteHeadTyped ==
  ASSUME Inv, NEW c \in Callers, WriteHead(c)
  PROVE  Local(c)
<1> DEFINE p == call[c].path
           d == [dbf |-> "head", fpt |-> disk[p].fpt, memo |-> call[c].memo,
                 page |-> configs[call[c].cfg].converter, tested |-> call[c].tested]
<1>1. PICK r : r = [call[c] EXCEPT !.step = "writecols"]
  OBVIOUS
<1>2. /\ Creating(call[c]) /\ UNCHANGED <<handles, configs, files, dbs>>
      /\ Goto(c, r) /\ disk' = [disk EXCEPT ![p] = d]
  BY <1>1 DEF WriteHead, Creating
<1>3. /\ p \in Names /\ configs[call[c].cfg].converter \in Pages
      /\ call[c].memo \in BOOLEAN /\ call[c].tested \in BOOLEAN
  BY <1>2, CreatingKnows
<1>4. disk' \in [Names -> Contents]
  <2>1. disk[p] \in Contents /\ "head" \in TableStages
    BY <1>3, Domains DEF DataOK, TableStages
  <2>2. d \in Contents
    BY <1>3, <2>1 DEF Contents
  <2> HIDE DEF d
  <2> QED
    BY <1>2, <1>3, <2>2, Domains DEF DataOK
<1>5. Added
  BY <1>2, <1>4, AddedSame
<1>6. DataOK' /\ Grown
  BY <1>2, <1>5, KeptFiles
<1>7. call[c] \in CallSet' /\ call[c] \in CallSet
  BY <1>6, CallFields
<1>8. r \in CallSet'
  BY <1>1, <1>7, CallRecord DEF CallEdits, Steps
<1>9. /\ r.step = "writecols" /\ r.op = call[c].op /\ r.path = call[c].path
      /\ r.cfg = call[c].cfg
  BY <1>1, <1>7 DEF CallSet
<1> QED
  BY <1>2, <1>6, <1>8, <1>9, CreatingGoes DEF Creating

LEMMA CreatedTyped ==
  ASSUME Inv, NEW c \in Callers, Creating(call[c]), disk' \in [Names -> Contents],
         UNCHANGED <<handles, configs, dbs>>, Created(c)
  PROVE  Local(c)
<1> DEFINE f == [cfg |-> call[c].cfg, dbf |-> call[c].dbf, fpt |-> call[c].fpt,
                 path |-> call[c].path, page |-> disk[call[c].path].page,
                 held |-> "program"]
<1>1. /\ call[c].path \in Names /\ call[c].cfg \in DOMAIN configs
      /\ configs[call[c].cfg].converter \in Pages /\ call[c] \in CallSet
  BY CreatingKnows
<1>2. f \in FileSet'
  <2>1. disk[call[c].path].page \in Pages
    BY <1>1, Domains DEF DataOK, Contents
  <2>2. call[c].dbf \in 0..Len(handles') /\ call[c].fpt \in 0..Len(handles')
        /\ call[c].cfg \in DOMAIN configs'
    BY <1>1 DEF CallSet
  <2> QED
    BY <1>1, <2>1, <2>2 DEF FileSet
<1>3. files' = Append(files, f) /\ Return(c, "ok") /\ f.cfg = call[c].cfg
  BY DEF Created
<1> HIDE DEF f
<1>4. Added
  BY AddedSame
<1>5. DataOK' /\ Grown
  BY <1>1, <1>2, <1>3, <1>4, AddedFile, FilesAreReheld, Domains DEF DataOK
<1> QED
  BY <1>3, <1>5, Returns

(* The writes of a creation but the last, and the last. *)
LEMMA CreationGoesOn ==
  ASSUME Inv, NEW c \in Callers, Creating(call[c]), disk' \in [Names -> Contents],
         UNCHANGED <<handles, configs, files, dbs>>,
         NEW step \in {"writemark", "writefill", "writememo", "writepad"},
         Goto(c, [call[c] EXCEPT !.step = step])
  PROVE  Local(c)
<1>1. PICK r : r = [call[c] EXCEPT !.step = step]
  OBVIOUS
<1>2. DataOK' /\ Grown
  BY AddedSame, KeptFiles
<1>3. call[c] \in CallSet' /\ call[c] \in CallSet
  BY <1>2, CallFields
<1>4. r \in CallSet'
  BY <1>1, <1>3, CallRecord DEF CallEdits, Steps
<1>5. /\ r.step = step /\ r.op = call[c].op /\ r.path = call[c].path
      /\ r.cfg = call[c].cfg /\ Goto(c, r)
  BY <1>1, <1>3 DEF CallSet
<1> QED
  BY <1>2, <1>4, <1>5, CreatingGoes DEF Creating

LEMMA StagesWritten ==
  ASSUME Inv, NEW p \in Names
  PROVE  /\ \A x \in TableStages : [disk EXCEPT ![p].dbf = x] \in [Names -> Contents]
         /\ \A x \in MemoStages : [disk EXCEPT ![p].fpt = x] \in [Names -> Contents]
<1>1. disk \in [Names -> Contents] /\ disk[p] \in Contents
  BY Domains DEF DataOK
<1>2. ASSUME NEW x \in TableStages PROVE [disk EXCEPT ![p].dbf = x] \in [Names -> Contents]
  <2>1. [disk[p] EXCEPT !.dbf = x] \in Contents
    BY <1>1 DEF Contents
  <2> QED
    BY <1>1, <2>1
<1>3. ASSUME NEW x \in MemoStages PROVE [disk EXCEPT ![p].fpt = x] \in [Names -> Contents]
  <2>1. [disk[p] EXCEPT !.fpt = x] \in Contents
    BY <1>1 DEF Contents
  <2> QED
    BY <1>1, <2>1
<1> QED
  BY <1>2, <1>3

LEMMA TableWritesTyped ==
  ASSUME Inv, NEW c \in Callers, WriteColumns(c) \/ WriteMark(c) \/ WriteFill(c)
  PROVE  Local(c)
<1> DEFINE p == call[c].path
<1>1. /\ Creating(call[c]) /\ UNCHANGED <<handles, configs, dbs>>
      /\ \E x \in TableStages : disk' = [disk EXCEPT ![p].dbf = x]
  BY DEF WriteColumns, WriteMark, WriteFill, Creating, TableStages
<1>2. disk' \in [Names -> Contents]
  BY <1>1, CreatingKnows, StagesWritten
<1>3. \/ /\ files' = files
         /\ \E step \in {"writemark", "writefill", "writememo", "writepad"} :
              Goto(c, [call[c] EXCEPT !.step = step])
      \/ Created(c)
  BY Zenon DEF WriteColumns, WriteMark, WriteFill
<1> QED
  BY <1>1, <1>2, <1>3, CreationGoesOn, CreatedTyped

LEMMA MemoWritesTyped ==
  ASSUME Inv, NEW c \in Callers, WriteMemoHead(c) \/ WriteMemoPad(c)
  PROVE  Local(c)
<1> DEFINE p == call[c].path
<1>1. /\ Creating(call[c]) /\ UNCHANGED <<handles, configs, dbs>>
      /\ \E x \in MemoStages : disk' = [disk EXCEPT ![p].fpt = x]
  BY DEF WriteMemoHead, WriteMemoPad, Creating, MemoStages
<1>2. disk' \in [Names -> Contents]
  BY <1>1, CreatingKnows, StagesWritten
<1>3. \/ /\ files' = files
         /\ \E step \in {"writemark", "writefill", "writememo", "writepad"} :
              Goto(c, [call[c] EXCEPT !.step = step])
      \/ Created(c)
  BY Zenon DEF WriteMemoHead, WriteMemoPad
<1> QED
  BY <1>1, <1>2, <1>3, CreationGoesOn, CreatedTyped

(***************************************************************************)
(* Close.                                                                  *)
(***************************************************************************)

(* Handles are closed. *)
LEMMA ClosedHandles ==
  ASSUME Inv, UNCHANGED <<disk, configs>>, DOMAIN handles' = DOMAIN handles,
         handles' = [i \in 1..Len(handles) |-> handles'[i]],
         \A i \in DOMAIN handles :
           \E open \in BOOLEAN : handles'[i] = [handles[i] EXCEPT !.open = open]
  PROVE  Added /\ Len(handles') = Len(handles)
<1>1. \A i \in DOMAIN handles : handles'[i] \in HandleSet
  <2> TAKE i \in DOMAIN handles
  <2>1. handles[i] \in HandleSet
    BY Domains DEF DataOK
  <2>2. PICK open \in BOOLEAN : handles'[i] = [handles[i] EXCEPT !.open = open]
    OBVIOUS
  <2> QED
    BY <2>1, <2>2 DEF HandleSet
<1>2. handles' \in [1..Len(handles) -> HandleSet] /\ Len(handles) \in Nat
  BY <1>1, Domains
<1>3. handles' \in Seq(HandleSet) /\ Len(handles') = Len(handles)
  BY <1>2
<1> QED
  BY <1>3, Domains DEF Added, DataOK

LEMMA ClosingGoes ==
  ASSUME Inv, NEW c \in Callers, Closing(call[c]) \/ call[c].step = "next", DataOK', Grown,
         NEW r, r \in CallSet', r.step \in {"closedbf", "closefpt", "next"},
         r.op = call[c].op, r.db = call[c].db, r.left \subseteq call[c].left,
         r.step # "next" => r.file \in DOMAIN files,
         r.step = "closefpt" => files[r.file].fpt # 0,
         r.step = "next" => call[c].op = "closedb",
         Goto(c, r)
  PROVE  Local(c)
<1>1. StepOK(c, call[c]) /\ DOMAIN files \subseteq DOMAIN files'
      /\ DOMAIN dbs \subseteq DOMAIN dbs'
  <2>1. Len(files') \in Nat /\ DOMAIN files' = 1..Len(files')
        /\ Len(dbs') \in Nat /\ DOMAIN dbs' = 1..Len(dbs')
    BY DEF DataOK
  <2> QED
    BY <2>1, CallFields, Domains DEF Grown
<1>2. r.op \in {"close", "closedb"}
  BY <1>1 DEF StepOK, Closing
<1>3. r.op = "closedb" => /\ r.db \in DOMAIN dbs'
                          /\ r.left \subseteq {n \in Names : dbs'[r.db].tables[n] # 0}
  BY <1>1 DEF StepOK, Grown
<1>4. r.step = "closefpt" => files'[r.file].fpt # 0
  BY DEF Grown
<1>5. StepOK(c, r)'
  BY <1>1, <1>2, <1>3, <1>4 DEF StepOK, Opening, Creating, Closing
<1> QED
  BY <1>5, Goes

LEMMA CloseTyped ==
  ASSUME Inv, NEW c \in Callers, NEW k \in DOMAIN files, Close(c, k)
  PROVE  Local(c)
<1>1. PICK r : r = [NoCall EXCEPT !.op = "close", !.step = "closedbf", !.file = k]
  OBVIOUS
<1>2. Goto(c, r) /\ UNCHANGED <<disk, handles, configs, files, dbs>>
  BY <1>1 DEF Close
<1>3. DataOK' /\ Grown
  BY <1>2, SameData
<1>4. k \in 0..Len(files')
  BY <1>2, Domains
<1>5. r \in CallSet'
  <2>1. [NoCall EXCEPT !.op = "close"] \in CallSet'
    BY <1>3, NoCallTyped, CallRecord DEF CallEdits, Ops
  <2>2. [[NoCall EXCEPT !.op = "close"] EXCEPT !.step = "closedbf"] \in CallSet'
    BY <2>1, CallRecord DEF CallEdits, Steps
  <2>3. [[[NoCall EXCEPT !.op = "close"] EXCEPT !.step = "closedbf"] EXCEPT !.file = k]
          \in CallSet'
    BY <1>4, <2>2, CallRecord DEF CallEdits
  <2> QED
    BY <1>1, <2>3
<1>6. r.op = "close" /\ r.step = "closedbf" /\ r.file = k
  BY <1>1 DEF NoCall
<1>7. StepOK(c, r)'
  BY <1>2, <1>6 DEF StepOK, Opening, Creating, Closing
<1> QED
  BY <1>2, <1>3, <1>5, <1>7, Goes

LEMMA FileClosedTyped ==
  ASSUME Inv, NEW c \in Callers, Closing(call[c]), DataOK', Grown, FileClosed(c)
  PROVE  Local(c)
<1>1. CASE call[c].op = "closedb" /\ call[c].file # dbs[call[c].db].main
  <2>1. PICK r : r = [call[c] EXCEPT !.step = "next"]
    OBVIOUS
  <2>2. Goto(c, r)
    BY <1>1, <2>1 DEF FileClosed
  <2>3. call[c] \in CallSet' /\ call[c] \in CallSet
    BY CallFields
  <2>4. r \in CallSet'
    BY <2>1, <2>3, CallRecord DEF CallEdits, Steps
  <2>5. r.step = "next" /\ r.op = call[c].op /\ r.db = call[c].db /\ r.left = call[c].left
    BY <2>1, <2>3 DEF CallSet
  <2> QED
    BY <1>1, <2>2, <2>4, <2>5, ClosingGoes
<1>2. CASE ~(call[c].op = "closedb" /\ call[c].file # dbs[call[c].db].main)
  <2>1. Return(c, "ok")
    BY <1>2 DEF FileClosed
  <2> QED
    BY <2>1, Returns
<1> QED
  BY <1>1, <1>2

LEMMA CloseDbfTyped ==
  ASSUME Inv, NEW c \in Callers, CloseDbf(c)
  PROVE  Local(c)
<1> DEFINE k == call[c].file
           h == files[k].dbf
<1>1. /\ call[c].step = "closedbf" /\ Closing(call[c])
      /\ UNCHANGED <<disk, configs, files, dbs>>
  BY DEF CloseDbf, Closing
<1>2. CASE h # 0 /\ ~handles[h].open
  BY <1>1, <1>2, SameData, Returns DEF CloseDbf
<1>3. CASE ~(h # 0 /\ ~handles[h].open)
  <2>1. handles' = [i \in DOMAIN handles |-> [handles[i] EXCEPT !.open = @ /\ i # h]]
    BY <1>3 DEF CloseDbf
  <2>2. /\ DOMAIN handles' = DOMAIN handles
        /\ handles' = [i \in 1..Len(handles) |-> handles'[i]]
        /\ \A i \in DOMAIN handles :
             \E open \in BOOLEAN : handles'[i] = [handles[i] EXCEPT !.open = open]
    <3> DEFINE hs == [i \in DOMAIN handles |-> [handles[i] EXCEPT !.open = @ /\ i # h]]
    <3>1. DOMAIN hs = DOMAIN handles /\ hs = [i \in 1..Len(handles) |-> hs[i]]
      BY Domains
    <3>2. ASSUME NEW i \in DOMAIN handles
          PROVE  \E open \in BOOLEAN : hs[i] = [handles[i] EXCEPT !.open = open]
      <4>1. handles[i] \in HandleSet
        BY Domains DEF DataOK
      <4>2. (handles[i].open /\ i # h) \in BOOLEAN
        OBVIOUS
      <4>3. hs[i] = [handles[i] EXCEPT !.open = handles[i].open /\ i # h]
        BY <4>1 DEF HandleSet
      <4> QED
        BY <4>2, <4>3
    <3>3. handles' = hs
      BY <2>1
    <3> HIDE DEF hs
    <3> QED
      BY <3>1, <3>2, <3>3
  <2>3. DataOK' /\ Grown
    BY <1>1, <2>2, ClosedHandles, KeptFiles
  <2>4. CASE AfterDbf(k)
    <3>1. PICK r : r = [call[c] EXCEPT !.step = "closefpt"]
      OBVIOUS
    <3>2. Goto(c, r)
      BY <1>3, <2>4, <3>1 DEF CloseDbf
    <3>3. call[c] \in CallSet' /\ call[c] \in CallSet /\ StepOK(c, call[c])
      BY <2>3, CallFields
    <3>4. r \in CallSet'
      BY <3>1, <3>3, CallRecord DEF CallEdits, Steps
    <3>5. r.step = "closefpt" /\ r.op = call[c].op /\ r.db = call[c].db
          /\ r.left = call[c].left /\ r.file = k
      BY <3>1, <3>3 DEF CallSet
    <3>6. r.file \in DOMAIN files /\ files[r.file].fpt # 0
      BY <1>1, <2>4, <3>3, <3>5 DEF StepOK, AfterDbf
    <3> QED
      BY <1>1, <2>3, <3>2, <3>4, <3>5, <3>6, ClosingGoes
  <2>5. CASE ~AfterDbf(k)
    <3>1. FileClosed(c)
      BY <1>3, <2>5 DEF CloseDbf
    <3> QED
      BY <1>1, <2>3, <3>1, FileClosedTyped
  <2> QED
    BY <2>4, <2>5
<1> QED
  BY <1>2, <1>3

LEMMA CloseFptTyped ==
  ASSUME Inv, NEW c \in Callers, CloseFpt(c)
  PROVE  Local(c)
<1> DEFINE h == files[call[c].file].fpt
<1>1. Closing(call[c]) /\ UNCHANGED <<disk, configs, files, dbs>>
  BY DEF CloseFpt, Closing
<1>2. CASE ~handles[h].open
  BY <1>1, <1>2, SameData, Returns DEF CloseFpt
<1>3. CASE handles[h].open
  <2>1. handles' = [handles EXCEPT ![h].open = FALSE] /\ FileClosed(c)
    BY <1>3 DEF CloseFpt
  <2>2. /\ DOMAIN handles' = DOMAIN handles
        /\ handles' = [i \in 1..Len(handles) |-> handles'[i]]
    BY <2>1, Domains
  <2>3. ASSUME NEW i \in DOMAIN handles
        PROVE  \E open \in BOOLEAN : handles'[i] = [handles[i] EXCEPT !.open = open]
    <3>1. handles[i] \in HandleSet
      BY Domains DEF DataOK
    <3>2. handles[i].open \in BOOLEAN /\ handles[i] = [handles[i] EXCEPT !.open = handles[i].open]
      BY <3>1 DEF HandleSet
    <3>3. handles'[i] = handles[i] \/ handles'[i] = [handles[i] EXCEPT !.open = FALSE]
      BY <2>1
    <3> QED
      BY <3>2, <3>3
  <2>4. DataOK' /\ Grown
    BY <1>1, <2>2, <2>3, ClosedHandles, KeptFiles
  <2> QED
    BY <1>1, <2>1, <2>4, FileClosedTyped
<1> QED
  BY <1>2, <1>3

LEMMA CloseDatabaseTyped ==
  ASSUME Inv, NEW c \in Callers, NEW d \in DOMAIN dbs, CloseDatabase(c, d)
  PROVE  Local(c)
<1> DEFINE left == {n \in Names : dbs[d].tables[n] # 0}
<1>1. PICK r : r = [NoCall EXCEPT !.op = "closedb", !.step = "next", !.db = d, !.left = left]
  OBVIOUS
<1>2. Goto(c, r) /\ UNCHANGED <<disk, handles, configs, files, dbs>>
  BY <1>1 DEF CloseDatabase
<1>3. DataOK' /\ Grown
  BY <1>2, SameData
<1>4. d \in 0..Len(dbs') /\ left \in SUBSET Names
  BY <1>2, Domains
<1> HIDE DEF left
<1>5. r \in CallSet'
  <2>1. [NoCall EXCEPT !.op = "closedb"] \in CallSet'
    BY <1>3, NoCallTyped, CallRecord DEF CallEdits, Ops
  <2>2. [[NoCall EXCEPT !.op = "closedb"] EXCEPT !.step = "next"] \in CallSet'
    BY <2>1, CallRecord DEF CallEdits, Steps
  <2>3. [[[NoCall EXCEPT !.op = "closedb"] EXCEPT !.step = "next"] EXCEPT !.db = d] \in CallSet'
    BY <1>4, <2>2, CallRecord DEF CallEdits
  <2>4. [[[[NoCall EXCEPT !.op = "closedb"] EXCEPT !.step = "next"] EXCEPT !.db = d]
           EXCEPT !.left = left] \in CallSet'
    BY <1>4, <2>3, CallRecord DEF CallEdits
  <2> QED
    BY <1>1, <2>4
<1>6. r.op = "closedb" /\ r.step = "next" /\ r.db = d /\ r.left = left
  BY <1>1 DEF NoCall
<1>7. StepOK(c, r)'
  BY <1>2, <1>6 DEF StepOK, Opening, Creating, Closing, left
<1> QED
  BY <1>2, <1>3, <1>5, <1>7, Goes

LEMMA CloseNextTyped ==
  ASSUME Inv, NEW c \in Callers, CloseNext(c)
  PROVE  Local(c)
<1> DEFINE d == call[c].db
<1>1. call[c].step = "next" /\ UNCHANGED <<disk, handles, configs, files, dbs>>
  BY DEF CloseNext
<1>2. DataOK' /\ Grown
  BY <1>1, SameData
<1>3. call[c] \in CallSet' /\ call[c] \in CallSet /\ StepOK(c, call[c])
  BY <1>2, CallFields
<1>4. d \in DOMAIN dbs /\ call[c].left \subseteq {n \in Names : dbs[d].tables[n] # 0}
  BY <1>1, <1>3 DEF StepOK
<1>5. dbs[d] \in DatabaseSet
  BY <1>4, Domains DEF DataOK
<1>6. dbs[d].main \in DOMAIN files
      /\ \A n \in call[c].left : n \in Names /\ dbs[d].tables[n] \in DOMAIN files
  BY <1>4, <1>5, Domains DEF DatabaseSet
<1>7. ASSUME NEW n \in call[c].left,
             Goto(c, [call[c] EXCEPT !.step = "closedbf", !.left = @ \ {n},
                        !.file = dbs[d].tables[n]])
      PROVE  Local(c)
  <2>1. PICK r : r = [call[c] EXCEPT !.step = "closedbf", !.left = call[c].left \ {n},
                        !.file = dbs[d].tables[n]]
    OBVIOUS
  <2>2. Goto(c, r)
    BY <1>3, <1>7, <2>1 DEF CallSet
  <2>3. call[c].left \ {n} \in SUBSET Names /\ dbs[d].tables[n] \in 0..Len(files')
    BY <1>1, <1>6, Domains
  <2>4. r \in CallSet'
    <3>1. [call[c] EXCEPT !.step = "closedbf"] \in CallSet'
      BY <1>3, CallRecord DEF CallEdits, Steps
    <3>2. [[call[c] EXCEPT !.step = "closedbf"] EXCEPT !.left = call[c].left \ {n}] \in CallSet'
      BY <2>3, <3>1, CallRecord DEF CallEdits
    <3>3. [[[call[c] EXCEPT !.step = "closedbf"] EXCEPT !.left = call[c].left \ {n}]
             EXCEPT !.file = dbs[d].tables[n]] \in CallSet'
      BY <2>3, <3>2, CallRecord DEF CallEdits
    <3> QED
      BY <2>1, <3>3
  <2>5. r.step = "closedbf" /\ r.op = call[c].op /\ r.db = call[c].db
        /\ r.left = call[c].left \ {n} /\ r.file = dbs[d].tables[n]
    BY <1>3, <2>1 DEF CallSet
  <2> QED
    BY <1>1, <1>2, <1>6, <2>2, <2>4, <2>5, ClosingGoes
<1>8. ASSUME Goto(c, [call[c] EXCEPT !.step = "closedbf", !.file = dbs[d].main])
      PROVE  Local(c)
  <2>1. PICK r : r = [call[c] EXCEPT !.step = "closedbf", !.file = dbs[d].main]
    OBVIOUS
  <2>2. dbs[d].main \in 0..Len(files')
    BY <1>1, <1>6, Domains
  <2>3. r \in CallSet'
    <3>1. [call[c] EXCEPT !.step = "closedbf"] \in CallSet'
      BY <1>3, CallRecord DEF CallEdits, Steps
    <3>2. [[call[c] EXCEPT !.step = "closedbf"] EXCEPT !.file = dbs[d].main] \in CallSet'
      BY <2>2, <3>1, CallRecord DEF CallEdits
    <3> QED
      BY <2>1, <3>2
  <2>4. r.step = "closedbf" /\ r.op = call[c].op /\ r.db = call[c].db
        /\ r.left = call[c].left /\ r.file = dbs[d].main
    BY <1>3, <2>1 DEF CallSet
  <2>5. Goto(c, r)
    BY <1>8, <2>1
  <2> QED
    BY <1>1, <1>2, <1>6, <2>3, <2>4, <2>5, ClosingGoes
<1> QED
  BY <1>7, <1>8 DEF CloseNext

(***************************************************************************)
(* Failures.                                                               *)
(***************************************************************************)
LEMMA IOFailsTyped ==
  ASSUME Inv, NEW c \in Callers, IOFails(c)
  PROVE  Local(c)
<1> DEFINE keeps(i) == ~ \/ call[c].step = "closedbf" /\ i = files[call[c].file].dbf
                         \/ call[c].step = "closefpt" /\ i = files[call[c].file].fpt
           hs == [i \in DOMAIN handles |-> [handles[i] EXCEPT !.open = @ /\ keeps(i)]]
<1>1. Fail(c) /\ UNCHANGED <<disk, configs, dbs>> /\ handles' = hs
  BY DEF IOFails
<1> HIDE DEF keeps
<1>2. DOMAIN hs = DOMAIN handles /\ hs = [i \in 1..Len(handles) |-> hs[i]]
  BY Domains
<1>3. ASSUME NEW i \in DOMAIN handles
      PROVE  \E open \in BOOLEAN : hs[i] = [handles[i] EXCEPT !.open = open]
  <2>1. handles[i] \in HandleSet
    BY Domains DEF DataOK
  <2>2. (handles[i].open /\ keeps(i)) \in BOOLEAN
    OBVIOUS
  <2>3. hs[i] = [handles[i] EXCEPT !.open = handles[i].open /\ keeps(i)]
    BY <2>1 DEF HandleSet
  <2> QED
    BY <2>2, <2>3
<1> HIDE DEF hs
<1>4. Added
  BY <1>1, <1>2, <1>3, ClosedHandles
<1> QED
  BY <1>1, <1>4, Fails

(* A program that starts. *)
Started ==
  /\ disk \in [Names -> Contents] /\ configs \in {Configs(setup) : setup \in Setups}
  /\ handles = <<>> /\ files = <<>> /\ dbs = <<>>
  /\ call = [c \in Callers |-> NoCall] /\ outcome = [c \in Callers |-> "none"]
  /\ calls \in 0..MaxCalls /\ faults \in 0..MaxFaults

LEMMA MemberOfSeq ==
  ASSUME NEW S, NEW s \in Seq(S), NEW k \in 1..Len(s)
  PROVE  s[k] \in S
OBVIOUS

LEMMA StartTyped == Started => Inv
<1> SUFFICES ASSUME Started PROVE Inv
  OBVIOUS
<1>1. configs \in Seq(ConfigSet)
  <2>1. PICK setup \in Setups : configs = Configs(setup)
    BY DEF Started
  <2>2. setup \in Seq([source : {"file", "data"}, converter : Pages \cup {None},
                       interpret : BOOLEAN, validate : BOOLEAN, untested : BOOLEAN])
    BY FilesAssumption
  <2>3. DOMAIN setup = 1..Len(setup) /\ Len(setup) \in Nat
    BY <2>2
  <2>4. ASSUME NEW k \in 1..Len(setup) PROVE configs[k] \in ConfigSet
    <3>1. setup[k] \in [source : {"file", "data"}, converter : Pages \cup {None},
                        interpret : BOOLEAN, validate : BOOLEAN, untested : BOOLEAN]
      BY <2>2, MemberOfSeq
    <3>2. configs[k] = [source |-> setup[k].source, given |-> setup[k].converter,
                        converter |-> setup[k].converter, interpret |-> setup[k].interpret,
                        validate |-> setup[k].validate, untested |-> setup[k].untested,
                        io |-> FALSE, mine |-> TRUE]
      BY <2>1, <2>3 DEF Configs
    <3> QED
      BY <3>1, <3>2 DEF ConfigSet
  <2>5. configs = [k \in 1..Len(setup) |-> configs[k]]
    BY <2>1, <2>3 DEF Configs
  <2>6. configs \in [1..Len(setup) -> ConfigSet]
    BY <2>4, <2>5
  <2> QED
    BY <2>3, <2>6
<1>2. /\ handles \in Seq(HandleSet) /\ files \in Seq(FileSet) /\ dbs \in Seq(DatabaseSet)
      /\ Len(handles) = 0 /\ Len(files) = 0 /\ Len(dbs) = 0 /\ DOMAIN files = {}
  BY DEF Started
<1>3. NoCall \in CallSet
  <2>1. 0 \in 0..Len(configs) /\ 0 \in 0..(Len(Catalog) + 1)
    BY <1>1, FilesAssumption
  <2>2. [n \in Names |-> 0] \in [Names -> 0..Len(files)]
    BY <1>2
  <2> QED
    BY <1>2, <2>1, <2>2 DEF CallSet, NoCall
<1>4. \A c \in Callers : StepOK(c, NoCall)
  BY DEF StepOK, NoCall, Opening, Creating, Closing
<1>5. StepsOK /\ DOMAIN call = Callers
  BY <1>4 DEF StepsOK, Started
<1> QED
  BY <1>1, <1>2, <1>3, <1>5 DEF Inv, TypeOK, Started, HandleSet, DatabaseSet

LEMMA InvInit == Init => Inv
<1>1. Init => Started
  BY FilesAssumption DEF Init, Started
<1> QED
  BY <1>1, StartTyped

LEMMA CrashTyped ==
  ASSUME Inv, Crash
  PROVE  Inv'
<1>1. Started'
  BY FilesAssumption DEF Crash, Started, Inv, TypeOK
<1>2. (Started => Inv)'
  BY StartTyped, PTL
<1> QED
  BY <1>1, <1>2

(* Each step of a goroutine leaves the others alone. *)
LEMMA StepsAreLocal ==
  ASSUME Inv, NEW c \in Callers, Begin(c) \/ Step(c) \/ IOFails(c)
  PROVE  Local(c)
<1>1. CASE Begin(c)
  BY <1>1, OpenTableTyped, OpenDatabaseTyped, NewTableTyped, CloseTyped, CloseDatabaseTyped
     DEF Begin
<1>2. CASE Step(c)
  BY <1>2, OpenHandleTyped, ReadHeadTyped, OpenRelatedTyped, ReadMemoHeadTyped,
     SearchCatalogTyped, SkipRowTyped, OpenRowTyped, DatabaseOpenedTyped, StatTyped,
     MakeDbfTyped, MakeFptTyped, WriteHeadTyped, TableWritesTyped, MemoWritesTyped,
     CloseDbfTyped, CloseFptTyped, CloseNextTyped
     DEF Step
<1>3. CASE IOFails(c)
  BY <1>3, IOFailsTyped
<1> QED
  BY <1>1, <1>2, <1>3

LEMMA StepsUncounted ==
  ASSUME NEW c, Step(c)
  PROVE  UNCHANGED <<calls, faults>>
<1>1. ASSUME \/ OpenHandle(c) \/ ReadHead(c) \/ OpenRelated(c) \/ ReadMemoHead(c)
             \/ SearchCatalog(c) \/ SkipRow(c) \/ OpenRow(c) \/ DatabaseOpened(c)
      PROVE  UNCHANGED <<calls, faults>>
  BY <1>1 DEF OpenHandle, ReadHead, OpenRelated, ReadMemoHead, SearchCatalog, SkipRow,
     OpenRow, DatabaseOpened
<1>2. ASSUME \/ Stat(c) \/ MakeDbf(c) \/ MakeFpt(c) \/ WriteHead(c) \/ WriteColumns(c)
             \/ WriteMark(c) \/ WriteFill(c) \/ WriteMemoHead(c) \/ WriteMemoPad(c)
      PROVE  UNCHANGED <<calls, faults>>
  BY <1>2 DEF Stat, MakeDbf, MakeFpt, WriteHead, WriteColumns, WriteMark, WriteFill,
     WriteMemoHead, WriteMemoPad
<1>3. ASSUME CloseDbf(c) \/ CloseFpt(c) \/ CloseNext(c)
      PROVE  UNCHANGED <<calls, faults>>
  BY <1>3 DEF CloseDbf, CloseFpt, CloseNext
<1> QED
  BY <1>1, <1>2, <1>3 DEF Step

LEMMA Counters ==
  ASSUME Inv, NEW c \in Callers, Begin(c) \/ Step(c) \/ IOFails(c)
  PROVE  calls' \in 0..MaxCalls /\ faults' \in 0..MaxFaults
<1>1. calls \in 0..MaxCalls /\ faults \in 0..MaxFaults /\ MaxCalls \in Nat /\ MaxFaults \in Nat
  BY FilesAssumption DEF Inv, TypeOK
<1>2. CASE Begin(c)
  <2>1. calls' = calls + 1 /\ calls < MaxCalls /\ faults' = faults
    BY <1>2 DEF Begin, OpenTable, OpenDatabase, NewTable, Close, CloseDatabase, Call
  <2> QED
    BY <1>1, <2>1
<1>3. CASE Step(c)
  BY <1>1, <1>3, StepsUncounted
<1>4. CASE IOFails(c)
  BY <1>1, <1>4 DEF IOFails
<1> QED
  BY <1>2, <1>3, <1>4

LEMMA InvNext == Inv /\ [Next]_vars => Inv'
<1> SUFFICES ASSUME Inv, [Next]_vars PROVE Inv'
  OBVIOUS
<1>1. ASSUME NEW c \in Callers, Begin(c) \/ Step(c) \/ IOFails(c) PROVE Inv'
  BY <1>1, StepsAreLocal, Counters, LocalSteps
<1>2. CASE Crash
  BY <1>2, CrashTyped
<1>3. CASE UNCHANGED vars
  <2>0. /\ disk' = disk /\ handles' = handles /\ configs' = configs /\ files' = files
        /\ dbs' = dbs /\ call' = call /\ outcome' = outcome /\ calls' = calls
        /\ faults' = faults /\ TypeOK
    BY <1>3 DEF vars, Inv
  <2>1. TypeOK'
    BY <2>0 DEF TypeOK, FileSet, CallSet
  <2>2. StepsOK'
    <3>1. ASSUME NEW c \in Callers PROVE StepOK(c, call[c])'
      <4>1. StepOK(c, call[c])
        BY DEF Inv, StepsOK
      <4> QED
        BY <2>0, <4>1 DEF StepOK
    <3> QED
      BY <3>1 DEF StepsOK
  <2> QED
    BY <1>3, <2>1, <2>2 DEF Inv, vars
<1> QED
  BY <1>1, <1>2, <1>3 DEF Next

(* Every call, File, Database and Config has its type at every step of     *)
(* OpenTable, OpenDatabase, NewTable and Close, whatever fails; a File has *)
(* a Config with a converter.                                              *)
THEOREM TypeCorrect == Spec => []TypeOK
<1>1. Inv => TypeOK
  BY DEF Inv
<1> QED
  BY <1>1, InvInit, InvNext, PTL DEF Spec
=============================================================================
