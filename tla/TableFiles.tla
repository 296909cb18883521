----------------------------- MODULE TableFiles -----------------------------
(***************************************************************************)
(* The life of the files of a program: NewTable creates one, OpenTable and *)
(* OpenDatabase open them (from the file system, or from bytes the program *)
(* has), Close closes them.  Goroutines make these calls at the same time; *)
(* every call is made of the steps at which it touches the file system or  *)
(* the caller's Config, which the code keeps a pointer to and changes.     *)
(*                                                                         *)
(* A file name stands for the table file and the memo file next to it.     *)
(* What is inside a file is of no interest but for how far it is written,  *)
(* its code page mark, its memo flag and whether its version is a tested   *)
(* one.                                                                    *)
(***************************************************************************)
EXTENDS Naturals, Sequences, FiniteSets

CONSTANTS
  Callers,       (* goroutines                                             *)
  Calls,         (* the calls each of them makes                           *)
  Names,         (* names of files and tables                              *)
  Container,     (* the name of the database container                     *)
  Catalog,       (* OBJECTNAME of the container's records of type Table    *)
  Blank,         (* a name of spaces only                                  *)
  PathOf,        (* the file name of a table name: "_" is read as " "      *)
  Provided,      (* the tables a provider has bytes for                    *)
  Pages, None,   (* code pages; no converter, no name                      *)
  Disks,         (* the files that can be there when the program starts    *)
  Setups,        (* the Configs a program can have made: their options     *)
  MaxCalls, MaxFaults   (* bounds: calls; failures, crashes among them      *)

(* How far a table file and a memo file are written: the header; the       *)
(* columns; up to their end mark, or the eight bytes of the memo header;   *)
(* and with the zeros that fill the header.                                *)
TableStages == {"none", "empty", "head", "columns", "marked", "whole"}
MemoStages  == {"none", "empty", "marked", "whole"}
Contents == [dbf : TableStages, fpt : MemoStages, page : Pages,
             memo : BOOLEAN, tested : BOOLEAN]

ASSUME FilesAssumption ==
  /\ Calls \in [Callers -> SUBSET {"open", "opendb", "create", "close", "closedb"}]
  /\ Container \in Names /\ Provided \subseteq Names
  /\ Catalog \in Seq((Names \ {Container}) \cup {Blank})
  /\ PathOf \in [Names -> Names]
  /\ Callers \cap {"program", "table", "main", "lost"} = {}
  /\ None \notin Pages /\ Blank \notin Names
  /\ Disks \subseteq [Names -> Contents]
  /\ Setups \subseteq Seq([source : {"file", "data"}, converter : Pages \cup {None},
                           interpret : BOOLEAN, validate : BOOLEAN, untested : BOOLEAN])
  /\ MaxCalls \in Nat /\ MaxFaults \in Nat

VARIABLES
  disk,      (* the files                                                  *)
  handles,   (* the file handles of the operating system, in order of use  *)
  configs,   (* the Configs, by the order in which they were made          *)
  files,     (* the Files that were opened                                 *)
  dbs,       (* the Databases that were opened                             *)
  call,      (* for each goroutine, the call under way                     *)
  outcome,   (* for each goroutine, how its last call ended                *)
  calls, faults

vars == <<disk, handles, configs, files, dbs, call, outcome, calls, faults>>

(* given is the converter the caller set, converter the one that is there  *)
(* now; io says that Config.IO is set, mine that the caller made it.       *)
ConfigSet == [source : {"file", "data"}, given : Pages \cup {None},
              converter : Pages \cup {None}, interpret : BOOLEAN,
              validate : BOOLEAN, untested : BOOLEAN, io : BOOLEAN, mine : BOOLEAN]

(* Who has a File: the program, as such or as a table of a Database or     *)
(* unseen as its container; a call of OpenDatabase; or nobody any more.    *)
FileSet == [cfg : DOMAIN configs, dbf : 0..Len(handles), fpt : 0..Len(handles),
            path : Names, page : Pages,
            held : {"program", "table", "main", "lost"} \cup Callers]

NoCall == [op |-> "none", step |-> "idle", cfg |-> 0, path |-> None,
           dbf |-> 0, fpt |-> 0, memo |-> FALSE, tested |-> FALSE,
           dbcfg |-> 0, main |-> 0, row |-> 0, tables |-> [n \in Names |-> 0],
           file |-> 0, db |-> 0, left |-> {}]

CallSet == [op : {"none", "open", "opendb", "create", "close", "closedb"},
            step : {"idle", "handle", "head", "related", "memohead", "catalog", "row",
                    "stat", "make", "makefpt", "writehead", "writecols", "writemark",
                    "writefill", "writememo", "writepad", "next", "closedbf", "closefpt"},
            cfg : 0..Len(configs), path : Names \cup {None},
            dbf : 0..Len(handles), fpt : 0..Len(handles), memo : BOOLEAN,
            tested : BOOLEAN, dbcfg : 0..Len(configs), main : 0..Len(files),
            row : 0..(Len(Catalog) + 1), tables : [Names -> 0..Len(files)],
            file : 0..Len(files), db : 0..Len(dbs), left : SUBSET Names]

TypeOK ==
  /\ disk \in [Names -> Contents]
  /\ handles \in Seq([path : Names, part : {"dbf", "fpt"}, open : BOOLEAN])
  /\ configs \in Seq(ConfigSet)
  /\ files \in Seq(FileSet)
  /\ dbs \in Seq([main : DOMAIN files, tables : [Names -> 0..Len(files)]])
  /\ \A c \in Callers : call[c] \in CallSet
  /\ outcome \in [Callers -> {"none", "ok", "error"}]
  /\ \A k \in DOMAIN files : configs[files[k].cfg].converter \in Pages
  /\ calls \in 0..MaxCalls /\ faults \in 0..MaxFaults

(* source says where the table is, a file or bytes.  A setup has these     *)
(* options, but for the three that the code is to set.                     *)
Configs(setup) ==
  [k \in DOMAIN setup |->
     [source |-> setup[k].source, given |-> setup[k].converter,
      converter |-> setup[k].converter, interpret |-> setup[k].interpret,
      validate |-> setup[k].validate, untested |-> setup[k].untested,
      io |-> FALSE, mine |-> TRUE]]

Init ==
  /\ disk \in Disks
  /\ configs \in {Configs(setup) : setup \in Setups}
  /\ handles = <<>> /\ files = <<>> /\ dbs = <<>>
  /\ call = [c \in Callers |-> NoCall]
  /\ outcome = [c \in Callers |-> "none"]
  /\ calls = 0 /\ faults = 0

(* The program makes a call. *)
Call(c, op) == op \in Calls[c] /\ call[c].step = "idle" /\ calls < MaxCalls
               /\ calls' = calls + 1

Goto(c, record) == call' = [call EXCEPT ![c] = record] /\ UNCHANGED outcome

Return(c, how) == /\ call' = [call EXCEPT ![c] = NoCall]
                  /\ outcome' = [outcome EXCEPT ![c] = how]

(* OpenDatabase that returns an error drops the Files it has opened. *)
Dropped(c) == [k \in DOMAIN files |->
                 IF files[k].held = c THEN [files[k] EXCEPT !.held = "lost"] ELSE files[k]]

Fail(c) == Return(c, "error") /\ files' = Dropped(c)

(* os.OpenFile and os.Create: one handle more. *)
NewHandle(path, part) ==
  handles' = Append(handles, [path |-> path, part |-> part, open |-> TRUE])

(* A goroutine leaves alone the Config another one is calling with. *)
Free(k) == configs[k].mine /\ \A c \in Callers : k \notin {call[c].cfg, call[c].dbcfg}

(* validateDataSources: of Filename, Data, Reader and IO exactly one. *)
SingleSource_Any(config) == TRUE
SingleSource(config) == ~config.io

(***************************************************************************)
(* OpenTable.  With a Filename it stores the default IO in the caller's    *)
(* Config; with bytes it works on a copy.                                  *)
(***************************************************************************)
Enter(k) ==
  IF configs[k].source = "file"
  THEN configs' = [configs EXCEPT ![k].io = TRUE]
  ELSE configs' = Append(configs, [configs[k] EXCEPT !.io = TRUE, !.mine = FALSE])

(* The Config the opened file will point to. *)
Entered(k) == IF configs[k].source = "file" THEN k ELSE Len(configs) + 1

FirstStep(k) == IF configs[k].source = "file" THEN "handle" ELSE "head"

OpenTable(c, k, path) ==
  /\ Call(c, "open") /\ Free(k)
  /\ IF SingleSource(configs[k])
     THEN /\ Enter(k)
          /\ Goto(c, [NoCall EXCEPT !.op = "open", !.step = FirstStep(k),
                        !.cfg = Entered(k), !.path = path])
     ELSE Return(c, "error") /\ UNCHANGED configs
  /\ UNCHANGED <<disk, handles, files, dbs, faults>>

(* findFile, in the directory of the file. *)
Found(stage) == stage # "none"

OpenHandle(c) ==
  LET p == call[c].path IN
  /\ call[c].step = "handle"
  /\ IF Found(disk[p].dbf)
     THEN /\ NewHandle(p, "dbf")
          /\ Goto(c, [call[c] EXCEPT !.step = "head", !.dbf = Len(handles')])
          /\ UNCHANGED files
     ELSE Fail(c) /\ UNCHANGED handles
  /\ UNCHANGED <<disk, configs, dbs, calls, faults>>

(* The File is complete.  In OpenDatabase it is the container, or the      *)
(* table of the name in this row, which takes the place of an earlier one. *)
Opened(c) ==
  LET k == Len(files) + 1
      n == Catalog[call[c].row]
      File(held) == [cfg |-> call[c].cfg, dbf |-> call[c].dbf, fpt |-> call[c].fpt,
                     path |-> call[c].path, page |-> disk[call[c].path].page,
                     held |-> held]
      next == [call[c] EXCEPT !.dbf = 0, !.fpt = 0, !.cfg = 0, !.path = None]
      kept == [i \in DOMAIN files |->
                 IF i = call[c].tables[n] THEN [files[i] EXCEPT !.held = "lost"]
                                          ELSE files[i]]
  IN
  /\ \/ /\ call[c].op = "open"
        /\ Return(c, "ok") /\ files' = Append(files, File("program"))
     \/ /\ call[c].op = "opendb" /\ call[c].main = 0
        /\ Goto(c, [next EXCEPT !.main = k, !.step = "catalog"])
        /\ files' = Append(files, File(c))
     \/ /\ call[c].op = "opendb" /\ call[c].main # 0
        /\ Goto(c, [next EXCEPT !.tables[n] = k, !.step = "row", !.row = @ + 1])
        /\ files' = Append(kept, File(c))

(* The code page mark is interpreted into the Config. *)
Converted_IfAsked(config, page) ==
  [config EXCEPT !.converter = IF config.interpret THEN page ELSE @]
Converted(config, page) ==
  [config EXCEPT !.converter =
     IF config.interpret \/ config.converter = None THEN page ELSE config.converter]

(* ReadColumns finds the end mark of the columns; what is behind it, it    *)
(* does not read.                                                          *)
Readable(d) == d.dbf \in {"marked", "whole"}

ValidVersion(d, config) == d.tested \/ config.untested

(* ReadHeader, ReadColumns, ValidateFileVersion, and the code page. *)
ReadHead(c) ==
  LET d == disk[call[c].path]
      config == Converted(configs[call[c].cfg], d.page)
  IN
  /\ call[c].step = "head"
  /\ IF Readable(d) /\ ValidVersion(d, configs[call[c].cfg])
     THEN /\ configs' = [configs EXCEPT ![call[c].cfg] = config]
          /\ IF config.validate /\ config.converter # d.page
             THEN Fail(c)
             ELSE IF d.memo
             THEN Goto(c, [call[c] EXCEPT !.step = "related"]) /\ UNCHANGED files
             ELSE Opened(c)
     ELSE Fail(c) /\ UNCHANGED configs
  /\ UNCHANGED <<disk, handles, dbs, calls, faults>>

(* openMemo, or the memo bytes of the Config. *)
OpenRelated(c) ==
  LET p == call[c].path IN
  /\ call[c].step = "related"
  /\ IF Found(disk[p].fpt)
     THEN /\ IF configs[call[c].cfg].source = "file"
             THEN /\ NewHandle(p, "fpt")
                  /\ Goto(c, [call[c] EXCEPT !.step = "memohead", !.fpt = Len(handles')])
             ELSE /\ Goto(c, [call[c] EXCEPT !.step = "memohead"])
                  /\ UNCHANGED handles
          /\ UNCHANGED files
     ELSE Fail(c) /\ UNCHANGED handles
  /\ UNCHANGED <<disk, configs, dbs, calls, faults>>

MemoReadable_Any(d) == TRUE
MemoReadable(d) == d.fpt \in {"marked", "whole"}

ReadMemoHead(c) ==
  /\ call[c].step = "memohead"
  /\ IF MemoReadable(disk[call[c].path]) THEN Opened(c) ELSE Fail(c)
  /\ UNCHANGED <<disk, handles, configs, dbs, calls, faults>>

(***************************************************************************)
(* OpenDatabase opens the container, searches it and opens every table its *)
(* catalogue names, each with a Config of its own.                         *)
(***************************************************************************)
OpenDatabase(c, k) ==
  /\ Call(c, "opendb") /\ Free(k)
  /\ IF SingleSource(configs[k])
     THEN /\ Enter(k)
          /\ Goto(c, [NoCall EXCEPT !.op = "opendb", !.step = FirstStep(k),
                        !.cfg = Entered(k), !.dbcfg = k, !.path = Container])
     ELSE Return(c, "error") /\ UNCHANGED configs
  /\ UNCHANGED <<disk, handles, files, dbs, faults>>

SearchCatalog(c) ==
  /\ call[c].step = "catalog"
  /\ Goto(c, [call[c] EXCEPT !.step = "row", !.row = 1])
  /\ UNCHANGED <<disk, handles, configs, files, dbs, calls, faults>>

(* The Config of a table has the options of the Config of the database and *)
(* the converter that is in it now.  (given stays the caller's.)           *)
TableConfig(k) == [configs[k] EXCEPT !.io = TRUE, !.mine = FALSE]

Skipped(c) == \/ Catalog[call[c].row] = Blank
              \/ /\ configs[call[c].dbcfg].source = "data"
                 /\ Catalog[call[c].row] \notin Provided

TablePath_AsNamed(source, n) == n
TablePath(source, n) == IF source = "file" THEN PathOf[n] ELSE n

AfterSkipped_Same(row) == row
AfterSkipped(row) == row + 1

SkipRow(c) ==
  /\ call[c].step = "row" /\ call[c].row <= Len(Catalog) /\ Skipped(c)
  /\ Goto(c, [call[c] EXCEPT !.row = AfterSkipped(@)])
  /\ UNCHANGED <<disk, handles, configs, files, dbs, calls, faults>>

OpenRow(c) ==
  LET k == call[c].dbcfg IN
  /\ call[c].step = "row" /\ call[c].row <= Len(Catalog) /\ ~Skipped(c)
  /\ configs' = Append(configs, TableConfig(k))
  /\ Goto(c, [call[c] EXCEPT !.step = FirstStep(k), !.cfg = Len(configs'),
                !.path = TablePath(configs[k].source, Catalog[call[c].row])])
  /\ UNCHANGED <<disk, handles, files, dbs, calls, faults>>

DatabaseOpened(c) ==
  /\ call[c].step = "row" /\ call[c].row = Len(Catalog) + 1
  /\ dbs' = Append(dbs, [main |-> call[c].main, tables |-> call[c].tables])
  /\ files' = [k \in DOMAIN files |->
                 IF k = call[c].main THEN [files[k] EXCEPT !.held = "main"]
                 ELSE IF files[k].held = c THEN [files[k] EXCEPT !.held = "table"]
                 ELSE files[k]]
  /\ Return(c, "ok")
  /\ UNCHANGED <<disk, handles, configs, calls, faults>>

(***************************************************************************)
(* NewTable: Create asks whether the file is there, makes it and its memo  *)
(* file, and Init writes them from the front to the back.                  *)
(***************************************************************************)
NewTable(c, k, path, memo, tested) ==
  /\ Call(c, "create") /\ Free(k)
  /\ configs[k].source = "file" /\ configs[k].converter # None
  /\ Goto(c, [NoCall EXCEPT !.op = "create", !.step = "stat", !.cfg = k,
                !.path = path, !.memo = memo, !.tested = tested])
  /\ UNCHANGED <<disk, handles, configs, files, dbs, faults>>

Exists_Never(d) == FALSE
Exists(d) == d.dbf # "none"

Stat(c) ==
  /\ call[c].step = "stat"
  /\ IF Exists(disk[call[c].path])
     THEN Return(c, "error")
     ELSE Goto(c, [call[c] EXCEPT !.step = "make"])
  /\ UNCHANGED <<disk, handles, configs, files, dbs, calls, faults>>

(* os.Create empties a file that is there. *)
MakeDbf(c) ==
  /\ call[c].step = "make"
  /\ NewHandle(call[c].path, "dbf")
  /\ disk' = [disk EXCEPT ![call[c].path].dbf = "empty"]
  /\ Goto(c, [call[c] EXCEPT !.dbf = Len(handles'),
                !.step = IF call[c].memo THEN "makefpt" ELSE "writehead"])
  /\ UNCHANGED <<configs, files, dbs, calls, faults>>

MakeFpt(c) ==
  /\ call[c].step = "makefpt"
  /\ NewHandle(call[c].path, "fpt")
  /\ disk' = [disk EXCEPT ![call[c].path].fpt = "empty"]
  /\ Goto(c, [call[c] EXCEPT !.fpt = Len(handles'), !.step = "writehead"])
  /\ UNCHANGED <<configs, files, dbs, calls, faults>>

WriteHead(c) ==
  /\ call[c].step = "writehead"
  /\ disk' = [disk EXCEPT ![call[c].path] =
               [dbf |-> "head", fpt |-> @.fpt, memo |-> call[c].memo,
                page |-> configs[call[c].cfg].converter, tested |-> call[c].tested]]
  /\ Goto(c, [call[c] EXCEPT !.step = "writecols"])
  /\ UNCHANGED <<handles, configs, files, dbs, calls, faults>>

Created(c) ==
  /\ files' = Append(files, [cfg |-> call[c].cfg, dbf |-> call[c].dbf,
       fpt |-> call[c].fpt, path |-> call[c].path,
       page |-> disk[call[c].path].page, held |-> "program"])
  /\ Return(c, "ok")

(* WriteColumns: the columns, their end mark, and zeros to the first row.  *)
WriteColumns(c) ==
  /\ call[c].step = "writecols"
  /\ disk' = [disk EXCEPT ![call[c].path].dbf = "columns"]
  /\ Goto(c, [call[c] EXCEPT !.step = "writemark"])
  /\ UNCHANGED <<handles, configs, files, dbs, calls, faults>>

WriteMark(c) ==
  /\ call[c].step = "writemark"
  /\ disk' = [disk EXCEPT ![call[c].path].dbf = "marked"]
  /\ Goto(c, [call[c] EXCEPT !.step = "writefill"])
  /\ UNCHANGED <<handles, configs, files, dbs, calls, faults>>

WriteFill(c) ==
  /\ call[c].step = "writefill"
  /\ disk' = [disk EXCEPT ![call[c].path].dbf = "whole"]
  /\ IF call[c].memo
     THEN Goto(c, [call[c] EXCEPT !.step = "writememo"]) /\ UNCHANGED files
     ELSE Created(c)
  /\ UNCHANGED <<handles, configs, dbs, calls, faults>>

(* WriteMemoHeader: NextFree and the block size, and zeros up to 512.      *)
WriteMemoHead(c) ==
  /\ call[c].step = "writememo"
  /\ disk' = [disk EXCEPT ![call[c].path].fpt = "marked"]
  /\ Goto(c, [call[c] EXCEPT !.step = "writepad"])
  /\ UNCHANGED <<handles, configs, files, dbs, calls, faults>>

WriteMemoPad(c) ==
  /\ call[c].step = "writepad"
  /\ disk' = [disk EXCEPT ![call[c].path].fpt = "whole"]
  /\ Created(c)
  /\ UNCHANGED <<handles, configs, dbs, calls, faults>>

(***************************************************************************)
(* File.Close closes the table handle and then the memo handle.  The File  *)
(* keeps them: closing it again fails at the first.  A close that fails    *)
(* has still given the handle back.  Bytes have nothing to close.          *)
(***************************************************************************)
Close(c, k) ==
  /\ Call(c, "close") /\ files[k].held \in {"program", "table"}
  /\ Goto(c, [NoCall EXCEPT !.op = "close", !.step = "closedbf", !.file = k])
  /\ UNCHANGED <<disk, handles, configs, files, dbs, faults>>

(* What Close does when a File is closed. *)
FileClosed_First(c) == Return(c, "ok")
FileClosed(c) ==
  IF call[c].op = "closedb" /\ call[c].file # dbs[call[c].db].main
  THEN Goto(c, [call[c] EXCEPT !.step = "next"])
  ELSE Return(c, "ok")

AfterDbf_Done(k) == FALSE
AfterDbf(k) == files[k].fpt # 0

CloseDbf(c) ==
  LET k == call[c].file
      h == files[k].dbf IN
  /\ call[c].step = "closedbf"
  /\ IF h # 0 /\ ~handles[h].open
     THEN Return(c, "error") /\ UNCHANGED handles
     ELSE /\ handles' = [i \in DOMAIN handles |->
                          [handles[i] EXCEPT !.open = @ /\ i # h]]
          /\ IF AfterDbf(k) THEN Goto(c, [call[c] EXCEPT !.step = "closefpt"])
                            ELSE FileClosed(c)
  /\ UNCHANGED <<disk, configs, files, dbs, calls, faults>>

CloseFpt(c) ==
  LET h == files[call[c].file].fpt IN
  /\ call[c].step = "closefpt"
  /\ IF handles[h].open
     THEN handles' = [handles EXCEPT ![h].open = FALSE] /\ FileClosed(c)
     ELSE Return(c, "error") /\ UNCHANGED handles
  /\ UNCHANGED <<disk, configs, files, dbs, calls, faults>>

(* Database.Close: the tables, in any order, then the container. *)
CloseDatabase(c, d) ==
  /\ Call(c, "closedb")
  /\ Goto(c, [NoCall EXCEPT !.op = "closedb", !.step = "next", !.db = d,
                !.left = {n \in Names : dbs[d].tables[n] # 0}])
  /\ UNCHANGED <<disk, handles, configs, files, dbs, faults>>

CloseNext(c) ==
  LET d == call[c].db IN
  /\ call[c].step = "next"
  /\ \/ \E n \in call[c].left :
          Goto(c, [call[c] EXCEPT !.step = "closedbf", !.left = @ \ {n},
                     !.file = dbs[d].tables[n]])
     \/ /\ call[c].left = {}
        /\ Goto(c, [call[c] EXCEPT !.step = "closedbf", !.file = dbs[d].main])
  /\ UNCHANGED <<disk, handles, configs, files, dbs, calls, faults>>

(***************************************************************************)
(* Failures.  A step that touches the file system, or a provider, fails    *)
(* and its call returns the error; the process stops, and with it go its   *)
(* handles.  (Create takes a Stat that fails for a file that is not there; *)
(* os.Create decides then.  That failure is left out.)                     *)
(***************************************************************************)
MayFail(c) == IF call[c].step = "row" THEN configs[call[c].dbcfg].source = "data"
                                      ELSE call[c].step \notin {"idle", "next", "stat"}

IOFails(c) ==
  /\ faults < MaxFaults /\ faults' = faults + 1
  /\ MayFail(c)
  /\ handles' = [i \in DOMAIN handles |->
       [handles[i] EXCEPT !.open = @ /\
          ~ \/ call[c].step = "closedbf" /\ i = files[call[c].file].dbf
            \/ call[c].step = "closefpt" /\ i = files[call[c].file].fpt]]
  /\ Fail(c)
  /\ UNCHANGED <<disk, configs, dbs, calls>>

Crash ==
  /\ faults < MaxFaults /\ faults' = faults + 1
  /\ configs' \in {Configs(setup) : setup \in Setups}
  /\ handles' = <<>> /\ files' = <<>> /\ dbs' = <<>>
  /\ call' = [c \in Callers |-> NoCall]
  /\ outcome' = [c \in Callers |-> "none"]
  /\ UNCHANGED <<disk, calls>>

(* The calls a program makes. *)
Begin(c) ==
  \/ \E k \in DOMAIN configs, n \in Names : OpenTable(c, k, n)
  \/ \E k \in DOMAIN configs : OpenDatabase(c, k)
  \/ \E k \in DOMAIN configs, n \in Names \ {Container}, memo, tested \in BOOLEAN :
        NewTable(c, k, n, memo, tested)
  \/ \E k \in DOMAIN files : Close(c, k)
  \/ \E d \in DOMAIN dbs : CloseDatabase(c, d)

(* The steps of a call under way. *)
Step(c) ==
  \/ OpenHandle(c) \/ ReadHead(c) \/ OpenRelated(c) \/ ReadMemoHead(c)
  \/ SearchCatalog(c) \/ SkipRow(c) \/ OpenRow(c) \/ DatabaseOpened(c)
  \/ Stat(c) \/ MakeDbf(c) \/ MakeFpt(c) \/ WriteHead(c) \/ WriteColumns(c)
  \/ WriteMark(c) \/ WriteFill(c) \/ WriteMemoHead(c) \/ WriteMemoPad(c)
  \/ CloseDbf(c) \/ CloseFpt(c) \/ CloseNext(c)

Next ==
  \/ \E c \in Callers : Begin(c) \/ Step(c) \/ IOFails(c)
  \/ Crash

(* A goroutine in a call goes on. *)
Fairness == \A c \in Callers : WF_vars(Step(c))

Spec == Init /\ [][Next]_vars /\ Fairness

-----------------------------------------------------------------------------
(***************************************************************************)
(* Properties.                                                             *)
(***************************************************************************)

(* The converter a File should have: the one the caller set, or the one of *)
(* the table's own code page mark if none is set or marks are interpreted. *)
Wanted(file) == LET config == configs[file.cfg] IN
  IF config.interpret \/ config.given = None THEN file.page ELSE config.given

Fits(file) == configs[file.cfg].converter = Wanted(file)

(* The tables of a database that was opened by its file name. *)
OfFileDatabase(file) ==
  configs[file.cfg].source = "file" /\ ~configs[file.cfg].mine

(* A File decodes with the converter its caller meant for it, for as long  *)
(* as it is open, although File and caller share the Config and every      *)
(* OpenTable writes into it: a Config that has served once is refused      *)
(* (validateDataSources), and bytes are opened with a copy.                *)
ConverterFits == \A k \in DOMAIN files : OfFileDatabase(files[k]) \/ Fits(files[k])

(* The same of the tables of a database too: without a converter and       *)
(* without InterpretCodePage each is read in the code page of its own mark *)
(* (Config, dbase.go).                                                     *)
TablePagesFit == \A k \in DOMAIN files : Fits(files[k])

(* A Database has exactly the tables its catalogue names (and for which    *)
(* there are bytes), each in a File of its own over the file of that name, *)
(* through repeated names, blank ones and underscores.                     *)
CatalogNames(d) ==
  {n \in Names : /\ \E i \in DOMAIN Catalog : Catalog[i] = n
                 /\ \/ configs[files[dbs[d].main].cfg].source = "file"
                    \/ n \in Provided}

DatabaseHasCatalog ==
  \A d \in DOMAIN dbs :
    LET tables == dbs[d].tables
        source == configs[files[dbs[d].main].cfg].source
    IN /\ {n \in Names : tables[n] # 0} = CatalogNames(d)
       /\ \A n \in CatalogNames(d) :
            /\ files[tables[n]].held = "table"
            /\ files[tables[n]].path = IF source = "file" THEN PathOf[n] ELSE n
       /\ \A m, n \in CatalogNames(d) : tables[m] = tables[n] => m = n

(* A table and its memo, written to their ends. *)
Intact(d) == d.dbf = "whole" /\ (d.memo => d.fpt = "whole")

(* The table ended, and with the head of its memo file. *)
Usable(d) == d.dbf \in {"marked", "whole"} /\ (d.memo => d.fpt \in {"marked", "whole"})

(* NewTable is at the zeros behind the end mark, or the memo's header.     *)
AtFill(p) == \E c \in Callers : /\ call[c].path = p
                               /\ call[c].step \in {"writefill", "writepad"}

(* OpenTable and NewTable return a File only when the columns of the table *)
(* are written and ended, and the memo file has its block size and first   *)
(* free block.  That the headers are not filled up yet OpenTable does not  *)
(* see: it can return a File while NewTable is at that last write, or      *)
(* after it failed or died there, but at no other time.                    *)
FilesAreUsable ==
  \A k \in DOMAIN files : LET p == files[k].path IN
    Usable(disk[p]) /\ (Intact(disk[p]) \/ AtFill(p) \/ faults > 0)

(* NewTable never empties a table that is there, nor its memo file, be it  *)
(* whole or one that can just be opened.                                   *)
TablesSurviveCreate ==
  [][\A n \in Names : /\ Usable(disk[n]) => Usable(disk'[n])
                      /\ Intact(disk[n]) => Intact(disk'[n])]_vars

(* A File can still be closed with one more Close, failures aside. *)
Closes(k) == LET f == files[k] IN \A h \in {f.dbf, f.fpt} \ {0} : handles[h].open

(* Database.Close can still get to the container. *)
DatabaseCloses(d) ==
  \E left \in {{n \in Names : dbs[d].tables[n] # 0}} \cup
               {call[c].left : c \in {b \in Callers : call[b].op = "closedb"
                                                   /\ call[b].db = d}} :
    \A n \in left : Closes(dbs[d].tables[n])

(* Somebody can still close the handle, or is at it. *)
Owned(h) ==
  \/ \E c \in Callers : \/ h \in {call[c].dbf, call[c].fpt}
                        \/ call[c].step = "closefpt" /\ h = files[call[c].file].fpt
  \/ \E k \in DOMAIN files : LET f == files[k] IN
       /\ h = f.dbf \/ (h = f.fpt /\ handles[f.dbf].open)
       /\ \/ f.held \in {"program", "table"} \cup Callers
          \/ f.held = "main" /\ \E d \in DOMAIN dbs : dbs[d].main = k /\ DatabaseCloses(d)

Lost == {h \in DOMAIN handles : handles[h].open /\ ~Owned(h)}

(* OpenDatabase is at a name it has opened a table for already. *)
RepeatsName(c) == /\ call[c].row \in DOMAIN Catalog /\ Catalog[call[c].row] # Blank
                  /\ call[c].tables[Catalog[call[c].row]] # 0

(* Handles get lost, open with nobody to close them, in four ways only: an *)
(* open or a creation returns an error; a failure of the file system; a    *)
(* name that is in the catalogue twice; a table of a database that is      *)
(* closed by itself, which leaves the container behind for good.           *)
HandlesLostByErrorsOnly ==
  [][Lost' \subseteq Lost
     \/ faults' # faults
     \/ \E c \in Callers :
          \/ call[c].op \in {"open", "opendb", "create"} /\ outcome'[c] = "error"
             /\ call'[c] = NoCall
          \/ RepeatsName(c)
          \/ /\ call[c].step = "closedbf" /\ files[call[c].file].held = "table"
             /\ call'[c] # call[c]
             /\ \A h \in Lost' \ Lost : \E k \in DOMAIN files :
                  files[k].held = "main" /\ h \in {files[k].dbf, files[k].fpt}]_vars

(* When Close returns without an error, of a File or of a Database, every  *)
(* handle of it is closed, the memo file's too.                            *)
OfDatabase(d) == {dbs[d].main} \cup ({dbs[d].tables[n] : n \in Names} \ {0})

ClosedMeansClosed ==
  [][\A c \in Callers :
       call[c].op \in {"close", "closedb"} /\ call'[c] = NoCall /\ outcome'[c] = "ok"
         => \A k \in (IF call[c].op = "close" THEN {call[c].file} ELSE OfDatabase(call[c].db)) :
              \A h \in {files[k].dbf, files[k].fpt} \ {0} : ~handles'[h].open]_vars

(* Every call returns, OpenDatabase whatever its catalogue holds. *)
CallsReturn == \A c \in Callers : call[c].step # "idle" ~> call[c].step = "idle"

-----------------------------------------------------------------------------
(***************************************************************************)
(* Invariants of the theorems (TableFilesProofs).                          *)
(***************************************************************************)
Opening(r)  == r.step \in {"handle", "head", "related", "memohead"}
Creating(r) == r.step \in {"stat", "make", "makefpt", "writehead", "writecols",
                           "writemark", "writefill", "writememo", "writepad"}
Closing(r)  == r.step \in {"closedbf", "closefpt"}

(* What a call of a goroutine has at each of its steps. *)
StepOK(c, r) ==
  /\ r.step = "idle" => r = NoCall
  /\ Opening(r) => /\ r.op \in {"open", "opendb"} /\ r.path \in Names
                   /\ r.cfg \in DOMAIN configs
                   /\ r.op = "opendb" /\ r.main # 0 => r.row \in DOMAIN Catalog
                                                     /\ Catalog[r.row] # Blank
  /\ r.step \in {"related", "memohead"} => configs[r.cfg].converter \in Pages
  /\ r.op = "opendb" => r.dbcfg \in DOMAIN configs
  /\ r.step \in {"catalog", "row"} => r.op = "opendb" /\ r.main # 0
  /\ r.step = "row" => r.row # 0
  /\ Creating(r) => /\ r.op = "create" /\ "create" \in Calls[c]
                    /\ r.path \in Names /\ r.cfg \in DOMAIN configs
                    /\ configs[r.cfg].converter \in Pages
  /\ Closing(r) => r.op \in {"close", "closedb"} /\ r.file \in DOMAIN files
  /\ r.step = "closefpt" => files[r.file].fpt # 0
  /\ r.step = "next" => r.op = "closedb"
  /\ r.op = "closedb" => /\ r.db \in DOMAIN dbs
                         /\ r.left \subseteq {n \in Names : dbs[r.db].tables[n] # 0}

StepsOK == \A c \in Callers : StepOK(c, call[c])

OneCreator == \A b, c \in Callers : "create" \in Calls[b] /\ "create" \in Calls[c] => b = c

(* How far the file is that a call creates or opens. *)
WholeAt(r) ==
  LET d == disk[r.path] IN
  /\ r.step = "make" => d.dbf = "none"
  /\ r.step \in {"makefpt", "writehead"} => d.dbf = "empty"
  /\ r.step \in {"writecols", "writemark", "writefill"} => d.memo = r.memo
  /\ r.step = "writecols" => d.dbf = "head"
  /\ r.step = "writemark" => d.dbf = "columns"
  /\ r.step = "writefill" => d.dbf = "marked"
  /\ r.step \in {"writehead", "writecols", "writemark", "writefill"} /\ r.memo =>
       d.fpt = "empty"
  /\ r.step = "writememo" => d.dbf = "whole" /\ d.memo /\ d.fpt = "empty"
  /\ r.step = "writepad" => d.dbf = "whole" /\ d.memo /\ d.fpt = "marked"
  /\ r.step \in {"related", "memohead"} => Readable(d) /\ d.memo

WholeInv == \A c \in Callers : WholeAt(call[c])

(* Which tables can be opened before they are whole. *)
FillInv == \A n \in Names :
  Usable(disk[n]) => Intact(disk[n]) \/ AtFill(n) \/ faults > 0

(* The converters of the Configs: the caller's, or none in a Config that   *)
(* has not served yet.                                                     *)
ConfigOK(config) ==
  /\ ~config.interpret
  /\ config.given # None => config.converter = config.given
  /\ config.given = None /\ config.mine /\ (config.source = "data" \/ ~config.io) =>
       config.converter = None

(* A File with this Config takes the converter of its mark. *)
ByMark(config) == config.given = None /\ ~(config.source = "file" /\ ~config.mine)

FitsAt(r) ==
  LET config == configs[r.cfg]
      page   == disk[r.path].page
  IN
  /\ Opening(r) => config.io /\ (config.mine => config.source = "file")
  /\ r.step \in {"handle", "head"} /\ ByMark(config) => config.converter = None
  /\ r.step \in {"related", "memohead"} /\ ByMark(config) => config.converter = page
  /\ r.step \in {"writecols", "writemark", "writefill", "writememo", "writepad"} =>
       config.converter = page
  /\ r.op = "opendb" => configs[r.dbcfg].mine

(* Nobody opens with a Config that another goroutine is opening with. *)
ConfigsApart ==
  \A b, c \in Callers : b # c /\ Opening(call[b]) /\ Opening(call[c]) =>
                        call[b].cfg # call[c].cfg

FitsInv == /\ \A k \in DOMAIN configs : ConfigOK(configs[k])
           /\ \A c \in Callers : FitsAt(call[c])
           /\ ConfigsApart

(* What OpenDatabase has, in the call of c: the container, and a table of  *)
(* its own for every name in the rows before this one.                     *)
CatalogBefore(row, source) ==
  {n \in Names : /\ \E i \in DOMAIN Catalog : i < row /\ Catalog[i] = n
                 /\ source = "file" \/ n \in Provided}

CatalogAt(c, r) ==
  LET source == configs[r.dbcfg].source
      opened == {n \in Names : r.tables[n] # 0}
  IN r.op = "opendb" =>
       /\ r.step = "catalog" \/ r.main = 0 => r.row = 0
       /\ r.main = 0 => opened = {}
       /\ r.main = 0 /\ Opening(r) => configs[r.cfg].source = source
       /\ r.main # 0 => /\ files[r.main].held = c
                        /\ configs[files[r.main].cfg].source = source
                        /\ opened = CatalogBefore(r.row, source)
       /\ r.main # 0 /\ Opening(r) =>
            /\ source = "file" \/ Catalog[r.row] \in Provided
            /\ r.path = TablePath(source, Catalog[r.row])
       /\ \A n \in opened : /\ files[r.tables[n]].held = c /\ r.tables[n] # r.main
                            /\ files[r.tables[n]].path = TablePath(source, n)
       /\ \A m, n \in opened : r.tables[m] = r.tables[n] => m = n

CatalogInv == /\ \A c \in Callers : CatalogAt(c, call[c])
              /\ \A d \in DOMAIN dbs : files[dbs[d].main].held = "main"

(* What a Close has closed: at the memo file the table's handle; of a      *)
(* database every table but those left and the one it is at.               *)
Shut(k) == \A h \in {files[k].dbf, files[k].fpt} \ {0} : ~handles[h].open

ClosedAt(r) ==
  LET db == dbs[r.db] IN
  /\ r.step = "closefpt" /\ files[r.file].dbf # 0 => ~handles[files[r.file].dbf].open
  /\ r.op = "closedb" =>
       /\ Closing(r) /\ r.file = db.main => r.left = {}
       /\ \A n \in Names \ r.left :
            db.tables[n] = 0 \/ (Closing(r) /\ r.file = db.tables[n]) \/ Shut(db.tables[n])

ClosingInv == \A c \in Callers : ClosedAt(call[c])

(* Whose the handles are.  Each is of one call or of one File.  Those of a *)
(* call are open, and those of a File that OpenDatabase is still holding;  *)
(* a File's memo handle is open for as long as its table handle is, and    *)
(* then until the one Close that is at it.                                 *)
HandlesOf(r) == {r.dbf, r.fpt} \ {0}

AllOpen(r) == \A h \in HandlesOf(r) : handles[h].open

MemoAfterTable(r) == r.fpt # 0 => r.dbf # 0 /\ r.dbf # r.fpt

HandlesAtStep(r) ==
  /\ r.step \notin {"head", "related", "memohead", "makefpt", "writehead",
                    "writecols", "writemark", "writefill", "writememo", "writepad"} =>
       r.dbf = 0
  /\ r.step \notin {"memohead", "writehead", "writecols", "writemark", "writefill",
                    "writememo", "writepad"} => r.fpt = 0

(* The table's handle comes first, unless the table is bytes. *)
TableFirst(r) ==
  r.step = "makefpt" \/ (r.step \in {"head", "related"} /\ configs[r.cfg].source = "file")
    => r.dbf # 0

ClosesOwn(r) ==
  /\ Closing(r) => IF r.op = "close" THEN files[r.file].held \in {"program", "table"}
                                     ELSE r.file \in OfDatabase(r.db)
  /\ r.step = "closefpt" => handles[files[r.file].fpt].open

CallHandles(r) ==
  /\ HandlesAtStep(r) /\ TableFirst(r) /\ MemoAfterTable(r) /\ AllOpen(r) /\ ClosesOwn(r)
  /\ \A k \in DOMAIN files : HandlesOf(files[k]) \cap HandlesOf(r) = {}

FileHandles(f) ==
  /\ MemoAfterTable(f)
  /\ f.fpt # 0 /\ handles[f.dbf].open => handles[f.fpt].open
  /\ f.held \in Callers => AllOpen(f)

HandlesInv ==
  /\ \A c \in Callers : CallHandles(call[c])
  /\ \A k \in DOMAIN files : FileHandles(files[k])
  /\ \A j, k \in DOMAIN files : j # k => HandlesOf(files[j]) \cap HandlesOf(files[k]) = {}
  /\ \A b, c \in Callers : b # c =>
       /\ HandlesOf(call[b]) \cap HandlesOf(call[c]) = {}
       /\ call[b].step = "closefpt" /\ call[c].step = "closefpt" =>
            call[b].file # call[c].file

(* The program starts on files that no NewTable has left half way. *)
CleanDisks == \A start \in Disks : \A n \in Names : Usable(start[n]) => Intact(start[n])

NoMarksForced == \A setup \in Setups : \A k \in DOMAIN setup : ~setup[k].interpret

IInv == TypeOK /\ StepsOK /\ WholeInv /\ FillInv /\ FitsInv /\ CatalogInv /\ ClosingInv
        /\ HandlesInv
=============================================================================
