--------------------------- MODULE DatabaseProofs ---------------------------
(* What OpenDatabase promises of a Database, Close when it returns without *)
(* an error, and who can still close a handle that is open.                *)
EXTENDS TableFilesProofs

(***************************************************************************)
(* What every step leaves as it is.                                        *)
(***************************************************************************)
SourcesKept == /\ DOMAIN configs \subseteq DOMAIN configs'
               /\ \A k \in DOMAIN configs : configs'[k].source = configs[k].source

(* Files stay, and only those of c change hands. *)
FilesKept(c) ==
  /\ DOMAIN files \subseteq DOMAIN files'
  /\ \A k \in DOMAIN files :
       /\ files'[k].cfg = files[k].cfg /\ files'[k].path = files[k].path
       /\ files'[k].dbf = files[k].dbf /\ files'[k].fpt = files[k].fpt
       /\ files[k].held # c => files'[k].held = files[k].held

(* A closed handle stays closed. *)
HandlesKept == /\ DOMAIN handles \subseteq DOMAIN handles'
               /\ \A h \in DOMAIN handles : handles'[h].open => handles[h].open

(* A Database has the tables its catalogue names. *)
DatabaseAt(db) ==
  LET source == configs[files[db.main].cfg].source
      listed == CatalogBefore(Len(Catalog) + 1, source)
  IN /\ files[db.main].held = "main"
     /\ {n \in Names : db.tables[n] # 0} = listed
     /\ \A n \in listed : /\ files[db.tables[n]].held = "table"
                          /\ files[db.tables[n]].path = TablePath(source, n)
     /\ \A m, n \in listed : db.tables[m] = db.tables[n] => m = n

DInv == Inv /\ CatalogInv /\ DatabaseHasCatalog

LEMMA RowsOfCatalog ==
  /\ Len(Catalog) \in Nat /\ DOMAIN Catalog = 1..Len(Catalog)
  /\ \A i \in DOMAIN Catalog : Catalog[i] # Blank => Catalog[i] \in Names
  /\ \A source : CatalogBefore(Len(Catalog) + 1, source) =
       {n \in Names : /\ \E i \in DOMAIN Catalog : Catalog[i] = n
                      /\ source = "file" \/ n \in Provided}
<1>1. Catalog \in Seq((Names \ {Container}) \cup {Blank})
  BY FilesAssumption
<1>2. Len(Catalog) \in Nat /\ DOMAIN Catalog = 1..Len(Catalog)
  BY <1>1
<1>3. \A i \in DOMAIN Catalog : Catalog[i] \in (Names \ {Container}) \cup {Blank}
  BY <1>1, <1>2, MemberOfSeq
<1>4. \A i \in DOMAIN Catalog : i < Len(Catalog) + 1
  BY <1>2
<1> QED
  BY <1>2, <1>3, <1>4, Zenon DEF CatalogBefore

LEMMA DatabasesHave ==
  ASSUME \A d \in DOMAIN dbs : files[dbs[d].main].held = "main"
  PROVE  DatabaseHasCatalog <=> \A d \in DOMAIN dbs : DatabaseAt(dbs[d])
<1>1. ASSUME NEW d \in DOMAIN dbs
      PROVE  CatalogBefore(Len(Catalog) + 1, configs[files[dbs[d].main].cfg].source) =
               CatalogNames(d)
  BY RowsOfCatalog DEF CatalogNames
<1> QED
  BY <1>1 DEF DatabaseHasCatalog, DatabaseAt, TablePath

(* What is known of a call, and of a Database. *)
LEMMA KnownOfCalls ==
  ASSUME DInv, NEW b \in Callers
  PROVE  /\ call[b] \in CallSet /\ StepOK(b, call[b]) /\ CatalogAt(b, call[b])
         /\ call[b].main # 0 => call[b].main \in DOMAIN files
         /\ \A n \in Names : call[b].tables[n] # 0 => call[b].tables[n] \in DOMAIN files
         /\ call[b].op = "opendb" => call[b].dbcfg \in DOMAIN configs
         /\ Opening(call[b]) => call[b].cfg \in DOMAIN configs
<1>1. Inv /\ call[b] \in CallSet /\ StepOK(b, call[b]) /\ CatalogAt(b, call[b])
  BY Domains DEF DInv, CatalogInv
<1>2. DOMAIN files = 1..Len(files) /\ Len(files) \in Nat
  BY <1>1, Domains
<1>3. call[b].main \in 0..Len(files) /\ call[b].tables \in [Names -> 0..Len(files)]
  BY <1>1 DEF CallSet
<1> QED
  BY <1>1, <1>2, <1>3 DEF StepOK

LEMMA KnownOfFiles ==
  ASSUME Inv, NEW k \in DOMAIN files
  PROVE  /\ files[k] \in FileSet /\ files[k].cfg \in DOMAIN configs
         /\ files[k].dbf # 0 => files[k].dbf \in DOMAIN handles
         /\ files[k].fpt # 0 => files[k].fpt \in DOMAIN handles
<1>1. files \in Seq(FileSet) /\ DOMAIN files = 1..Len(files)
  BY Domains DEF DataOK
<1>2. files[k] \in FileSet
  BY <1>1, MemberOfSeq
<1> QED
  BY <1>2, Domains DEF FileSet

LEMMA KnownOfDatabases ==
  ASSUME Inv, NEW d \in DOMAIN dbs
  PROVE  /\ dbs[d].main \in DOMAIN files /\ dbs[d].tables \in [Names -> 0..Len(files)]
         /\ \A n \in Names : dbs[d].tables[n] # 0 => dbs[d].tables[n] \in DOMAIN files
<1>1. dbs \in Seq(DatabaseSet) /\ DOMAIN dbs = 1..Len(dbs)
      /\ DOMAIN files = 1..Len(files) /\ Len(files) \in Nat
  BY Domains DEF DataOK
<1>2. dbs[d] \in DatabaseSet
  BY <1>1, MemberOfSeq
<1> QED
  BY <1>1, <1>2 DEF DatabaseSet

LEMMA SourcesAreKept ==
  ASSUME Inv, NEW c \in Callers, Begin(c) \/ Step(c) \/ IOFails(c)
  PROVE  SourcesKept
<1>1. configs \in Seq(ConfigSet) /\ DOMAIN configs = 1..Len(configs) /\ Len(configs) \in Nat
  BY Domains DEF DataOK
<1>2. CASE configs' = configs
  BY <1>2 DEF SourcesKept
<1>3. ASSUME NEW new, configs' = Append(configs, new) PROVE SourcesKept
  <2>1. DOMAIN configs' = 1..(Len(configs) + 1)
        /\ \A k \in DOMAIN configs : configs'[k] = configs[k]
    BY <1>1, <1>3
  <2> QED
    BY <1>1, <2>1 DEF SourcesKept
<1>4. ASSUME NEW k \in DOMAIN configs, NEW new, configs' = [configs EXCEPT ![k] = new],
             new.source = configs[k].source
      PROVE  SourcesKept
  <2>1. DOMAIN configs' = DOMAIN configs /\ configs'[k] = new
        /\ \A j \in DOMAIN configs : j # k => configs'[j] = configs[j]
    BY <1>4
  <2> QED
    BY <1>4, <2>1 DEF SourcesKept
<1>5. \A k \in DOMAIN configs : configs[k] \in ConfigSet
  BY <1>1, MemberOfSeq
<1>6. ASSUME NEW k \in DOMAIN configs, Enter(k) PROVE SourcesKept
  <2>1. CASE configs[k].source = "file"
    <3>1. PICK new : new = [configs[k] EXCEPT !.io = TRUE]
      OBVIOUS
    <3>2. new.source = configs[k].source /\ configs' = [configs EXCEPT ![k] = new]
      BY <1>5, <1>6, <2>1, <3>1 DEF Enter, ConfigSet
    <3> QED
      BY <1>4, <3>2
  <2>2. CASE configs[k].source # "file"
    BY <1>3, <1>6, <2>2 DEF Enter
  <2> QED
    BY <2>1, <2>2
<1>7. CASE Begin(c)
  <2>1. configs' = configs \/ \E k \in DOMAIN configs : Enter(k)
    BY <1>7 DEF Begin, OpenTable, OpenDatabase, NewTable, Close, CloseDatabase
  <2> QED
    BY <1>2, <1>6, <2>1
<1>8. CASE ReadHead(c)
  <2> DEFINE k == call[c].cfg
             new == Converted(configs[k], disk[call[c].path].page)
  <2>1. k \in DOMAIN configs
    BY <1>8, Domains DEF ReadHead, StepOK, Opening
  <2>2. new.source = configs[k].source
    BY <1>5, <2>1 DEF Converted, ConfigSet
  <2>3. configs' = configs \/ configs' = [configs EXCEPT ![k] = new]
    BY <1>8 DEF ReadHead
  <2> HIDE DEF new, k
  <2> QED
    BY <1>2, <1>4, <2>1, <2>2, <2>3
<1>9. CASE OpenRow(c)
  BY <1>3, <1>9 DEF OpenRow
<1>10. CASE IOFails(c)
  BY <1>2, <1>10 DEF IOFails
<1>11. CASE Step(c) /\ ~ReadHead(c) /\ ~OpenRow(c)
  BY <1>2, <1>11 DEF Step, OpenHandle, OpenRelated, ReadMemoHead, SearchCatalog, SkipRow,
     DatabaseOpened, Stat, MakeDbf, MakeFpt, WriteHead, WriteColumns, WriteMark,
     WriteFill, WriteMemoHead, WriteMemoPad,
     CloseDbf, CloseFpt, CloseNext
<1> QED
  BY <1>7, <1>8, <1>9, <1>10, <1>11

LEMMA HandlesAreKept ==
  ASSUME Inv, NEW c \in Callers, Begin(c) \/ Step(c) \/ IOFails(c)
  PROVE  HandlesKept
<1>1. handles \in Seq(HandleSet) /\ DOMAIN handles = 1..Len(handles) /\ Len(handles) \in Nat
  BY Domains DEF DataOK
<1>2. \A h \in DOMAIN handles : handles[h] \in HandleSet
  BY <1>1, MemberOfSeq
<1>3. CASE handles' = handles
  BY <1>3 DEF HandlesKept
<1>4. ASSUME NEW new, handles' = Append(handles, new) PROVE HandlesKept
  <2>1. DOMAIN handles' = 1..(Len(handles) + 1)
        /\ \A h \in DOMAIN handles : handles'[h] = handles[h]
    BY <1>1, <1>4
  <2> QED
    BY <1>1, <2>1 DEF HandlesKept
<1>5. CASE CloseDbf(c)
  <2>1. \/ handles' = handles
        \/ handles' = [i \in DOMAIN handles |->
                        [handles[i] EXCEPT !.open = @ /\ i # files[call[c].file].dbf]]
    BY <1>5 DEF CloseDbf
  <2>2. ASSUME NEW h \in DOMAIN handles, NEW o,
               [handles[h] EXCEPT !.open = @ /\ o].open
        PROVE  handles[h].open
    BY <1>2, <2>2 DEF HandleSet
  <2> QED
    BY <1>3, <2>1, <2>2, Zenon DEF HandlesKept
<1>6. CASE CloseFpt(c)
  <2> DEFINE h == files[call[c].file].fpt
  <2>1. handles' = handles \/ handles' = [handles EXCEPT ![h].open = FALSE]
    BY <1>6 DEF CloseFpt
  <2> HIDE DEF h
  <2>2. ASSUME handles' = [handles EXCEPT ![h].open = FALSE] PROVE HandlesKept
    <3>1. /\ DOMAIN handles' = DOMAIN handles
          /\ \A i \in DOMAIN handles : handles'[i] = IF i = h
               THEN [handles[i] EXCEPT !.open = FALSE] ELSE handles[i]
      BY <2>2
    <3>2. \A i \in DOMAIN handles : [handles[i] EXCEPT !.open = FALSE].open = FALSE
      BY <1>2 DEF HandleSet
    <3> QED
      BY <3>1, <3>2 DEF HandlesKept
  <2> QED
    BY <1>3, <2>1, <2>2
<1>7. CASE IOFails(c)
  <2> DEFINE gone(i) == \/ call[c].step = "closedbf" /\ i = files[call[c].file].dbf
                        \/ call[c].step = "closefpt" /\ i = files[call[c].file].fpt
  <2>1. handles' = [i \in DOMAIN handles |-> [handles[i] EXCEPT !.open = @ /\ ~gone(i)]]
    BY <1>7 DEF IOFails
  <2>2. ASSUME NEW h \in DOMAIN handles, NEW o,
               [handles[h] EXCEPT !.open = @ /\ o].open
        PROVE  handles[h].open
    BY <1>2, <2>2 DEF HandleSet
  <2> HIDE DEF gone
  <2> QED
    BY <2>1, <2>2, Zenon DEF HandlesKept
<1>8. CASE OpenHandle(c) \/ OpenRelated(c) \/ MakeDbf(c) \/ MakeFpt(c)
  <2>1. handles' = handles \/ \E new : handles' = Append(handles, new)
    BY <1>8, Zenon DEF OpenHandle, OpenRelated, MakeDbf, MakeFpt, NewHandle
  <2> QED
    BY <1>3, <1>4, <2>1
<1>9. CASE Begin(c)
  BY <1>3, <1>9 DEF Begin, OpenTable, OpenDatabase, NewTable, Close, CloseDatabase
<1>10. CASE ReadHead(c) \/ ReadMemoHead(c) \/ SearchCatalog(c) \/ SkipRow(c) \/ OpenRow(c)
            \/ DatabaseOpened(c) \/ Stat(c) \/ WriteHead(c)
            \/ WriteColumns(c) \/ WriteMark(c) \/ WriteFill(c)
            \/ WriteMemoHead(c) \/ WriteMemoPad(c) \/ CloseNext(c)
  BY <1>3, <1>10 DEF ReadHead, ReadMemoHead, SearchCatalog, SkipRow, OpenRow, DatabaseOpened,
     Stat, WriteHead, WriteColumns, WriteMark, WriteFill, WriteMemoHead, WriteMemoPad, CloseNext
<1> QED
  BY <1>5, <1>6, <1>7, <1>8, <1>9, <1>10 DEF Step

(***************************************************************************)
(* What a step does to the files.                                          *)
(***************************************************************************)
LEMMA ReheldKept ==
  ASSUME Inv, NEW c, NEW fs, Rehold(fs), \A k \in DOMAIN files : k \in DOMAIN files' /\ files'[k] = fs[k],
         \A k \in DOMAIN files : files[k].held # c => fs[k].held = files[k].held
  PROVE  FilesKept(c)
<1>1. \A k \in DOMAIN files : /\ fs[k].cfg = files[k].cfg /\ fs[k].fpt = files[k].fpt
                              /\ fs[k].dbf = files[k].dbf /\ fs[k].path = files[k].path
  BY ReheldFiles
<1> QED
  BY <1>1 DEF FilesKept

LEMMA SameFilesKept ==
  ASSUME NEW c, files' = files
  PROVE  FilesKept(c)
BY DEF FilesKept

LEMMA AppendedToFiles ==
  ASSUME NEW fs, NEW file, fs \in Seq(FileSet), files' = Append(fs, file)
  PROVE  /\ DOMAIN files' = DOMAIN fs \cup {Len(fs) + 1} /\ files'[Len(fs) + 1] = file
         /\ Len(fs) + 1 \notin DOMAIN fs /\ Len(fs) + 1 # 0
         /\ \A k \in DOMAIN fs : files'[k] = fs[k]
<1>1. Len(fs) \in Nat /\ DOMAIN fs = 1..Len(fs)
  OBVIOUS
<1>2. DOMAIN files' = 1..(Len(fs) + 1) /\ \A k \in DOMAIN fs : files'[k] = fs[k]
  BY <1>1
<1>3. files'[Len(fs) + 1] = file
  BY <1>1
<1> QED
  BY <1>1, <1>2, <1>3

LEMMA FailedKept ==
  ASSUME Inv, NEW c \in Callers, Fail(c)
  PROVE  FilesKept(c)
<1>1. PICK fs : fs = Dropped(c)
  OBVIOUS
<1>2. files' = fs /\ Rehold(fs)
  BY <1>1, DroppedIsReheld DEF Fail
<1>3. DOMAIN files' = DOMAIN files
  BY <1>2 DEF Rehold
<1>4. \A k \in DOMAIN files : files[k].held # c => fs[k].held = files[k].held
  BY <1>1 DEF Dropped
<1> QED
  BY <1>2, <1>3, <1>4, ReheldKept

(* The table that this row's name had before, if any, is let go. *)
Replaced(c) ==
  [i \in DOMAIN files |-> IF i = call[c].tables[Catalog[call[c].row]]
                          THEN [files[i] EXCEPT !.held = "lost"] ELSE files[i]]

LEMMA ReplacedFiles ==
  ASSUME Inv, NEW c \in Callers
  PROVE  /\ Rehold(Replaced(c)) /\ Replaced(c) \in Seq(FileSet)
         /\ Len(Replaced(c)) = Len(files) /\ DOMAIN Replaced(c) = DOMAIN files
<1>1. PICK fs : fs = Replaced(c)
  OBVIOUS
<1>2. DOMAIN fs = DOMAIN files /\ fs = [j \in 1..Len(files) |-> fs[j]]
  BY <1>1, Domains DEF Replaced
<1>3. \A j \in DOMAIN files : \E h \in Holders : fs[j] = [files[j] EXCEPT !.held = h]
  BY <1>1, FilesAreReheld DEF Rehold, Holders, Replaced
<1>4. Rehold(fs)
  BY <1>2, <1>3 DEF Rehold
<1> QED
  BY <1>1, <1>2, <1>4, ReheldFiles

LEMMA CreatedKept ==
  ASSUME Inv, NEW c \in Callers, Created(c)
  PROVE  FilesKept(c)
<1>1. files \in Seq(FileSet) /\ Rehold(files)
  BY FilesAreReheld, Domains DEF DataOK
<1>2. PICK file : files' = Append(files, file)
  BY DEF Created
<1>3. \A k \in DOMAIN files : k \in DOMAIN files' /\ files'[k] = files[k]
  BY <1>1, <1>2, AppendedToFiles
<1> QED
  BY <1>3 DEF FilesKept

LEMMA OpenedKept ==
  ASSUME DInv, NEW c \in Callers, Opening(call[c]), Opened(c)
  PROVE  FilesKept(c)
<1> DEFINE n == Catalog[call[c].row]
<1>1. Inv /\ files \in Seq(FileSet)
  BY Domains DEF DInv, DataOK
<1>2. ASSUME NEW file, files' = Append(files, file) PROVE FilesKept(c)
  BY <1>1, <1>2, AppendedToFiles DEF FilesKept
<1>3. ASSUME NEW file, files' = Append(Replaced(c), file), call[c].op = "opendb",
             call[c].main # 0
      PROVE  FilesKept(c)
  <2>1. PICK fs : fs = Replaced(c)
    OBVIOUS
  <2>2. Rehold(fs) /\ fs \in Seq(FileSet) /\ DOMAIN fs = DOMAIN files
    BY <1>1, <2>1, ReplacedFiles
  <2>3. \A k \in DOMAIN files : k \in DOMAIN files' /\ files'[k] = fs[k]
    BY <1>3, <2>1, <2>2, AppendedToFiles
  <2>4. n \in Names
    BY <1>3, RowsOfCatalog, KnownOfCalls DEF StepOK
  <2>5. call[c].tables[n] # 0 => files[call[c].tables[n]].held = c
    BY <1>3, <2>4, KnownOfCalls DEF CatalogAt
  <2>6. 0 \notin DOMAIN files
    BY <1>1, Domains
  <2>7. \A k \in DOMAIN files : files[k].held # c => fs[k].held = files[k].held
    BY <2>1, <2>5, <2>6 DEF Replaced
  <2> QED
    BY <1>1, <2>2, <2>3, <2>7, ReheldKept
<1>4. \/ \E file : files' = Append(files, file)
      \/ /\ call[c].op = "opendb" /\ call[c].main # 0
         /\ \E file : files' = Append(Replaced(c), file)
  BY Zenon DEF Opened, Replaced
<1> QED
  BY <1>2, <1>3, <1>4

LEMMA DatabaseOpenedKept ==
  ASSUME DInv, NEW c \in Callers, DatabaseOpened(c)
  PROVE  FilesKept(c)
<1>1. PICK fs : fs = [k \in DOMAIN files |->
                 IF k = call[c].main THEN [files[k] EXCEPT !.held = "main"]
                 ELSE IF files[k].held = c THEN [files[k] EXCEPT !.held = "table"]
                 ELSE files[k]]
  OBVIOUS
<1>2. Inv /\ files' = fs /\ files[call[c].main].held = c
  BY <1>1, KnownOfCalls DEF DatabaseOpened, DInv, StepOK, CatalogAt
<1>3. DOMAIN fs = DOMAIN files
      /\ \A k \in DOMAIN files : \E h \in Holders : fs[k] = [files[k] EXCEPT !.held = h]
  BY <1>1, <1>2, FilesAreReheld DEF Rehold, Holders
<1>4. Rehold(fs)
  BY <1>3 DEF Rehold
<1>5. \A k \in DOMAIN files : files[k].held # c => fs[k].held = files[k].held
  BY <1>1, <1>2
<1> QED
  BY <1>2, <1>3, <1>4, <1>5, ReheldKept

LEMMA FilesAreKept ==
  ASSUME DInv, NEW c \in Callers, Begin(c) \/ Step(c) \/ IOFails(c)
  PROVE  FilesKept(c)
<1>1. Inv
  BY DEF DInv
<1>2. CASE files' = files
  BY <1>2, SameFilesKept
<1>3. CASE Begin(c)
  BY <1>2, <1>3 DEF Begin, OpenTable, OpenDatabase, NewTable, Close, CloseDatabase
<1>4. CASE IOFails(c)
  BY <1>1, <1>4, FailedKept DEF IOFails
<1>5. CASE OpenHandle(c) \/ OpenRelated(c)
  BY <1>1, <1>2, <1>5, FailedKept DEF OpenHandle, OpenRelated
<1>6. CASE ReadHead(c) \/ ReadMemoHead(c)
  <2>1. Opening(call[c]) /\ (files' = files \/ Fail(c) \/ Opened(c))
    BY <1>6 DEF ReadHead, ReadMemoHead, Opening
  <2> QED
    BY <1>1, <1>2, <2>1, FailedKept, OpenedKept
<1>7. CASE WriteColumns(c) \/ WriteMark(c) \/ WriteFill(c) \/ WriteMemoHead(c) \/ WriteMemoPad(c)
  <2>1. files' = files \/ Created(c)
    BY <1>7 DEF WriteColumns, WriteMark, WriteFill, WriteMemoHead, WriteMemoPad
  <2> QED
    BY <1>1, <1>2, <2>1, CreatedKept
<1>8. CASE SearchCatalog(c) \/ SkipRow(c) \/ OpenRow(c) \/ Stat(c) \/ MakeDbf(c)
           \/ MakeFpt(c) \/ WriteHead(c) \/ CloseNext(c) \/ CloseDbf(c) \/ CloseFpt(c)
  BY <1>2, <1>8 DEF SearchCatalog, SkipRow, OpenRow, Stat, MakeDbf, MakeFpt, WriteHead,
     CloseNext, CloseDbf, CloseFpt
<1> QED
  BY <1>3, <1>4, <1>5, <1>6, <1>7, <1>8, DatabaseOpenedKept DEF Step

(***************************************************************************)
(* What an OpenDatabase has after a step.                                  *)
(***************************************************************************)

(* Two records of a call that has the same tables. *)
SameTables(r, old) ==
  /\ r.op = old.op /\ r.dbcfg = old.dbcfg /\ r.main = old.main /\ r.row = old.row
  /\ r.tables = old.tables
  /\ r.step = "catalog" => old.step = "catalog"
  /\ Opening(r) => Opening(old) /\ r.cfg = old.cfg /\ r.path = old.path

LEMMA CatalogStays ==
  ASSUME DInv, NEW c, FilesKept(c), SourcesKept, NEW b \in Callers,
         \A k \in DOMAIN files : files[k].held = b => files'[k].held = b,
         SameTables(call'[b], call[b])
  PROVE  CatalogAt(b, call[b])'
<1> DEFINE old == call[b]
           r == call'[b]
           source == configs[old.dbcfg].source
           opened == {n \in Names : old.tables[n] # 0}
<1> SUFFICES ASSUME r.op = "opendb" PROVE CatalogAt(b, call[b])'
  BY DEF CatalogAt
<1>1. /\ StepOK(b, old) /\ CatalogAt(b, old) /\ old.op = "opendb" /\ Inv
      /\ old.main # 0 => old.main \in DOMAIN files
      /\ \A n \in Names : old.tables[n] # 0 => old.tables[n] \in DOMAIN files
      /\ old.dbcfg \in DOMAIN configs
      /\ Opening(old) => old.cfg \in DOMAIN configs
      /\ r.dbcfg = old.dbcfg /\ r.main = old.main /\ r.row = old.row /\ r.tables = old.tables
  BY KnownOfCalls DEF SameTables, DInv
<1>2. configs'[r.dbcfg].source = source
  BY <1>1 DEF SourcesKept
<1>3. r.step = "catalog" \/ r.main = 0 => r.row = 0
  BY <1>1 DEF SameTables, CatalogAt
<1>4. r.main = 0 => opened = {}
  BY <1>1 DEF CatalogAt
<1>5. r.main = 0 /\ Opening(r) => configs'[r.cfg].source = source
  BY <1>1 DEF SameTables, CatalogAt, SourcesKept
<1>6. r.main # 0 => /\ files'[r.main].held = b
                    /\ configs'[files'[r.main].cfg].source = source
                    /\ opened = CatalogBefore(r.row, source)
  BY <1>1, KnownOfFiles DEF CatalogAt, FilesKept, SourcesKept
<1>7. r.main # 0 /\ Opening(r) => /\ source = "file" \/ Catalog[r.row] \in Provided
                                  /\ r.path = TablePath(source, Catalog[r.row])
  BY <1>1 DEF SameTables, CatalogAt
<1>8. \A n \in opened : /\ files'[r.tables[n]].held = b /\ r.tables[n] # r.main
                        /\ files'[r.tables[n]].path = TablePath(source, n)
  BY <1>1 DEF CatalogAt, FilesKept
<1>9. \A m, n \in opened : r.tables[m] = r.tables[n] => m = n
  BY <1>1 DEF CatalogAt
<1>10. opened = {n \in Names : r.tables[n] # 0}
  BY <1>1
<1> HIDE DEF source, opened
<1> QED
  BY <1>2, <1>3, <1>4, <1>5, <1>6, <1>7, <1>8, <1>9, <1>10 DEF CatalogAt, CatalogBefore, Opening

LEMMA NotOpening ==
  ASSUME NEW b, call'[b].op # "opendb"
  PROVE  CatalogAt(b, call[b])'
BY DEF CatalogAt

LEMMA ReturnedCatalog ==
  ASSUME Inv, NEW c \in Callers, NEW how, Return(c, how)
  PROVE  CatalogAt(c, call[c])'
<1>1. call'[c] = NoCall /\ NoCall.op # "opendb"
  BY NowAt DEF NoCall
<1> QED
  BY <1>1, NotOpening

(* A call goes on with the same tables, and no File changes hands. *)
LEMMA GoesWithTables ==
  ASSUME DInv, NEW c \in Callers, files' = files, SourcesKept, NEW r, Goto(c, r),
         SameTables(r, call[c])
  PROVE  CatalogAt(c, call[c])'
<1>1. call'[c] = r
  BY NowAt DEF DInv
<1> QED
  BY <1>1, SameFilesKept, CatalogStays

LEMMA BeginsCatalog ==
  ASSUME DInv, NEW c \in Callers, Begin(c)
  PROVE  CatalogAt(c, call[c])'
<1>1. Inv /\ SourcesKept
  BY SourcesAreKept DEF DInv
<1>2. ASSUME NEW k \in DOMAIN configs, NEW n, OpenTable(c, k, n) PROVE CatalogAt(c, call[c])'
  <2>1. PICK r : r = [NoCall EXCEPT !.op = "open", !.step = FirstStep(k),
                        !.cfg = Entered(k), !.path = n]
    OBVIOUS
  <2>2. r.op # "opendb"
    BY <2>1 DEF NoCall
  <2>3. Goto(c, r) \/ \E how : Return(c, how)
    BY <1>2, <2>1 DEF OpenTable
  <2> QED
    BY <1>1, <2>2, <2>3, NowAt, NotOpening, ReturnedCatalog
<1>3. ASSUME NEW k \in DOMAIN configs, OpenDatabase(c, k) PROVE CatalogAt(c, call[c])'
  <2>1. PICK r : r = [NoCall EXCEPT !.op = "opendb", !.step = FirstStep(k),
                        !.cfg = Entered(k), !.dbcfg = k, !.path = Container]
    OBVIOUS
  <2>2. /\ r.main = 0 /\ r.row = 0 /\ r.tables = [n \in Names |-> 0] /\ r.dbcfg = k
        /\ r.cfg = Entered(k)
    BY <2>1 DEF NoCall
  <2>3. CASE Goto(c, r) /\ Enter(k)
    <3>1. call'[c] = r
      BY <1>1, <2>3, NowAt
    <3>2. configs'[k].source = configs[k].source
      BY <1>1 DEF SourcesKept
    <3>3. configs'[Entered(k)].source = configs[k].source
      <4>1. CASE configs[k].source = "file"
        BY <3>2, <4>1 DEF Entered
      <4>2. CASE configs[k].source # "file"
        <5>1. PICK new : new = [configs[k] EXCEPT !.io = TRUE, !.mine = FALSE]
          OBVIOUS
        <5>2. configs \in Seq(ConfigSet) /\ DOMAIN configs = 1..Len(configs)
          BY <1>1, Domains DEF DataOK
        <5>3. configs[k] \in ConfigSet
          BY <5>2, MemberOfSeq
        <5>4. new.source = configs[k].source
          BY <5>1, <5>3 DEF ConfigSet
        <5>5. configs' = Append(configs, new)
          BY <2>3, <4>2, <5>1 DEF Enter
        <5>6. configs'[Len(configs) + 1] = new
          BY <5>2, <5>5
        <5> QED
          BY <4>2, <5>4, <5>6 DEF Entered
      <4> QED
        BY <4>1, <4>2
    <3>4. {n \in Names : r.tables[n] # 0} = {}
      BY <2>2
    <3> QED
      BY <2>2, <3>1, <3>2, <3>3, <3>4, Zenon DEF CatalogAt
  <2>4. (Goto(c, r) /\ Enter(k)) \/ \E how : Return(c, how)
    BY <1>3, <2>1 DEF OpenDatabase
  <2> QED
    BY <1>1, <2>3, <2>4, ReturnedCatalog
<1>4. ASSUME NEW k, NEW n, NEW memo, NEW tested, NewTable(c, k, n, memo, tested)
      PROVE  CatalogAt(c, call[c])'
  <2>1. PICK r : r = [NoCall EXCEPT !.op = "create", !.step = "stat", !.cfg = k,
                        !.path = n, !.memo = memo, !.tested = tested]
    OBVIOUS
  <2>2. r.op # "opendb" /\ Goto(c, r)
    BY <1>4, <2>1 DEF NewTable, NoCall
  <2> QED
    BY <1>1, <2>2, NowAt, NotOpening
<1>5. ASSUME NEW k, Close(c, k) PROVE CatalogAt(c, call[c])'
  <2>1. PICK r : r = [NoCall EXCEPT !.op = "close", !.step = "closedbf", !.file = k]
    OBVIOUS
  <2>2. r.op # "opendb" /\ Goto(c, r)
    BY <1>5, <2>1 DEF Close, NoCall
  <2> QED
    BY <1>1, <2>2, NowAt, NotOpening
<1>6. ASSUME NEW d, CloseDatabase(c, d) PROVE CatalogAt(c, call[c])'
  <2>1. PICK r : r = [NoCall EXCEPT !.op = "closedb", !.step = "next", !.db = d,
                        !.left = {n \in Names : dbs[d].tables[n] # 0}]
    OBVIOUS
  <2>2. r.op # "opendb" /\ Goto(c, r)
    BY <1>6, <2>1 DEF CloseDatabase, NoCall
  <2> QED
    BY <1>1, <2>2, NowAt, NotOpening
<1> QED
  BY <1>2, <1>3, <1>4, <1>5, <1>6 DEF Begin

(* A call is what it is until it returns. *)
LEMMA OpStays ==
  ASSUME Inv, NEW c \in Callers, Step(c)
  PROVE  call'[c].op \in {"none", call[c].op}
<1> DEFINE old == call[c]
<1>1. old \in CallSet
  BY Domains
<1>2. ASSUME NEW how, Return(c, how) PROVE call'[c].op \in {"none", old.op}
  BY <1>2, NowAt DEF NoCall
<1>3. ASSUME NEW r, Goto(c, r), r.op = old.op PROVE call'[c].op \in {"none", old.op}
  BY <1>3, NowAt
<1>4. CASE Opened(c)
  <2>1. PICK next : next = [old EXCEPT !.dbf = 0, !.fpt = 0, !.cfg = 0, !.path = None]
    OBVIOUS
  <2>2. CASE old.op = "open"
    BY <1>2, <1>4, <2>2 DEF Opened
  <2>3. CASE old.op # "open"
    <3> DEFINE n == Catalog[old.row]
    <3>1. PICK r : /\ Goto(c, r)
                   /\ \/ \E k : r = [next EXCEPT !.main = k, !.step = "catalog"]
                      \/ \E k : r = [next EXCEPT !.tables[n] = k, !.step = "row", !.row = @ + 1]
      BY <1>4, <2>1, <2>3 DEF Opened
    <3>2. r.op = old.op
      BY <1>1, <2>1, <3>1, ZenonT(30) DEF CallSet
    <3> QED
      BY <1>3, <3>1, <3>2
  <2> QED
    BY <2>2, <2>3
<1>5. CASE OpenHandle(c) \/ OpenRelated(c)
  <2>1. Fail(c) \/ \E r : /\ Goto(c, r)
                         /\ \/ \E x, y : r = [old EXCEPT !.step = x, !.dbf = y]
                            \/ \E x, y : r = [old EXCEPT !.step = x, !.fpt = y]
                            \/ \E x : r = [old EXCEPT !.step = x]
    BY <1>5, ZenonT(30) DEF OpenHandle, OpenRelated
  <2> QED
    BY <1>1, <1>2, <1>3, <2>1 DEF CallSet, Fail
<1>6. CASE ReadHead(c) \/ ReadMemoHead(c) \/ Stat(c) \/ WriteHead(c)
           \/ WriteColumns(c) \/ WriteMark(c) \/ WriteFill(c)
           \/ WriteMemoHead(c) \/ WriteMemoPad(c) \/ DatabaseOpened(c)
  <2>1. Opened(c) \/ (\E how : Return(c, how))
        \/ \E x : Goto(c, [old EXCEPT !.step = x])
    BY <1>6, Zenon DEF ReadHead, ReadMemoHead, Stat, WriteHead, WriteColumns, WriteMark,
                       WriteFill, WriteMemoHead, WriteMemoPad,
       DatabaseOpened, Fail, Created
  <2>2. \A x : [old EXCEPT !.step = x].op = old.op
    BY <1>1 DEF CallSet
  <2> QED
    BY <1>2, <1>3, <1>4, <2>1, <2>2
<1>7. CASE SearchCatalog(c) \/ SkipRow(c) \/ OpenRow(c)
  <2>1. PICK step, path : /\ step = FirstStep(old.dbcfg)
                          /\ path = TablePath(configs[old.dbcfg].source, Catalog[old.row])
    OBVIOUS
  <2>2. PICK r : /\ Goto(c, r)
                 /\ \/ r = [old EXCEPT !.step = "row", !.row = 1]
                    \/ r = [old EXCEPT !.row = AfterSkipped(@)]
                    \/ r = [old EXCEPT !.step = step, !.cfg = Len(configs'), !.path = path]
    BY <1>7, <2>1 DEF SearchCatalog, SkipRow, OpenRow
  <2>3. r.op = old.op
    BY <1>1, <2>2 DEF CallSet
  <2> QED
    BY <1>3, <2>2, <2>3
<1>8. CASE MakeDbf(c) \/ MakeFpt(c)
  <2>1. PICK step : step = IF old.memo THEN "makefpt" ELSE "writehead"
    OBVIOUS
  <2>2. PICK r : /\ Goto(c, r)
                 /\ \/ r = [old EXCEPT !.dbf = Len(handles'), !.step = step]
                    \/ r = [old EXCEPT !.fpt = Len(handles'), !.step = "writehead"]
    BY <1>8, <2>1 DEF MakeDbf, MakeFpt
  <2>3. r.op = old.op
    BY <1>1, <2>2 DEF CallSet
  <2> QED
    BY <1>3, <2>2, <2>3
<1>9. CASE CloseDbf(c) \/ CloseFpt(c)
  <2>1. (\E how : Return(c, how)) \/ \E x : Goto(c, [old EXCEPT !.step = x])
    BY <1>9, Zenon DEF CloseDbf, CloseFpt, FileClosed
  <2>2. \A x : [old EXCEPT !.step = x].op = old.op
    BY <1>1 DEF CallSet
  <2> QED
    BY <1>2, <1>3, <2>1, <2>2
<1>10. CASE CloseNext(c)
  <2>1. PICK r : /\ Goto(c, r)
                 /\ \/ \E x, y : r = [old EXCEPT !.step = "closedbf", !.left = x, !.file = y]
                    \/ \E y : r = [old EXCEPT !.step = "closedbf", !.file = y]
    BY <1>10 DEF CloseNext
  <2>2. r.op = old.op
    BY <1>1, <2>1 DEF CallSet
  <2> QED
    BY <1>3, <2>1, <2>2
<1> QED
  BY <1>5, <1>6, <1>7, <1>8, <1>9, <1>10 DEF Step

(* The steps that create and close. *)
LEMMA OtherSteps ==
  ASSUME DInv, NEW c \in Callers,
         \/ Stat(c) \/ MakeDbf(c) \/ MakeFpt(c) \/ WriteHead(c)
         \/ WriteColumns(c) \/ WriteMark(c) \/ WriteFill(c)
         \/ WriteMemoHead(c) \/ WriteMemoPad(c) \/ CloseDbf(c) \/ CloseFpt(c) \/ CloseNext(c)
  PROVE  CatalogAt(c, call[c])'
<1>1. Inv /\ call[c].op # "opendb"
  BY KnownOfCalls DEF DInv, StepOK, Creating, Closing, Stat, MakeDbf, MakeFpt, WriteHead,
     WriteColumns, WriteMark, WriteFill, WriteMemoHead, WriteMemoPad, CloseDbf, CloseFpt, CloseNext
<1>2. Step(c)
  BY DEF Step
<1> QED
  BY <1>1, <1>2, OpStays, NotOpening

(* The steps that open a file, before it is complete. *)
LEMMA OpeningSteps ==
  ASSUME DInv, NEW c \in Callers, OpenHandle(c) \/ ReadHead(c) \/ OpenRelated(c),
         ~Opened(c)
  PROVE  CatalogAt(c, call[c])'
<1>1. Inv /\ SourcesKept /\ call[c] \in CallSet
  BY SourcesAreKept, KnownOfCalls DEF DInv, Step
<1>2. Opening(call[c])
  BY DEF Opening, OpenHandle, ReadHead, OpenRelated
<1>3. ASSUME NEW r, Goto(c, r), files' = files, SameTables(r, call[c])
      PROVE  CatalogAt(c, call[c])'
  BY <1>1, <1>3, GoesWithTables
<1>4. ASSUME Fail(c) PROVE CatalogAt(c, call[c])'
  BY <1>1, <1>4, ReturnedCatalog DEF Fail
<1>5. /\ \A x \in {"head", "related", "memohead"} :
           SameTables([call[c] EXCEPT !.step = x], call[c])
      /\ \A x \in {"head", "related", "memohead"} : \A y :
           SameTables([call[c] EXCEPT !.step = x, !.dbf = y], call[c])
      /\ \A x \in {"head", "related", "memohead"} : \A y :
           SameTables([call[c] EXCEPT !.step = x, !.fpt = y], call[c])
  BY <1>1, <1>2 DEF CallSet, SameTables
<1>6. Fail(c) \/ \E r : Goto(c, r) /\ files' = files /\ SameTables(r, call[c])
  <2>1. CASE OpenHandle(c)
    BY <1>5, <2>1, Zenon DEF OpenHandle
  <2>2. CASE ReadHead(c)
    BY <1>5, <2>2, Zenon DEF ReadHead
  <2>3. CASE OpenRelated(c)
    BY <1>5, <2>3, Zenon DEF OpenRelated
  <2> QED
    BY <2>1, <2>2, <2>3
<1> QED
  BY <1>3, <1>4, <1>6

LEMMA SearchingSteps ==
  ASSUME DInv, NEW c \in Callers, SearchCatalog(c)
  PROVE  CatalogAt(c, call[c])'
<1>1. Inv /\ SourcesKept /\ call[c] \in CallSet /\ CatalogAt(c, call[c])
      /\ call[c].op = "opendb" /\ call[c].main # 0 /\ call[c].row = 0
      /\ call[c].main \in DOMAIN files /\ call[c].dbcfg \in DOMAIN configs
  BY SourcesAreKept, KnownOfCalls DEF DInv, Step, SearchCatalog, StepOK, CatalogAt
<1>2. PICK r : r = [call[c] EXCEPT !.step = "row", !.row = 1]
  OBVIOUS
<1>3. call'[c] = r /\ files' = files /\ configs' = configs
  BY <1>1, <1>2, NowAt DEF SearchCatalog
<1>4. /\ r.step = "row" /\ r.row = 1 /\ r.op = "opendb" /\ r.dbcfg = call[c].dbcfg
      /\ r.main = call[c].main /\ r.tables = call[c].tables
  BY <1>1, <1>2 DEF CallSet
<1>5. \A source : CatalogBefore(1, source) = CatalogBefore(0, source)
  BY RowsOfCatalog DEF CatalogBefore
<1> QED
  BY <1>1, <1>3, <1>4, <1>5 DEF CatalogAt, Opening, CatalogBefore

(* The next row: its name, if it is a name, is among those before. *)
LEMMA NextRow ==
  ASSUME NEW row \in DOMAIN Catalog, NEW source
  PROVE  CatalogBefore(row + 1, source) =
           CatalogBefore(row, source) \cup
             {n \in Names : Catalog[row] = n /\ (source = "file" \/ n \in Provided)}
<1>1. \A i \in DOMAIN Catalog : i < row + 1 <=> i < row \/ i = row
  BY RowsOfCatalog
<1> QED
  BY <1>1, Zenon DEF CatalogBefore

LEMMA SkippingSteps ==
  ASSUME DInv, NEW c \in Callers, SkipRow(c)
  PROVE  CatalogAt(c, call[c])'
<1> DEFINE source == configs[call[c].dbcfg].source
           row == call[c].row
<1>1. Inv /\ SourcesKept /\ call[c] \in CallSet /\ CatalogAt(c, call[c])
      /\ call[c].op = "opendb" /\ call[c].main # 0 /\ row # 0 /\ row <= Len(Catalog)
      /\ call[c].main \in DOMAIN files /\ call[c].dbcfg \in DOMAIN configs /\ Skipped(c)
      /\ call[c].step = "row"
  BY SourcesAreKept, KnownOfCalls DEF DInv, Step, SkipRow, StepOK
<1>2. PICK r : r = [call[c] EXCEPT !.row = AfterSkipped(@)]
  OBVIOUS
<1>3. call'[c] = r /\ files' = files /\ configs' = configs
  BY <1>1, <1>2, NowAt DEF SkipRow
<1>4. /\ r.step = "row" /\ r.row = row + 1 /\ r.op = "opendb" /\ r.dbcfg = call[c].dbcfg
      /\ r.main = call[c].main /\ r.tables = call[c].tables
  BY <1>1, <1>2 DEF CallSet, AfterSkipped
<1>5. row \in DOMAIN Catalog
  <2>1. row \in 0..(Len(Catalog) + 1)
    BY <1>1 DEF CallSet
  <2> QED
    BY <1>1, <2>1, RowsOfCatalog
<1>6. {n \in Names : Catalog[row] = n /\ (source = "file" \/ n \in Provided)} = {}
  <2>1. Catalog[row] = Blank \/ (source = "data" /\ Catalog[row] \notin Provided)
    BY <1>1 DEF Skipped
  <2> QED
    BY <2>1, FilesAssumption, Zenon
<1>7. CatalogBefore(row + 1, source) = CatalogBefore(row, source)
  <2>1. PICK named : named = {n \in Names : Catalog[row] = n
                                            /\ (source = "file" \/ n \in Provided)}
    OBVIOUS
  <2>2. CatalogBefore(row + 1, source) = CatalogBefore(row, source) \cup named
    BY <1>5, <2>1, NextRow, Zenon
  <2>3. named = {}
    BY <1>6, <2>1
  <2> QED
    BY <2>2, <2>3
<1> QED
  BY <1>1, <1>3, <1>4, <1>7 DEF CatalogAt, Opening, CatalogBefore

LEMMA RowSteps ==
  ASSUME DInv, NEW c \in Callers, OpenRow(c)
  PROVE  CatalogAt(c, call[c])'
<1> DEFINE k == call[c].dbcfg
           source == configs[k].source
           old == call[c]
<1>1. Inv /\ SourcesKept /\ old \in CallSet /\ CatalogAt(c, old) /\ ~Skipped(c)
      /\ old.op = "opendb" /\ old.main # 0 /\ old.main \in DOMAIN files /\ k \in DOMAIN configs
      /\ \A n \in Names : old.tables[n] # 0 => old.tables[n] \in DOMAIN files
  BY SourcesAreKept, KnownOfCalls DEF DInv, Step, OpenRow, StepOK
<1>2. PICK path : path = TablePath(source, Catalog[old.row])
  OBVIOUS
<1>3. PICK r : r = [old EXCEPT !.step = FirstStep(k), !.cfg = Len(configs'), !.path = path]
  OBVIOUS
<1>4. call'[c] = r /\ files' = files
  <2>1. Goto(c, r) /\ files' = files
    BY <1>2, <1>3 DEF OpenRow
  <2> QED
    BY <1>1, <2>1, NowAt
<1>5. /\ r.step \in {"handle", "head"} /\ r.row = old.row /\ r.op = "opendb"
      /\ r.dbcfg = k /\ r.main = old.main /\ r.tables = old.tables /\ r.path = path
  BY <1>1, <1>3 DEF CallSet, FirstStep
<1>6. source = "file" \/ Catalog[old.row] \in Provided
  <2>1. configs \in Seq(ConfigSet) /\ DOMAIN configs = 1..Len(configs)
    BY <1>1, Domains DEF DataOK
  <2>2. configs[k] \in ConfigSet
    BY <1>1, <2>1, MemberOfSeq
  <2> QED
    BY <1>1, <2>2 DEF Skipped, ConfigSet
<1>7. configs'[k].source = source
      /\ configs'[files[old.main].cfg].source = configs[files[old.main].cfg].source
  BY <1>1, KnownOfFiles DEF SourcesKept
<1> QED
  BY <1>1, <1>2, <1>4, <1>5, <1>6, <1>7 DEF CatalogAt

(* The container is open.                                                  *)
LEMMA ContainerOpened ==
  ASSUME DInv, NEW c \in Callers, Opening(call[c]), SourcesKept, Opened(c),
         call[c].op = "opendb", call[c].main = 0
  PROVE  CatalogAt(c, call[c])'
<1> DEFINE old == call[c]
           k == Len(files) + 1
           source == configs[old.dbcfg].source
<1>1. Inv /\ old \in CallSet /\ CatalogAt(c, old) /\ old.dbcfg \in DOMAIN configs
      /\ old.cfg \in DOMAIN configs /\ files \in Seq(FileSet)
  BY KnownOfCalls, Domains DEF DInv, DataOK
<1>2. PICK file : /\ files' = Append(files, file) /\ file.cfg = old.cfg /\ file.held = c
  <2>1. PICK file : file = [cfg |-> old.cfg, dbf |-> old.dbf, fpt |-> old.fpt,
                            path |-> old.path, page |-> disk[old.path].page, held |-> c]
    OBVIOUS
  <2>2. files' = Append(files, file)
    BY <2>1 DEF Opened
  <2> QED
    BY <2>1, <2>2
<1>3. files'[k] = file /\ k # 0
  BY <1>1, <1>2, AppendedToFiles
<1>4. PICK new : new = [old EXCEPT !.dbf = 0, !.fpt = 0, !.cfg = 0, !.path = None]
  OBVIOUS
<1>5. PICK r : r = [new EXCEPT !.main = k, !.step = "catalog"]
  OBVIOUS
<1>6. call'[c] = r
  <2>1. Goto(c, r)
    BY <1>4, <1>5 DEF Opened
  <2> QED
    BY <1>1, <2>1, NowAt
<1>7. /\ r.step = "catalog" /\ r.op = "opendb" /\ r.dbcfg = old.dbcfg /\ r.main = k
      /\ r.row = old.row /\ r.tables = old.tables
  BY <1>1, <1>4, <1>5, ZenonT(30) DEF CallSet
<1>8. /\ r.row = 0 /\ {n \in Names : r.tables[n] # 0} = {}
      /\ configs[old.cfg].source = source
  BY <1>1, <1>7 DEF CatalogAt
<1>9. configs'[r.dbcfg].source = source /\ configs'[files'[r.main].cfg].source = source
  BY <1>1, <1>2, <1>3, <1>7, <1>8 DEF SourcesKept
<1>10. \A s : CatalogBefore(0, s) = {}
  BY RowsOfCatalog DEF CatalogBefore
<1>11. files'[r.main].held = c /\ r.main # 0 /\ ~Opening(r)
  BY <1>2, <1>3, <1>7 DEF Opening
<1> HIDE DEF k, source
<1> QED
  BY <1>6, <1>7, <1>8, <1>9, <1>10, <1>11 DEF CatalogAt, CatalogBefore, Opening

(* A table is open. *)
LEMMA TableOpened ==
  ASSUME DInv, NEW c \in Callers, Opening(call[c]), SourcesKept, Opened(c),
         call[c].op = "opendb", call[c].main # 0
  PROVE  CatalogAt(c, call[c])'
<1> DEFINE old == call[c]
           k == Len(files) + 1
           name == Catalog[old.row]
           source == configs[old.dbcfg].source
           opened == {n \in Names : old.tables[n] # 0}
<1>1. /\ Inv /\ old \in CallSet /\ CatalogAt(c, old) /\ old.dbcfg \in DOMAIN configs
      /\ old.main \in DOMAIN files /\ files \in Seq(FileSet)
      /\ \A n \in Names : old.tables[n] # 0 => old.tables[n] \in DOMAIN files
      /\ old.row \in DOMAIN Catalog /\ name \in Names /\ old.tables \in [Names -> 0..Len(files)]
  BY KnownOfCalls, RowsOfCatalog, Domains DEF DInv, DataOK, StepOK, CallSet
<1>2. PICK fs : fs = Replaced(c)
  OBVIOUS
<1>3. PICK file : files' = Append(fs, file) /\ file.held = c /\ file.path = old.path
  <2>1. PICK file : file = [cfg |-> old.cfg, dbf |-> old.dbf, fpt |-> old.fpt,
                            path |-> old.path, page |-> disk[old.path].page, held |-> c]
    OBVIOUS
  <2>2. files' = Append(fs, file)
    BY <1>2, <2>1 DEF Opened, Replaced
  <2> QED
    BY <2>1, <2>2
<1>4. Len(fs) = Len(files) /\ fs \in Seq(FileSet) /\ DOMAIN fs = DOMAIN files
  BY <1>1, <1>2, ReplacedFiles
<1>5. files'[k] = file /\ k # 0 /\ k \notin DOMAIN files
      /\ \A i \in DOMAIN files : files'[i] = fs[i]
  BY <1>3, <1>4, AppendedToFiles
<1>6. FilesKept(c)
  BY OpenedKept
<1>7. \A i \in DOMAIN files : i # old.tables[name] => files'[i] = files[i]
  BY <1>2, <1>5 DEF Replaced
<1>8. PICK new : new = [old EXCEPT !.dbf = 0, !.fpt = 0, !.cfg = 0, !.path = None]
  OBVIOUS
<1>9. PICK r : r = [new EXCEPT !.tables[name] = k, !.step = "row", !.row = @ + 1]
  OBVIOUS
<1>10. call'[c] = r
  <2>1. Goto(c, r)
    BY <1>8, <1>9 DEF Opened
  <2> QED
    BY <1>1, <2>1, NowAt
<1>12. /\ r.step = "row" /\ r.op = "opendb" /\ r.dbcfg = old.dbcfg /\ r.main = old.main
       /\ r.row = old.row + 1 /\ r.tables = [old.tables EXCEPT ![name] = k]
  BY <1>1, <1>8, <1>9, ZenonT(30) DEF CallSet
<1>13. r.tables[name] = k /\ \A n \in Names : n # name => r.tables[n] = old.tables[n]
  BY <1>1, <1>12
<1>14. {n \in Names : r.tables[n] # 0} = opened \cup {name}
  BY <1>1, <1>5, <1>13
<1>15. (source = "file" \/ name \in Provided) /\ old.path = TablePath(source, name)
       /\ opened = CatalogBefore(old.row, source)
  BY <1>1 DEF CatalogAt
<1>16. CatalogBefore(r.row, source) = opened \cup {name}
  BY <1>1, <1>12, <1>15, NextRow
<1>17. /\ files'[r.main].held = c /\ configs'[r.dbcfg].source = source
       /\ configs'[files'[r.main].cfg].source = source
  <2>1. files[old.main].held = c /\ configs[files[old.main].cfg].source = source
        /\ (old.tables[name] # 0 => old.tables[name] # old.main)
    BY <1>1 DEF CatalogAt
  <2>2. 0 \notin DOMAIN files
    BY <1>1, Domains
  <2>3. files'[old.main] = files[old.main]
    BY <1>1, <1>7, <2>1, <2>2
  <2> QED
    BY <1>1, <1>12, <2>1, <2>3, KnownOfFiles DEF SourcesKept
<1>18. ASSUME NEW n \in opened \cup {name}
       PROVE  /\ files'[r.tables[n]].held = c /\ r.tables[n] # r.main
              /\ files'[r.tables[n]].path = TablePath(source, n)
  <2>1. CASE n = name
    <3>1. r.tables[n] = k /\ k # old.main /\ r.main = old.main
      BY <1>1, <1>5, <1>12, <1>13, <2>1
    <3>2. files'[k].held = c /\ files'[k].path = TablePath(source, name)
      BY <1>3, <1>5, <1>15
    <3> QED
      BY <2>1, <3>1, <3>2
  <2>2. CASE n # name
    <3>1. /\ n \in opened /\ r.tables[n] = old.tables[n] /\ old.tables[n] \in DOMAIN files
      BY <1>1, <1>13, <2>2
    <3>2. /\ files[old.tables[n]].held = c /\ old.tables[n] # old.main
          /\ files[old.tables[n]].path = TablePath(source, n)
          /\ old.tables[n] # old.tables[name]
      BY <1>1, <2>2, <3>1 DEF CatalogAt
    <3> QED
      BY <1>7, <1>12, <3>1, <3>2
  <2> QED
    BY <2>1, <2>2
<1>19. ASSUME NEW m \in opened \cup {name}, NEW n \in opened \cup {name},
              r.tables[m] = r.tables[n]
       PROVE  m = n
  BY <1>1, <1>5, <1>13, <1>19 DEF CatalogAt
<1> HIDE DEF k, source, opened, name
<1>20. r.main # 0 /\ r.step # "catalog" /\ ~Opening(r)
  BY <1>1, <1>12 DEF Opening
<1> QED
  BY <1>10, <1>12, <1>14, <1>16, <1>17, <1>18, <1>19, <1>20 DEF CatalogAt

(***************************************************************************)
(* What becomes of the Databases.                                          *)
(***************************************************************************)

(* A Database that was there is as it was. *)
LEMMA DatabaseStays ==
  ASSUME DInv, NEW c \in Callers, FilesKept(c), SourcesKept, NEW d \in DOMAIN dbs,
         dbs'[d] = dbs[d]
  PROVE  DatabaseAt(dbs[d])'
<1> DEFINE db == dbs[d]
           source == configs[files[db.main].cfg].source
           listed == CatalogBefore(Len(Catalog) + 1, source)
<1>1. /\ Inv /\ DatabaseAt(db) /\ db.main \in DOMAIN files
      /\ \A n \in Names : db.tables[n] # 0 => db.tables[n] \in DOMAIN files
  BY KnownOfDatabases, DatabasesHave DEF DInv, CatalogInv
<1>2. c \notin {"table", "main"}
  BY FilesAssumption
<1>3. files'[db.main].held = "main" /\ configs'[files'[db.main].cfg].source = source
  BY <1>1, <1>2, KnownOfFiles DEF DatabaseAt, FilesKept, SourcesKept
<1>4. listed \subseteq Names /\ {n \in Names : db.tables[n] # 0} = listed
  BY <1>1 DEF DatabaseAt, CatalogBefore
<1>5. \A n \in listed : /\ files'[db.tables[n]].held = "table"
                        /\ files'[db.tables[n]].path = TablePath(source, n)
  BY <1>1, <1>2, <1>4 DEF DatabaseAt, FilesKept
<1>6. \A m, n \in listed : db.tables[m] = db.tables[n] => m = n
  BY <1>1 DEF DatabaseAt
<1> HIDE DEF source, listed
<1>7. dbs'[d].main = db.main /\ dbs'[d].tables = db.tables
  OBVIOUS
<1> USE DEF listed
<1> QED
  BY <1>3, <1>4, <1>5, <1>6, <1>7 DEF DatabaseAt, CatalogBefore

(* OpenDatabase returns a new one. *)
LEMMA DatabaseMade ==
  ASSUME DInv, NEW c \in Callers, DatabaseOpened(c)
  PROVE  /\ DOMAIN dbs' = DOMAIN dbs \cup {Len(dbs) + 1}
         /\ \A d \in DOMAIN dbs : dbs'[d] = dbs[d]
         /\ \A d : d = Len(dbs) + 1 => DatabaseAt(dbs[d])'
<1> DEFINE old == call[c]
           source == configs[old.dbcfg].source
           listed == CatalogBefore(Len(Catalog) + 1, source)
<1>1. /\ Inv /\ old \in CallSet /\ CatalogAt(c, old) /\ old.op = "opendb" /\ old.main # 0
      /\ old.main \in DOMAIN files /\ old.row = Len(Catalog) + 1
      /\ \A n \in Names : old.tables[n] # 0 => old.tables[n] \in DOMAIN files
      /\ configs' = configs
  BY KnownOfCalls DEF DInv, DatabaseOpened, StepOK
<1>2. PICK db : db = [main |-> old.main, tables |-> old.tables]
  OBVIOUS
<1>3. dbs' = Append(dbs, db) /\ db.main = old.main /\ db.tables = old.tables
  BY <1>2 DEF DatabaseOpened
<1>4. /\ DOMAIN dbs' = DOMAIN dbs \cup {Len(dbs) + 1} /\ dbs'[Len(dbs) + 1] = db
      /\ \A d \in DOMAIN dbs : dbs'[d] = dbs[d]
  <2>1. dbs \in Seq(DatabaseSet) /\ DOMAIN dbs = 1..Len(dbs) /\ Len(dbs) \in Nat
    BY <1>1, Domains DEF DataOK
  <2>2. DOMAIN dbs' = 1..(Len(dbs) + 1) /\ \A d \in DOMAIN dbs : dbs'[d] = dbs[d]
    BY <1>3, <2>1
  <2>3. dbs'[Len(dbs) + 1] = db
    BY <1>3, <2>1
  <2> QED
    BY <2>1, <2>2, <2>3
<1>5. FilesKept(c)
  BY DatabaseOpenedKept
<1>6. \A k \in DOMAIN files : files[k] \in FileSet
  BY <1>1, KnownOfFiles
<1>7. /\ files' = [k \in DOMAIN files |->
                     IF k = old.main THEN [files[k] EXCEPT !.held = "main"]
                     ELSE IF files[k].held = c THEN [files[k] EXCEPT !.held = "table"]
                     ELSE files[k]]
      /\ \A k \in DOMAIN files, h \in Holders : [files[k] EXCEPT !.held = h].held = h
  BY <1>6 DEF DatabaseOpened, FileSet
<1>8. files'[old.main].held = "main"
      /\ \A k \in DOMAIN files : files[k].held = c /\ k # old.main => files'[k].held = "table"
  BY <1>1, <1>7, Zenon DEF Holders
<1>9. /\ listed \subseteq Names /\ {n \in Names : old.tables[n] # 0} = listed
      /\ configs[files[old.main].cfg].source = source
      /\ \A n \in listed : /\ files[old.tables[n]].held = c /\ old.tables[n] # old.main
                           /\ files[old.tables[n]].path = TablePath(source, n)
      /\ \A m, n \in listed : old.tables[m] = old.tables[n] => m = n
  <2>1. listed \subseteq Names /\ {n \in Names : old.tables[n] # 0} = listed
    BY <1>1 DEF CatalogAt, CatalogBefore
  <2> HIDE DEF listed
  <2> QED
    BY <1>1, <2>1 DEF CatalogAt
<1>10. configs'[files'[old.main].cfg].source = source
  BY <1>1, <1>5, <1>9 DEF FilesKept
<1>11. \A n \in listed : /\ files'[old.tables[n]].held = "table"
                         /\ files'[old.tables[n]].path = TablePath(source, n)
  BY <1>1, <1>5, <1>8, <1>9 DEF FilesKept
<1> HIDE DEF source
<1>12. ASSUME NEW d, d = Len(dbs) + 1 PROVE DatabaseAt(dbs[d])'
  <2>1. dbs'[d].main = old.main /\ dbs'[d].tables = old.tables
    BY <1>3, <1>4, <1>12
  <2> QED
    BY <1>8, <1>9, <1>10, <1>11, <2>1 DEF DatabaseAt
<1> QED
  BY <1>4, <1>12

LEMMA DatabasesStep ==
  ASSUME DInv, NEW c \in Callers, Begin(c) \/ Step(c) \/ IOFails(c)
  PROVE  \A d \in DOMAIN dbs' : DatabaseAt(dbs[d])'
<1>1. FilesKept(c) /\ SourcesKept
  BY FilesAreKept, SourcesAreKept DEF DInv
<1>2. ASSUME NEW d \in DOMAIN dbs, dbs'[d] = dbs[d] PROVE DatabaseAt(dbs[d])'
  BY <1>1, <1>2, DatabaseStays
<1>3. CASE DatabaseOpened(c)
  BY <1>2, <1>3, DatabaseMade
<1>4. CASE ~DatabaseOpened(c)
  <2>1. dbs' = dbs
    BY <1>4 DEF Begin, OpenTable, OpenDatabase, NewTable, Close, CloseDatabase, IOFails, Step,
       OpenHandle, ReadHead, OpenRelated, ReadMemoHead, SearchCatalog, SkipRow, OpenRow, Stat,
       MakeDbf, MakeFpt, WriteHead, WriteColumns, WriteMark, WriteFill, WriteMemoHead,
       WriteMemoPad, CloseDbf, CloseFpt, CloseNext
  <2> QED
    BY <1>2, <2>1
<1> QED
  BY <1>3, <1>4

LEMMA CatalogStep ==
  ASSUME DInv, NEW c \in Callers, Begin(c) \/ Step(c) \/ IOFails(c)
  PROVE  \A b \in Callers : CatalogAt(b, call[b])'
<1>1. FilesKept(c) /\ SourcesKept /\ Local(c) /\ Inv
  BY FilesAreKept, SourcesAreKept, StepsAreLocal DEF DInv
<1>2. ASSUME NEW b \in Callers, b # c PROVE CatalogAt(b, call[b])'
  <2>1. SameTables(call'[b], call[b])
    BY <1>1, <1>2 DEF SameTables, Local
  <2>2. \A k \in DOMAIN files : files[k].held = b => files'[k].held = b
    BY <1>1, <1>2 DEF FilesKept
  <2> QED
    BY <1>1, <2>1, <2>2, CatalogStays
<1>3. CatalogAt(c, call[c])'
  <2>1. CASE Opening(call[c]) /\ Opened(c)
    <3>1. CASE call[c].op = "open"
      BY <1>1, <2>1, <3>1, ReturnedCatalog DEF Opened
    <3>2. CASE call[c].op # "open"
      <4>1. call[c].op = "opendb"
        BY <2>1, <3>2 DEF Opened
      <4> QED
        BY <1>1, <2>1, <4>1, ContainerOpened, TableOpened
    <3> QED
      BY <3>1, <3>2
  <2>2. CASE Begin(c)
    BY <2>2, BeginsCatalog
  <2>3. CASE IOFails(c)
    BY <1>1, <2>3, ReturnedCatalog DEF IOFails, Fail
  <2>4. CASE ReadMemoHead(c)
    <3>1. Opening(call[c]) /\ (Opened(c) \/ Fail(c))
      BY <2>4 DEF ReadMemoHead, Opening
    <3> QED
      BY <1>1, <2>1, <3>1, ReturnedCatalog DEF Fail
  <2>5. CASE OpenHandle(c) \/ ReadHead(c) \/ OpenRelated(c)
    <3>1. Opening(call[c])
      BY <2>5 DEF OpenHandle, ReadHead, OpenRelated, Opening
    <3> QED
      BY <2>1, <2>5, <3>1, OpeningSteps
  <2>6. CASE DatabaseOpened(c)
    BY <1>1, <2>6, ReturnedCatalog DEF DatabaseOpened
  <2> QED
    BY <2>2, <2>3, <2>4, <2>5, <2>6, SearchingSteps, SkippingSteps, RowSteps, OtherSteps
       DEF Step
<1> QED
  BY <1>2, <1>3

LEMMA DatabaseInit == Init => DInv
<1> SUFFICES ASSUME Init PROVE DInv
  OBVIOUS
<1>1. \A c \in Callers : call[c] = NoCall
  BY DEF Init
<1>2. NoCall.op # "opendb"
  BY DEF NoCall
<1>3. DOMAIN dbs = {}
  BY DEF Init
<1> QED
  BY <1>1, <1>2, <1>3, InvInit DEF DInv, CatalogInv, CatalogAt, DatabaseHasCatalog

LEMMA DatabaseNext ==
  ASSUME DInv, [Next]_vars
  PROVE  DInv'
<1>1. Inv'
  BY InvNext DEF DInv
<1>2. ASSUME NEW c \in Callers, Begin(c) \/ Step(c) \/ IOFails(c)
      PROVE  CatalogInv' /\ DatabaseHasCatalog'
  <2>1. \A d \in DOMAIN dbs' : DatabaseAt(dbs[d])'
    BY <1>2, DatabasesStep
  <2>2. (\A d \in DOMAIN dbs : files[dbs[d].main].held = "main")'
    BY <2>1 DEF DatabaseAt
  <2>3. ((\A d \in DOMAIN dbs : files[dbs[d].main].held = "main")
           => (DatabaseHasCatalog <=> \A d \in DOMAIN dbs : DatabaseAt(dbs[d])))'
    BY DatabasesHave, PTL
  <2>4. \A b \in Callers : CatalogAt(b, call[b])'
    BY <1>2, CatalogStep
  <2> QED
    BY <2>1, <2>2, <2>3, <2>4 DEF CatalogInv
<1>3. CASE Crash
  <2>1. DOMAIN dbs' = {} /\ \A c \in Callers : call'[c] = NoCall
    BY <1>3 DEF Crash
  <2>2. NoCall.op # "opendb"
    BY DEF NoCall
  <2> QED
    BY <1>1, <2>1, <2>2 DEF DInv, CatalogInv, CatalogAt, DatabaseHasCatalog
<1>4. CASE UNCHANGED vars
  BY <1>1, <1>4 DEF vars, DInv, CatalogInv, CatalogAt, CatalogBefore, Opening,
     DatabaseHasCatalog, CatalogNames
<1> QED
  BY <1>1, <1>2, <1>3, <1>4 DEF Next, DInv

(* A Database that OpenDatabase has returned has exactly the tables that   *)
(* its catalogue names (and for which there are bytes), each in a File of  *)
(* its own over the file of that name, for as long as the program runs and *)
(* whatever other goroutines open, create and close.                       *)
THEOREM DatabasesAreComplete == Spec => []DatabaseHasCatalog
<1>1. DInv /\ [Next]_vars => DInv'
  BY DatabaseNext
<1>2. DInv => DatabaseHasCatalog
  BY DEF DInv
<1> QED
  BY <1>1, <1>2, DatabaseInit, PTL DEF Spec

(***************************************************************************)
(* Closing.                                                                *)
(***************************************************************************)
ClInv == DInv /\ ClosingInv

(* A File that is shut stays shut. *)
LEMMA ShutStays ==
  ASSUME Inv, NEW c, FilesKept(c), HandlesKept, NEW k \in DOMAIN files, Shut(k)
  PROVE  Shut(k)'
<1>1. /\ files'[k].dbf = files[k].dbf /\ files'[k].fpt = files[k].fpt
      /\ \A h \in DOMAIN handles : handles'[h].open => handles[h].open
  BY DEF FilesKept, HandlesKept
<1> QED
  BY <1>1, KnownOfFiles DEF Shut

(* What a call that goes on with a Close has closed. *)
LEMMA ClosedStays ==
  ASSUME ClInv, NEW c, FilesKept(c), HandlesKept, Grown, NEW b \in Callers,
         call'[b] = call[b]
  PROVE  ClosedAt(call[b])'
<1> DEFINE r == call[b]
<1>1. Inv /\ ClosedAt(r) /\ StepOK(b, r)
  BY KnownOfCalls DEF ClInv, DInv, ClosingInv
<1>2. r.step = "closefpt" /\ files'[r.file].dbf # 0 => ~handles'[files'[r.file].dbf].open
  BY <1>1, KnownOfFiles DEF ClosedAt, StepOK, Closing, FilesKept, HandlesKept
<1>3. ASSUME r.op = "closedb"
      PROVE  /\ r.db \in DOMAIN dbs /\ dbs'[r.db] = dbs[r.db]
             /\ Closing(r) /\ r.file = dbs[r.db].main => r.left = {}
             /\ \A n \in Names \ r.left :
                  \/ dbs[r.db].tables[n] = 0 \/ (Closing(r) /\ r.file = dbs[r.db].tables[n])
                  \/ Shut(dbs[r.db].tables[n])'
  <2>1. r.db \in DOMAIN dbs /\ dbs'[r.db] = dbs[r.db]
    BY <1>1, <1>3 DEF StepOK, Grown
  <2>2. \A n \in Names : dbs[r.db].tables[n] # 0 => dbs[r.db].tables[n] \in DOMAIN files
    BY <1>1, <2>1, KnownOfDatabases
  <2>3. \A k \in DOMAIN files : Shut(k) => Shut(k)'
    BY <1>1, ShutStays
  <2> QED
    BY <1>1, <1>3, <2>1, <2>2, <2>3 DEF ClosedAt
<1> QED
  BY <1>2, <1>3 DEF ClosedAt, Closing, Shut

LEMMA NotClosing ==
  ASSUME NEW b, call'[b].op # "closedb", call'[b].step # "closefpt"
  PROVE  ClosedAt(call[b])'
BY DEF ClosedAt

LEMMA ReturnedClosed ==
  ASSUME Inv, NEW c \in Callers, NEW how, Return(c, how)
  PROVE  ClosedAt(call[c])'
<1>1. call'[c] = NoCall /\ NoCall.op # "closedb" /\ NoCall.step # "closefpt"
  BY NowAt DEF NoCall
<1> QED
  BY <1>1, NotClosing

LEMMA BeginsClosing ==
  ASSUME ClInv, NEW c \in Callers, Begin(c)
  PROVE  ClosedAt(call[c])'
<1>1. Inv
  BY DEF ClInv, DInv
<1>2. ASSUME NEW r, Goto(c, r), r.op # "closedb", r.step # "closefpt" PROVE ClosedAt(call[c])'
  BY <1>1, <1>2, NowAt, NotClosing
<1>3. ASSUME NEW k, NEW n, OpenTable(c, k, n) PROVE ClosedAt(call[c])'
  <2>1. PICK r : r = [NoCall EXCEPT !.op = "open", !.step = FirstStep(k),
                        !.cfg = Entered(k), !.path = n]
    OBVIOUS
  <2>2. r.op # "closedb" /\ r.step # "closefpt"
    BY <2>1 DEF NoCall, FirstStep
  <2>3. Goto(c, r) \/ \E how : Return(c, how)
    BY <1>3, <2>1 DEF OpenTable
  <2> QED
    BY <1>1, <1>2, <2>2, <2>3, ReturnedClosed
<1>4. ASSUME NEW k, OpenDatabase(c, k) PROVE ClosedAt(call[c])'
  <2>1. PICK r : r = [NoCall EXCEPT !.op = "opendb", !.step = FirstStep(k),
                        !.cfg = Entered(k), !.dbcfg = k, !.path = Container]
    OBVIOUS
  <2>2. r.op # "closedb" /\ r.step # "closefpt"
    BY <2>1 DEF NoCall, FirstStep
  <2>3. Goto(c, r) \/ \E how : Return(c, how)
    BY <1>4, <2>1 DEF OpenDatabase
  <2> QED
    BY <1>1, <1>2, <2>2, <2>3, ReturnedClosed
<1>5. ASSUME NEW k, NEW n, NEW memo, NEW tested, NewTable(c, k, n, memo, tested)
      PROVE  ClosedAt(call[c])'
  <2>1. PICK r : r = [NoCall EXCEPT !.op = "create", !.step = "stat", !.cfg = k,
                        !.path = n, !.memo = memo, !.tested = tested]
    OBVIOUS
  <2>2. r.op # "closedb" /\ r.step # "closefpt" /\ Goto(c, r)
    BY <1>5, <2>1 DEF NewTable, NoCall
  <2> QED
    BY <1>2, <2>2
<1>6. ASSUME NEW k, Close(c, k) PROVE ClosedAt(call[c])'
  <2>1. PICK r : r = [NoCall EXCEPT !.op = "close", !.step = "closedbf", !.file = k]
    OBVIOUS
  <2>2. r.op # "closedb" /\ r.step # "closefpt" /\ Goto(c, r)
    BY <1>6, <2>1 DEF Close, NoCall
  <2> QED
    BY <1>2, <2>2
<1>7. ASSUME NEW d, CloseDatabase(c, d) PROVE ClosedAt(call[c])'
  <2>1. PICK left : left = {n \in Names : dbs[d].tables[n] # 0}
    OBVIOUS
  <2>2. PICK r : r = [NoCall EXCEPT !.op = "closedb", !.step = "next", !.db = d, !.left = left]
    OBVIOUS
  <2>3. r.step = "next" /\ r.left = left /\ r.db = d
    BY <2>2 DEF NoCall
  <2>4. call'[c] = r /\ dbs' = dbs
    <3>1. Goto(c, r) /\ dbs' = dbs
      BY <1>7, <2>1, <2>2 DEF CloseDatabase
    <3> QED
      BY <1>1, <3>1, NowAt
  <2> QED
    BY <2>1, <2>3, <2>4 DEF ClosedAt, Closing
<1> QED
  BY <1>3, <1>4, <1>5, <1>6, <1>7 DEF Begin

(* The handle that a Close has just closed was the last one of its File. *)
FileShuts(c) ==
  \/ CloseDbf(c) /\ ~AfterDbf(call[c].file)
  \/ CloseFpt(c)

LEMMA ShutNow ==
  ASSUME ClInv, NEW c \in Callers, FileShuts(c), NEW k, k = call[c].file
  PROVE  Return(c, "error") \/ (FileClosed(c) /\ Shut(k)')
<1> DEFINE f == files[k]
<1>1. /\ Inv /\ ClosedAt(call[c]) /\ k \in DOMAIN files /\ files' = files
      /\ handles \in Seq(HandleSet) /\ DOMAIN handles = 1..Len(handles)
  BY KnownOfCalls, Domains DEF ClInv, DInv, ClosingInv, FileShuts, CloseDbf, CloseFpt, StepOK,
     Closing, DataOK
<1>2. \A h \in DOMAIN handles : handles[h] \in HandleSet
  BY <1>1, MemberOfSeq
<1>3. /\ f.dbf # 0 => f.dbf \in DOMAIN handles
      /\ f.fpt # 0 => f.fpt \in DOMAIN handles
  BY <1>1, KnownOfFiles
<1>4. ASSUME CloseDbf(c), f.fpt = 0, ~Return(c, "error") PROVE FileClosed(c) /\ Shut(k)'
  <2>1. FileClosed(c)
    BY <1>4 DEF CloseDbf, AfterDbf
  <2>2. handles' = [i \in DOMAIN handles |-> [handles[i] EXCEPT !.open = @ /\ i # f.dbf]]
    BY <1>4 DEF CloseDbf
  <2>3. f.dbf # 0 => ~handles'[f.dbf].open
    BY <1>2, <1>3, <2>2 DEF HandleSet
  <2> QED
    BY <1>1, <1>4, <2>1, <2>3 DEF Shut
<1>5. ASSUME CloseFpt(c), ~Return(c, "error") PROVE FileClosed(c) /\ Shut(k)'
  <2>1. call[c].step = "closefpt" /\ f.fpt # 0 /\ (f.dbf # 0 => ~handles[f.dbf].open)
    BY <1>1, <1>5, KnownOfCalls DEF CloseFpt, ClosedAt, StepOK, ClInv
  <2>2. FileClosed(c) /\ handles' = [handles EXCEPT ![f.fpt].open = FALSE]
    BY <1>5 DEF CloseFpt
  <2>3. handles'[f.fpt] = [handles[f.fpt] EXCEPT !.open = FALSE]
        /\ \A h \in DOMAIN handles : h # f.fpt => handles'[h] = handles[h]
    BY <1>3, <2>1, <2>2
  <2>4. ~handles'[f.fpt].open
    BY <1>2, <1>3, <2>1, <2>3 DEF HandleSet
  <2> QED
    BY <1>1, <1>3, <2>1, <2>2, <2>3, <2>4 DEF Shut
<1> QED
  BY <1>4, <1>5 DEF FileShuts, AfterDbf

LEMMA CloseFields ==
  ASSUME ClInv, NEW c \in Callers, CloseDbf(c) \/ CloseFpt(c) \/ CloseNext(c)
  PROVE  /\ Inv /\ call[c] \in CallSet /\ ClosedAt(call[c]) /\ StepOK(c, call[c])
         /\ FilesKept(c) /\ HandlesKept /\ files' = files /\ dbs' = dbs
         /\ call[c].op = "closedb" =>
              /\ call[c].db \in DOMAIN dbs
              /\ \A n \in Names : dbs[call[c].db].tables[n] # 0 =>
                                  dbs[call[c].db].tables[n] \in DOMAIN files
         /\ \A k \in DOMAIN files : Shut(k) => Shut(k)'
<1>1. Inv /\ call[c] \in CallSet /\ ClosedAt(call[c]) /\ StepOK(c, call[c])
  BY KnownOfCalls DEF ClInv, DInv, ClosingInv
<1>2. FilesKept(c) /\ HandlesKept /\ files' = files /\ dbs' = dbs
  BY <1>1, HandlesAreKept, SameFilesKept DEF Step, CloseDbf, CloseFpt, CloseNext
<1> QED
  BY <1>1, <1>2, KnownOfDatabases, ShutStays DEF StepOK

(* Close of a Database at its next File. *)
LEMMA NextClosing ==
  ASSUME ClInv, NEW c \in Callers, CloseNext(c)
  PROVE  ClosedAt(call[c])'
<1> DEFINE old == call[c]
           db == dbs[old.db]
<1>1. /\ Inv /\ old \in CallSet /\ ClosedAt(old) /\ StepOK(c, old) /\ dbs' = dbs
      /\ old.step = "next" /\ old.op = "closedb" /\ old.db \in DOMAIN dbs
      /\ \A n \in Names : db.tables[n] # 0 => db.tables[n] \in DOMAIN files
      /\ \A k \in DOMAIN files : Shut(k) => Shut(k)'
  BY CloseFields DEF CloseNext, StepOK
<1>2. \A n \in Names \ old.left : db.tables[n] = 0 \/ Shut(db.tables[n])
  BY <1>1 DEF ClosedAt, Closing
<1>3. ASSUME NEW n \in old.left, Goto(c, [old EXCEPT !.step = "closedbf", !.left = @ \ {n},
                                             !.file = db.tables[n]])
      PROVE  ClosedAt(call[c])'
  <2>1. PICK left, file : left = old.left \ {n} /\ file = db.tables[n]
    OBVIOUS
  <2>2. PICK r : r = [old EXCEPT !.step = "closedbf", !.left = left, !.file = file]
    OBVIOUS
  <2>3. call'[c] = r
    BY <1>1, <1>3, <2>1, <2>2, NowAt
  <2>4. /\ r.step = "closedbf" /\ r.op = "closedb" /\ r.db = old.db
        /\ r.left = old.left \ {n} /\ r.file = db.tables[n]
    BY <1>1, <2>1, <2>2 DEF CallSet
  <2>5. DatabaseAt(db) /\ n \in Names /\ db.tables[n] # 0
    BY <1>1, DatabasesHave DEF ClInv, DInv, CatalogInv, StepOK
  <2>6. db.tables[n] # db.main
    BY <2>5 DEF DatabaseAt
  <2>7. \A m \in Names \ r.left : m = n \/ m \in Names \ old.left
    BY <2>4
  <2> QED
    BY <1>1, <1>2, <2>3, <2>4, <2>6, <2>7 DEF ClosedAt, Closing, Shut
<1>4. ASSUME old.left = {}, Goto(c, [old EXCEPT !.step = "closedbf", !.file = db.main])
      PROVE  ClosedAt(call[c])'
  <2>1. PICK r : r = [old EXCEPT !.step = "closedbf", !.file = db.main]
    OBVIOUS
  <2>2. call'[c] = r
    BY <1>1, <1>4, <2>1, NowAt
  <2>3. /\ r.step = "closedbf" /\ r.op = "closedb" /\ r.db = old.db
        /\ r.left = {} /\ r.file = db.main
    BY <1>1, <1>4, <2>1 DEF CallSet
  <2> QED
    BY <1>1, <1>2, <1>4, <2>2, <2>3 DEF ClosedAt, Closing, Shut
<1> QED
  BY <1>3, <1>4 DEF CloseNext

(* Close at a File of which it has closed the last handle. *)
LEMMA ShuttingSteps ==
  ASSUME ClInv, NEW c \in Callers, FileShuts(c)
  PROVE  ClosedAt(call[c])'
<1> DEFINE old == call[c]
           db == dbs[old.db]
<1>1. /\ Inv /\ old \in CallSet /\ ClosedAt(old) /\ dbs' = dbs /\ Closing(old)
      /\ old.op = "closedb" =>
           \A n \in Names : db.tables[n] # 0 => db.tables[n] \in DOMAIN files
      /\ \A k \in DOMAIN files : Shut(k) => Shut(k)'
  BY CloseFields DEF FileShuts, CloseDbf, CloseFpt, Closing
<1>2. PICK file : file = old.file
  OBVIOUS
<1>3. PICK r : r = [old EXCEPT !.step = "next"]
  OBVIOUS
<1>4. r.step = "next" /\ r.op = old.op /\ r.db = old.db /\ r.left = old.left
  BY <1>1, <1>3 DEF CallSet
<1>5. CASE \E how : Return(c, how)
  BY <1>1, <1>5, ReturnedClosed
<1>6. CASE ~ \E how : Return(c, how)
  <2>1. FileClosed(c) /\ Shut(file)'
    BY <1>2, <1>6, ShutNow
  <2>2. Goto(c, r) /\ old.op = "closedb"
    BY <1>3, <1>6, <2>1 DEF FileClosed
  <2>3. call'[c] = r
    BY <1>1, <2>2, NowAt
  <2>4. \A n \in Names \ old.left : db.tables[n] = 0 \/ file = db.tables[n] \/ Shut(db.tables[n])
    BY <1>1, <1>2, <2>2 DEF ClosedAt
  <2>5. ASSUME NEW n \in Names \ old.left, NEW k, k = db.tables[n]
        PROVE  k = 0 \/ Shut(k)'
    BY <1>1, <2>1, <2>2, <2>4, <2>5
  <2> QED
    BY <1>1, <1>4, <2>3, <2>5 DEF ClosedAt, Closing, Shut
<1> QED
  BY <1>5, <1>6

(* Close at the table's handle of a File with a memo file. *)
LEMMA HalfClosed ==
  ASSUME ClInv, NEW c \in Callers, CloseDbf(c), AfterDbf(call[c].file)
  PROVE  ClosedAt(call[c])'
<1> DEFINE old == call[c]
           db == dbs[old.db]
           h == files[old.file].dbf
<1>1. /\ Inv /\ old \in CallSet /\ ClosedAt(old) /\ StepOK(c, old) /\ dbs' = dbs /\ files' = files
      /\ old.op = "closedb" =>
           \A n \in Names : db.tables[n] # 0 => db.tables[n] \in DOMAIN files
      /\ \A k \in DOMAIN files : Shut(k) => Shut(k)'
      /\ old.step = "closedbf" /\ old.file \in DOMAIN files
  BY CloseFields DEF CloseDbf, StepOK, Closing
<1>2. CASE Return(c, "error")
  BY <1>1, <1>2, ReturnedClosed
<1>3. CASE ~Return(c, "error")
  <2>1. PICK r : r = [old EXCEPT !.step = "closefpt"]
    OBVIOUS
  <2>2. /\ Goto(c, r)
        /\ handles' = [i \in DOMAIN handles |-> [handles[i] EXCEPT !.open = @ /\ i # h]]
    BY <1>3, <2>1 DEF CloseDbf
  <2>3. call'[c] = r
    BY <1>1, <2>2, NowAt
  <2>4. /\ r.step = "closefpt" /\ r.op = old.op /\ r.db = old.db /\ r.left = old.left
        /\ r.file = old.file
    BY <1>1, <2>1 DEF CallSet
  <2>5. h # 0 => ~handles'[h].open
    <3>1. handles \in Seq(HandleSet) /\ DOMAIN handles = 1..Len(handles)
      BY <1>1, Domains DEF DataOK
    <3>2. h # 0 => h \in DOMAIN handles /\ handles[h] \in HandleSet
      BY <1>1, <3>1, KnownOfFiles, MemberOfSeq
    <3> QED
      BY <2>2, <3>2 DEF HandleSet
  <2>6. old.op = "closedb" =>
          /\ old.file = db.main => old.left = {}
          /\ \A n \in Names \ old.left :
               db.tables[n] = 0 \/ old.file = db.tables[n] \/ Shut(db.tables[n])
    BY <1>1 DEF ClosedAt, Closing
  <2>7. ASSUME old.op = "closedb", NEW n \in Names \ old.left, NEW k, k = db.tables[n]
        PROVE  k = 0 \/ old.file = k \/ Shut(k)'
    BY <1>1, <2>6, <2>7
  <2> QED
    BY <1>1, <2>3, <2>4, <2>5, <2>6, <2>7 DEF ClosedAt, Closing, Shut
<1> QED
  BY <1>2, <1>3

LEMMA ClosingStep ==
  ASSUME ClInv, NEW c \in Callers, Begin(c) \/ Step(c) \/ IOFails(c)
  PROVE  ClosingInv'
<1>1. DInv /\ Inv
  BY DEF ClInv, DInv
<1>2. FilesKept(c) /\ HandlesKept /\ Local(c)
  BY <1>1, FilesAreKept, HandlesAreKept, StepsAreLocal
<1>3. ASSUME NEW b \in Callers, b # c PROVE ClosedAt(call[b])'
  BY <1>2, <1>3, ClosedStays DEF Local
<1>4. ClosedAt(call[c])'
  <2>1. CASE Begin(c)
    BY <2>1, BeginsClosing
  <2>2. CASE IOFails(c)
    BY <1>1, <2>2, ReturnedClosed DEF IOFails, Fail
  <2>3. CASE CloseDbf(c) \/ CloseFpt(c) \/ CloseNext(c)
    BY <2>3, NextClosing, ShuttingSteps, HalfClosed DEF FileShuts
  <2>4. CASE Step(c) /\ ~(CloseDbf(c) \/ CloseFpt(c) \/ CloseNext(c))
    <3>1. call[c].op \notin {"close", "closedb"}
      BY <1>1, <2>4, KnownOfCalls DEF Step, OpenHandle, ReadHead, OpenRelated, ReadMemoHead,
         SearchCatalog, SkipRow, OpenRow, DatabaseOpened, Stat, MakeDbf, MakeFpt, WriteHead,
         WriteColumns, WriteMark, WriteFill, WriteMemoHead, WriteMemoPad, StepOK, Opening, Creating
    <3>2. call'[c].op \notin {"close", "closedb"}
      BY <1>1, <2>4, <3>1, OpStays
    <3>3. call'[c].step = "closefpt" => call'[c].op \in {"close", "closedb"}
      BY <1>2 DEF Local, StepOK, Closing
    <3> QED
      BY <3>2, <3>3, NotClosing
  <2> QED
    BY <2>1, <2>2, <2>3, <2>4
<1> QED
  BY <1>3, <1>4 DEF ClosingInv

LEMMA ClosingInit == Init => ClInv
<1> SUFFICES ASSUME Init PROVE ClInv
  OBVIOUS
<1>1. \A c \in Callers : call[c] = NoCall
  BY DEF Init
<1>2. NoCall.op # "closedb" /\ NoCall.step # "closefpt"
  BY DEF NoCall
<1> QED
  BY <1>1, <1>2, DatabaseInit DEF ClInv, ClosingInv, ClosedAt

LEMMA ClosingNext ==
  ASSUME ClInv, [Next]_vars
  PROVE  ClInv'
<1>1. DInv'
  BY DatabaseNext DEF ClInv
<1>2. CASE Crash
  <2>1. \A c \in Callers : call'[c] = NoCall
    BY <1>2 DEF Crash
  <2>2. NoCall.op # "closedb" /\ NoCall.step # "closefpt"
    BY DEF NoCall
  <2> QED
    BY <1>1, <2>1, <2>2 DEF ClInv, ClosingInv, ClosedAt
<1>3. CASE UNCHANGED vars
  <2>1. UNCHANGED <<call, dbs, files, handles>> /\ ClosingInv
    BY <1>3 DEF vars, ClInv
  <2>2. ASSUME NEW c \in Callers PROVE ClosedAt(call[c])'
    <3>1. ClosedAt(call[c])
      BY <2>1 DEF ClosingInv
    <3> QED
      BY <2>1, <3>1 DEF ClosedAt, Closing, Shut
  <2> QED
    BY <1>1, <2>2 DEF ClInv, ClosingInv
<1> QED
  BY <1>1, <1>2, <1>3, ClosingStep DEF Next, ClInv

(* A Close that returns without an error. *)
CloseReturns(c) == call[c].op \in {"close", "closedb"} /\ call'[c] = NoCall /\ outcome'[c] = "ok"

LEMMA ReturnsShut ==
  ASSUME ClInv, NEW c \in Callers, Begin(c) \/ Step(c) \/ IOFails(c), CloseReturns(c)
  PROVE  FileShuts(c) /\ FileClosed(c) /\ ~Return(c, "error")
<1>1. Inv /\ call[c] \in CallSet /\ outcome \in [Callers -> Outcomes] /\ StepOK(c, call[c])
  BY KnownOfCalls, Domains DEF ClInv, DInv
<1>2. ~Return(c, "error")
  BY <1>1 DEF Return, CloseReturns
<1>3. NoCall.step = "idle" /\ NoCall.op = "none"
  BY DEF NoCall
<1>4. ~Begin(c) /\ ~IOFails(c)
  <2>1. call[c].step # "idle"
    BY <1>1, <1>3 DEF StepOK, CloseReturns
  <2> QED
    BY <1>2, <2>1 DEF Begin, OpenTable, OpenDatabase, NewTable, Close, CloseDatabase, Call,
       IOFails, Fail
<1>5. CloseDbf(c) \/ CloseFpt(c) \/ CloseNext(c)
  BY <1>1, <1>4 DEF CloseReturns, Step, OpenHandle, ReadHead, OpenRelated, ReadMemoHead,
     SearchCatalog, SkipRow, OpenRow, DatabaseOpened, Stat, MakeDbf, MakeFpt, WriteHead,
     WriteColumns, WriteMark, WriteFill, WriteMemoHead, WriteMemoPad, StepOK, Opening, Creating
<1>6. ~CloseNext(c)
  <2>1. SUFFICES ASSUME CloseNext(c) PROVE FALSE
    OBVIOUS
  <2>2. PICK r : /\ Goto(c, r)
                 /\ \/ \E x, y : r = [call[c] EXCEPT !.step = "closedbf", !.left = x, !.file = y]
                    \/ \E y : r = [call[c] EXCEPT !.step = "closedbf", !.file = y]
    BY <2>1 DEF CloseNext
  <2>3. r.step = "closedbf"
    BY <1>1, <2>2 DEF CallSet
  <2> QED
    BY <1>1, <1>3, <2>2, <2>3, NowAt DEF CloseReturns
<1>7. CASE CloseDbf(c) /\ AfterDbf(call[c].file)
  <2>1. PICK r : r = [call[c] EXCEPT !.step = "closefpt"]
    OBVIOUS
  <2>2. Goto(c, r)
    BY <1>2, <1>7, <2>1 DEF CloseDbf
  <2>3. r.step = "closefpt"
    BY <1>1, <2>1 DEF CallSet
  <2> QED
    BY <1>1, <1>3, <2>2, <2>3, NowAt DEF CloseReturns
<1>8. CASE FileShuts(c)
  BY <1>2, <1>8 DEF FileShuts, CloseDbf, CloseFpt
<1> QED
  BY <1>5, <1>6, <1>7, <1>8 DEF FileShuts

LEMMA ReturnedMeansClosed ==
  ASSUME ClInv, NEW c \in Callers, Begin(c) \/ Step(c) \/ IOFails(c), CloseReturns(c),
         NEW k \in (IF call[c].op = "close" THEN {call[c].file} ELSE OfDatabase(call[c].db))
  PROVE  Shut(k)'
<1> DEFINE old == call[c]
           db == dbs[old.db]
<1>1. FileShuts(c) /\ FileClosed(c) /\ ~Return(c, "error")
  BY ReturnsShut
<1>2. /\ Inv /\ old \in CallSet /\ ClosedAt(old) /\ Closing(old)
      /\ old.op = "closedb" =>
           \A n \in Names : db.tables[n] # 0 => db.tables[n] \in DOMAIN files
      /\ \A j \in DOMAIN files : Shut(j) => Shut(j)'
  BY <1>1, CloseFields DEF FileShuts, CloseDbf, CloseFpt, Closing
<1>3. PICK file : file = old.file
  OBVIOUS
<1>4. Shut(file)'
  BY <1>1, <1>3, ShutNow
<1>5. CASE old.op = "close"
  BY <1>3, <1>4, <1>5
<1>6. CASE old.op # "close"
  <2>1. old.op = "closedb" /\ k \in OfDatabase(old.db)
    BY <1>6 DEF CloseReturns
  <2>2. old.file = db.main
    <3>1. CASE old.file # db.main
      <4>1. PICK r : r = [old EXCEPT !.step = "next"]
        OBVIOUS
      <4>2. Goto(c, r)
        BY <1>1, <2>1, <3>1, <4>1 DEF FileClosed
      <4>3. r.step = "next" /\ NoCall.step = "idle"
        BY <1>2, <4>1 DEF CallSet, NoCall
      <4> QED
        BY <1>2, <4>2, <4>3, NowAt DEF CloseReturns
    <3> QED
      BY <3>1
  <2>3. old.left = {}
    BY <1>2, <2>1, <2>2 DEF ClosedAt
  <2>4. \A n \in Names : db.tables[n] = 0 \/ file = db.tables[n] \/ Shut(db.tables[n])
    BY <1>2, <1>3, <2>1, <2>3 DEF ClosedAt
  <2>5. k = file \/ (k # 0 /\ \E n \in Names : k = db.tables[n])
    BY <1>3, <2>1, <2>2 DEF OfDatabase
  <2> QED
    BY <1>2, <1>4, <2>1, <2>4, <2>5
<1> QED
  BY <1>5, <1>6

(* When File.Close or Database.Close returns without an error, every       *)
(* handle of the File, or of every File of the Database, is closed,        *)
(* whoever else opens and closes meanwhile.                                *)
THEOREM CloseCloses == Spec => ClosedMeansClosed
<1>1. ClInv /\ [Next]_vars => ClInv'
  BY ClosingNext
<1> DEFINE A == \A c \in Callers :
       call[c].op \in {"close", "closedb"} /\ call'[c] = NoCall /\ outcome'[c] = "ok"
         => \A k \in (IF call[c].op = "close" THEN {call[c].file} ELSE OfDatabase(call[c].db)) :
              \A h \in {files[k].dbf, files[k].fpt} \ {0} : ~handles'[h].open
<1>2. ClInv /\ [Next]_vars => [A]_vars
  <2> SUFFICES ASSUME ClInv, Next, NEW b \in Callers, CloseReturns(b),
                      NEW k \in (IF call[b].op = "close" THEN {call[b].file}
                                                        ELSE OfDatabase(call[b].db)),
                      NEW h \in {files[k].dbf, files[k].fpt} \ {0}
               PROVE  ~handles'[h].open
    BY DEF CloseReturns
  <2>1. ~Crash
    BY DEF Crash, CloseReturns
  <2>2. PICK c \in Callers : Begin(c) \/ Step(c) \/ IOFails(c)
    BY <2>1 DEF Next
  <2>3. Inv /\ Local(c)
    BY <2>2, StepsAreLocal DEF ClInv, DInv
  <2>4. b = c
    <3>1. CASE b # c
      <4>1. call'[b] = call[b] /\ NoCall.op = "none"
        BY <2>3, <3>1 DEF Local, NoCall
      <4> QED
        BY <4>1 DEF CloseReturns
    <3> QED
      BY <3>1
  <2>5. Shut(k)'
    BY <2>2, <2>4, ReturnedMeansClosed
  <2>6. files' = files
    BY <2>2, <2>4, ReturnsShut DEF FileShuts, CloseDbf, CloseFpt
  <2> QED
    BY <2>5, <2>6 DEF Shut
<1>3. Init => ClInv
  BY ClosingInit
<1> QED
  BY <1>1, <1>2, <1>3, PTL DEF Spec, ClosedMeansClosed

(***************************************************************************)
(* What a step does to the handles of its call: it keeps them, takes one   *)
(* more, or gives them to a new File.                                      *)
(***************************************************************************)
KeepsHandles(c) ==
  /\ UNCHANGED <<handles, files, dbs>>
  /\ call'[c].dbf = call[c].dbf /\ call'[c].fpt = call[c].fpt

TakesHandle(c) ==
  /\ UNCHANGED <<files, dbs>>
  /\ \E path, part : NewHandle(path, part)
  /\ call[c].fpt = 0
  /\ \/ call[c].dbf = 0 /\ call'[c].dbf = Len(handles) + 1 /\ call'[c].fpt = 0
     \/ call[c].dbf # 0 /\ call'[c].dbf = call[c].dbf /\ call'[c].fpt = Len(handles) + 1

GivesHandles(c) ==
  LET k == Len(files) + 1 IN
  /\ UNCHANGED <<handles, dbs>>
  /\ call'[c].dbf = 0 /\ call'[c].fpt = 0
  /\ DOMAIN files' = DOMAIN files \cup {k} /\ k \notin DOMAIN files
  /\ files'[k].dbf = call[c].dbf /\ files'[k].fpt = call[c].fpt
  /\ files'[k].held \in {"program", c}
  /\ \A j \in DOMAIN files :
       files'[j].held # files[j].held => files'[j].held = "lost" /\ RepeatsName(c)

(* An opening that fails, and a Database that is opened. *)
DropsHandles(c) ==
  /\ UNCHANGED <<handles, dbs>>
  /\ call'[c] = NoCall /\ outcome'[c] = "error"
  /\ call[c].op \in {"open", "opendb", "create"}
  /\ DOMAIN files' = DOMAIN files
  /\ \A k \in DOMAIN files : files'[k].held \in {files[k].held, "lost"}

(* The call goes on with what it has still to close. *)
GoesOnClosing(c) ==
  /\ call[c].step # "closefpt"
  /\ call[c].op = "closedb" =>
       /\ call'[c].op = "closedb" /\ call'[c].db = call[c].db
       /\ call'[c].left \subseteq call[c].left

Moves(c) ==
  /\ KeepsHandles(c) \/ TakesHandle(c) \/ GivesHandles(c) \/ DropsHandles(c)
     \/ DatabaseOpened(c)
  /\ HandlesAtStep(call'[c]) /\ TableFirst(call[c])' /\ ClosesOwn(call[c])'
  /\ call'[c].step # "closefpt"
  /\ GoesOnClosing(c)

(* Such a step in a call that does not close. *)
LEMMA NotAClose ==
  ASSUME DInv, NEW c \in Callers, call[c].op \notin {"close", "closedb"}, Step(c)
  PROVE  GoesOnClosing(c) /\ ClosesOwn(call[c])' /\ call'[c].step # "closefpt"
<1>1. Inv /\ StepOK(c, call[c]) /\ Local(c)
  BY KnownOfCalls, StepsAreLocal DEF DInv
<1>2. call[c].step # "closefpt"
  BY <1>1 DEF StepOK, Closing
<1>3. call'[c].op \notin {"close", "closedb"}
  BY <1>1, OpStays
<1>4. ~Closing(call'[c])
  BY <1>1, <1>3 DEF Local, StepOK, Closing
<1> QED
  BY <1>2, <1>4 DEF GoesOnClosing, ClosesOwn, Closing

LEMMA NoCallHasNone ==
  /\ NoCall.dbf = 0 /\ NoCall.fpt = 0 /\ NoCall.op = "none" /\ NoCall.step = "idle"
  /\ HandlesAtStep(NoCall) /\ TableFirst(NoCall) /\ TableFirst(NoCall)'
BY DEF NoCall, HandlesAtStep, TableFirst

LEMMA EnteredSource ==
  ASSUME Inv, NEW k \in DOMAIN configs, Enter(k), configs[k].source # "file"
  PROVE  configs'[Entered(k)].source = configs[k].source
<1>1. PICK new : new = [configs[k] EXCEPT !.io = TRUE, !.mine = FALSE]
  OBVIOUS
<1>2. configs \in Seq(ConfigSet) /\ DOMAIN configs = 1..Len(configs)
  BY Domains DEF DataOK
<1>3. configs[k] \in ConfigSet
  BY <1>2, MemberOfSeq
<1>4. new.source = configs[k].source
  BY <1>1, <1>3 DEF ConfigSet
<1>5. configs' = Append(configs, new)
  BY <1>1 DEF Enter
<1>6. configs'[Len(configs) + 1] = new
  BY <1>2, <1>5
<1> QED
  BY <1>4, <1>6 DEF Entered

LEMMA BeginMoves ==
  ASSUME DInv, HandlesInv, NEW c \in Callers, Begin(c)
  PROVE  Moves(c)
<1>1. Inv /\ UNCHANGED <<handles, files, dbs>>
  BY DEF DInv, Begin, OpenTable, OpenDatabase, NewTable, Close, CloseDatabase
<1>2. call[c] = NoCall
  <2>1. call[c].step = "idle"
    BY DEF Begin, OpenTable, OpenDatabase, NewTable, Close, CloseDatabase, Call
  <2> QED
    BY <2>1, KnownOfCalls DEF StepOK
<1>3. ASSUME NEW r, call'[c] = r, r.dbf = 0, r.fpt = 0,
             r.step # "closefpt", TableFirst(r)',
             Closing(r) => r.op = "close" /\ files[r.file].held \in {"program", "table"}
      PROVE  Moves(c)
  <2>1. KeepsHandles(c) /\ GoesOnClosing(c)
    BY <1>1, <1>2, <1>3, NoCallHasNone DEF KeepsHandles, GoesOnClosing
  <2>2. HandlesAtStep(call'[c]) /\ TableFirst(call[c])'
    BY <1>3 DEF HandlesAtStep, TableFirst
  <2>3. ClosesOwn(call[c])'
    BY <1>1, <1>3 DEF ClosesOwn, Closing
  <2> QED
    BY <1>3, <2>1, <2>2, <2>3 DEF Moves
<1>4. ASSUME NEW how, Return(c, how) PROVE Moves(c)
  <2>1. call'[c] = NoCall
    BY <1>1, <1>4, NowAt
  <2> QED
    BY <1>3, <2>1, NoCallHasNone DEF Closing
<1>5. ASSUME NEW r, Goto(c, r), r.dbf = 0, r.fpt = 0,
             r.step # "closefpt", TableFirst(r)',
             Closing(r) => r.op = "close" /\ files[r.file].held \in {"program", "table"}
      PROVE  Moves(c)
  BY <1>1, <1>3, <1>5, NowAt
<1>6. ASSUME NEW k \in DOMAIN configs, NEW n, OpenTable(c, k, n) PROVE Moves(c)
  <2>1. PICK r : r = [NoCall EXCEPT !.op = "open", !.step = FirstStep(k),
                        !.cfg = Entered(k), !.path = n]
    OBVIOUS
  <2>2. r.dbf = 0 /\ r.fpt = 0 /\ ~Closing(r) /\ r.step # "closefpt"
    BY <2>1 DEF NoCall, FirstStep, Closing
  <2>3. (Goto(c, r) /\ Enter(k)) \/ \E how : Return(c, how)
    BY <1>6, <2>1 DEF OpenTable
  <2>4. ASSUME Enter(k), r.step = "head" PROVE configs'[r.cfg].source # "file"
    <3>1. r.cfg = Entered(k) /\ configs[k].source # "file"
      BY <2>1, <2>4 DEF NoCall, FirstStep
    <3> QED
      BY <1>1, <2>4, <3>1, EnteredSource
  <2>5. r.step \in {"handle", "head"}
    BY <2>1 DEF NoCall, FirstStep
  <2>6. Enter(k) => TableFirst(r)'
    BY <2>4, <2>5 DEF TableFirst
  <2> QED
    BY <1>4, <1>5, <2>2, <2>3, <2>6
<1>7. ASSUME NEW k \in DOMAIN configs, OpenDatabase(c, k) PROVE Moves(c)
  <2>1. PICK r : r = [NoCall EXCEPT !.op = "opendb", !.step = FirstStep(k),
                        !.cfg = Entered(k), !.dbcfg = k, !.path = Container]
    OBVIOUS
  <2>2. r.dbf = 0 /\ r.fpt = 0 /\ ~Closing(r) /\ r.step # "closefpt"
    BY <2>1 DEF NoCall, FirstStep, Closing
  <2>3. (Goto(c, r) /\ Enter(k)) \/ \E how : Return(c, how)
    BY <1>7, <2>1 DEF OpenDatabase
  <2>4. ASSUME Enter(k), r.step = "head" PROVE configs'[r.cfg].source # "file"
    <3>1. r.cfg = Entered(k) /\ configs[k].source # "file"
      BY <2>1, <2>4 DEF NoCall, FirstStep
    <3> QED
      BY <1>1, <2>4, <3>1, EnteredSource
  <2>5. r.step \in {"handle", "head"}
    BY <2>1 DEF NoCall, FirstStep
  <2>6. Enter(k) => TableFirst(r)'
    BY <2>4, <2>5 DEF TableFirst
  <2> QED
    BY <1>4, <1>5, <2>2, <2>3, <2>6
<1>8. ASSUME NEW k, NEW n, NEW memo, NEW tested, NewTable(c, k, n, memo, tested)
      PROVE  Moves(c)
  <2>1. PICK r : r = [NoCall EXCEPT !.op = "create", !.step = "stat", !.cfg = k,
                        !.path = n, !.memo = memo, !.tested = tested]
    OBVIOUS
  <2>2. r.dbf = 0 /\ r.fpt = 0 /\ ~Closing(r) /\ r.step # "closefpt" /\ Goto(c, r)
    BY <1>8, <2>1 DEF NewTable, NoCall, Closing
  <2>3. r.step = "stat"
    BY <2>1 DEF NoCall
  <2> QED
    BY <1>5, <2>2, <2>3 DEF TableFirst
<1>9. ASSUME NEW k, Close(c, k) PROVE Moves(c)
  <2>1. PICK r : r = [NoCall EXCEPT !.op = "close", !.step = "closedbf", !.file = k]
    OBVIOUS
  <2>2. /\ r.dbf = 0 /\ r.fpt = 0 /\ r.step # "closefpt" /\ Goto(c, r)
        /\ r.op = "close" /\ files[r.file].held \in {"program", "table"}
    BY <1>9, <2>1 DEF Close, NoCall
  <2>3. r.step = "closedbf"
    BY <2>1 DEF NoCall
  <2> QED
    BY <1>5, <2>2, <2>3 DEF TableFirst
<1>10. ASSUME NEW d, CloseDatabase(c, d) PROVE Moves(c)
  <2>1. PICK left : left = {n \in Names : dbs[d].tables[n] # 0}
    OBVIOUS
  <2>2. PICK r : r = [NoCall EXCEPT !.op = "closedb", !.step = "next", !.db = d, !.left = left]
    OBVIOUS
  <2>3. r.dbf = 0 /\ r.fpt = 0 /\ ~Closing(r) /\ r.step # "closefpt"
    BY <2>2 DEF NoCall, Closing
  <2>4. Goto(c, r)
    BY <1>10, <2>1, <2>2 DEF CloseDatabase
  <2>5. r.step = "next"
    BY <2>2 DEF NoCall
  <2> QED
    BY <1>5, <2>3, <2>4, <2>5 DEF TableFirst
<1> QED
  BY <1>6, <1>7, <1>8, <1>9, <1>10 DEF Begin

LEMMA HandlesOfCall ==
  ASSUME HandlesInv, NEW c \in Callers
  PROVE  /\ HandlesAtStep(call[c]) /\ MemoAfterTable(call[c]) /\ AllOpen(call[c])
         /\ ClosesOwn(call[c]) /\ TableFirst(call[c])
         /\ \A k \in DOMAIN files : HandlesOf(files[k]) \cap HandlesOf(call[c]) = {}
BY DEF HandlesInv, CallHandles

LEMMA MovesOn ==
  ASSUME DInv, NEW c \in Callers, call[c].op \notin {"close", "closedb"}, Step(c),
         HandlesAtStep(call'[c]), TableFirst(call[c])',
         KeepsHandles(c) \/ TakesHandle(c) \/ GivesHandles(c) \/ DropsHandles(c)
         \/ DatabaseOpened(c)
  PROVE  Moves(c)
BY NotAClose DEF Moves

LEMMA TableConfigSource ==
  ASSUME Inv, NEW c \in Callers, OpenRow(c), call[c].dbcfg \in DOMAIN configs
  PROVE  configs'[Len(configs')].source = configs[call[c].dbcfg].source
<1> DEFINE k == call[c].dbcfg
<1>1. PICK new : new = [configs[k] EXCEPT !.io = TRUE, !.mine = FALSE]
  OBVIOUS
<1>2. configs \in Seq(ConfigSet) /\ DOMAIN configs = 1..Len(configs)
  BY Domains DEF DataOK
<1>3. configs[k] \in ConfigSet
  BY <1>2, MemberOfSeq
<1>4. new.source = configs[k].source
  BY <1>1, <1>3 DEF ConfigSet
<1>5. configs' = Append(configs, new)
  BY <1>1 DEF OpenRow, TableConfig
<1>6. Len(configs') = Len(configs) + 1 /\ configs'[Len(configs) + 1] = new
  BY <1>2, <1>5
<1> QED
  BY <1>4, <1>6

(* OpenDatabase between two Files. *)
LEMMA RowMoves ==
  ASSUME DInv, HandlesInv, NEW c \in Callers,
         SearchCatalog(c) \/ SkipRow(c) \/ OpenRow(c) \/ DatabaseOpened(c)
  PROVE  Moves(c)
<1> DEFINE old == call[c]
<1>1. /\ Inv /\ old \in CallSet /\ StepOK(c, old) /\ Step(c) /\ old.step \in {"catalog", "row"}
      /\ old.op = "opendb" /\ old.dbcfg \in DOMAIN configs
  BY KnownOfCalls DEF DInv, Step, SearchCatalog, SkipRow, OpenRow, DatabaseOpened, StepOK
<1>2. old.dbf = 0 /\ old.fpt = 0
  BY <1>1, HandlesOfCall DEF HandlesAtStep
<1>3. CASE DatabaseOpened(c)
  <2>1. call'[c] = NoCall
    BY <1>1, <1>3, NowAt DEF DatabaseOpened
  <2> QED
    BY <1>1, <1>3, <2>1, MovesOn, NoCallHasNone
<1>4. CASE ~DatabaseOpened(c)
  <2>1. PICK step, path : /\ step = FirstStep(old.dbcfg)
                          /\ path = TablePath(configs[old.dbcfg].source, Catalog[old.row])
    OBVIOUS
  <2>2. PICK r : /\ Goto(c, r) /\ UNCHANGED <<handles, files, dbs>>
                 /\ \/ r = [old EXCEPT !.step = "row", !.row = 1]
                    \/ r = [old EXCEPT !.row = AfterSkipped(@)]
                    \/ /\ OpenRow(c)
                       /\ r = [old EXCEPT !.step = step, !.cfg = Len(configs'), !.path = path]
    BY <1>4, <2>1 DEF SearchCatalog, SkipRow, OpenRow
  <2>3. r.dbf = 0 /\ r.fpt = 0
    BY <1>1, <1>2, <2>2 DEF CallSet
  <2>4. call'[c] = r
    BY <1>1, <2>2, NowAt
  <2>5. HandlesAtStep(call'[c]) /\ KeepsHandles(c)
    BY <1>2, <2>2, <2>3, <2>4 DEF HandlesAtStep, KeepsHandles
  <2>6. ASSUME r.step \in {"head", "related", "makefpt"}
        PROVE  r.step = "head" /\ configs'[r.cfg].source # "file"
    <3>1. OpenRow(c) /\ r = [old EXCEPT !.step = step, !.cfg = Len(configs'), !.path = path]
      BY <1>1, <2>2, <2>6 DEF CallSet
    <3>2. r.step = step /\ r.cfg = Len(configs')
      BY <1>1, <3>1 DEF CallSet
    <3>3. step = "head" /\ configs[old.dbcfg].source # "file"
      BY <2>1, <2>6, <3>2 DEF FirstStep
    <3>4. configs'[Len(configs')].source = configs[old.dbcfg].source
      BY <1>1, <3>1, TableConfigSource
    <3> QED
      BY <3>2, <3>3, <3>4
  <2>7. TableFirst(call[c])'
    BY <2>4, <2>6 DEF TableFirst
  <2> QED
    BY <1>1, <2>5, <2>7, MovesOn
<1> QED
  BY <1>3, <1>4

LEMMA FailMoves ==
  ASSUME DInv, NEW c \in Callers, Step(c), call[c].op \in {"open", "opendb", "create"},
         Fail(c), UNCHANGED <<handles, dbs>>
  PROVE  Moves(c)
<1>1. Inv /\ outcome \in [Callers -> Outcomes]
  BY Domains DEF DInv
<1>2. call'[c] = NoCall /\ outcome'[c] = "error"
  BY <1>1, NowAt DEF Fail, Return
<1>3. files' = Dropped(c)
  BY DEF Fail
<1>4. \A k \in DOMAIN files : [files[k] EXCEPT !.held = "lost"].held = "lost"
  <2>1. \A k \in DOMAIN files : files[k] \in FileSet
    BY <1>1, KnownOfFiles
  <2> QED
    BY <2>1 DEF FileSet
<1>5. DOMAIN files' = DOMAIN files
      /\ \A k \in DOMAIN files : files'[k].held \in {files[k].held, "lost"}
  BY <1>3, <1>4, Zenon DEF Dropped
<1> QED
  BY <1>2, <1>5, MovesOn, NoCallHasNone DEF DropsHandles

LEMMA OpenedMoves ==
  ASSUME DInv, HandlesInv, NEW c \in Callers, Step(c), Opening(call[c]), Opened(c),
         UNCHANGED <<handles, dbs>>
  PROVE  Moves(c)
<1> DEFINE old == call[c]
           n == Catalog[old.row]
           k == Len(files) + 1
<1>1. /\ Inv /\ old \in CallSet /\ StepOK(c, old) /\ files \in Seq(FileSet)
      /\ DOMAIN files = 1..Len(files)
  BY KnownOfCalls, Domains DEF DInv, DataOK
<1>2. PICK file : /\ file.dbf = old.dbf /\ file.fpt = old.fpt /\ file.held \in {"program", c}
                  /\ \/ files' = Append(files, file)
                     \/ /\ old.op = "opendb" /\ old.main # 0
                        /\ files' = Append(Replaced(c), file)
  <2>1. PICK this : this = [cfg |-> old.cfg, dbf |-> old.dbf, fpt |-> old.fpt, path |-> old.path,
                            page |-> disk[old.path].page, held |-> "program"]
    OBVIOUS
  <2>2. PICK that : that = [cfg |-> old.cfg, dbf |-> old.dbf, fpt |-> old.fpt, path |-> old.path,
                            page |-> disk[old.path].page, held |-> c]
    OBVIOUS
  <2>3. \/ files' = Append(files, this) \/ files' = Append(files, that)
        \/ /\ old.op = "opendb" /\ old.main # 0
           /\ files' = Append(Replaced(c), that)
    BY <2>1, <2>2, Zenon DEF Opened, Replaced
  <2>4. /\ this.dbf = old.dbf /\ this.fpt = old.fpt /\ this.held = "program"
        /\ that.dbf = old.dbf /\ that.fpt = old.fpt /\ that.held = c
    BY <2>1, <2>2
  <2> QED
    BY <2>3, <2>4
<1>3. PICK fs : /\ files' = Append(fs, file) /\ fs \in Seq(FileSet) /\ Len(fs) = Len(files)
                /\ DOMAIN fs = DOMAIN files
                /\ fs = files \/ (old.op = "opendb" /\ old.main # 0 /\ fs = Replaced(c))
  BY <1>1, <1>2, ReplacedFiles
<1>4. /\ DOMAIN files' = DOMAIN files \cup {k} /\ k \notin DOMAIN files /\ files'[k] = file
      /\ \A j \in DOMAIN files : files'[j] = fs[j]
  BY <1>3, AppendedToFiles
<1>5. ASSUME NEW j \in DOMAIN files, files'[j].held # files[j].held
      PROVE  files'[j].held = "lost" /\ RepeatsName(c)
  <2>1. old.op = "opendb" /\ old.main # 0 /\ fs = Replaced(c)
    BY <1>3, <1>4, <1>5
  <2>2. j = old.tables[n] /\ files'[j] = [files[j] EXCEPT !.held = "lost"]
    BY <1>4, <1>5, <2>1, Zenon DEF Replaced
  <2>3. old.row \in DOMAIN Catalog /\ Catalog[old.row] # Blank
    BY <1>1, <2>1 DEF StepOK
  <2>4. files[j] \in FileSet /\ j # 0
    BY <1>1, KnownOfFiles
  <2>5. files'[j].held = "lost"
    BY <2>2, <2>4 DEF FileSet
  <2> QED
    BY <2>2, <2>3, <2>4, <2>5 DEF RepeatsName
<1>6. PICK r : /\ call'[c] = r /\ r.dbf = 0 /\ r.fpt = 0
               /\ r.step \in {"idle", "catalog", "row"}
  <2>1. PICK next : next = [old EXCEPT !.dbf = 0, !.fpt = 0, !.cfg = 0, !.path = None]
    OBVIOUS
  <2>2. CASE old.op = "open"
    BY <1>1, <2>2, NowAt, NoCallHasNone DEF Opened
  <2>3. CASE old.op # "open"
    <3>1. PICK r : /\ Goto(c, r)
                   /\ \/ \E i : r = [next EXCEPT !.main = i, !.step = "catalog"]
                      \/ \E i : r = [next EXCEPT !.tables[n] = i, !.step = "row", !.row = @ + 1]
      BY <2>1, <2>3 DEF Opened
    <3>2. r.dbf = 0 /\ r.fpt = 0 /\ r.step \in {"catalog", "row"}
      BY <1>1, <2>1, <3>1, ZenonT(30) DEF CallSet
    <3> QED
      BY <1>1, <3>1, <3>2, NowAt
  <2> QED
    BY <2>2, <2>3
<1>7. GivesHandles(c)
  BY <1>2, <1>4, <1>5, <1>6 DEF GivesHandles
<1> QED
  BY <1>1, <1>6, <1>7, MovesOn DEF StepOK, HandlesAtStep, TableFirst

(* A call goes to the next step, with the handles it has or one more. *)
LEMMA StepMoves ==
  ASSUME DInv, HandlesInv, NEW c \in Callers, Step(c),
         call[c].op \notin {"close", "closedb"}, UNCHANGED <<handles, files, dbs>>,
         NEW step, Goto(c, [call[c] EXCEPT !.step = step]),
         \/ call[c].dbf = 0 /\ call[c].fpt = 0
         \/ step \in {"head", "related"} /\ call[c].fpt = 0
         \/ step \in {"memohead", "writehead", "writecols", "writemark", "writefill",
                      "writememo", "writepad"},
         step # "makefpt",
         step \in {"head", "related"} => call[c].dbf # 0 \/ configs'[call[c].cfg].source # "file"
  PROVE  Moves(c)
<1> DEFINE old == call[c]
<1>1. Inv /\ old \in CallSet
  BY KnownOfCalls DEF DInv
<1>2. PICK r : r = [old EXCEPT !.step = step]
  OBVIOUS
<1>3. r.dbf = old.dbf /\ r.fpt = old.fpt /\ r.step = step /\ r.cfg = old.cfg
  BY <1>1, <1>2 DEF CallSet
<1>4. call'[c] = r
  BY <1>1, <1>2, NowAt
<1>5. HandlesAtStep(call'[c]) /\ TableFirst(call[c])' /\ KeepsHandles(c)
  BY <1>3, <1>4 DEF HandlesAtStep, TableFirst, KeepsHandles
<1> QED
  BY <1>5, MovesOn

LEMMA TableTaken ==
  ASSUME DInv, HandlesInv, NEW c \in Callers, Step(c),
         call[c].op \notin {"close", "closedb"}, UNCHANGED <<files, dbs>>,
         NEW path, NewHandle(path, "dbf"), call[c].dbf = 0, call[c].fpt = 0,
         NEW step \in {"head", "makefpt", "writehead"},
         NEW r, r.dbf = Len(handles'), r.fpt = 0, r.step = step, Goto(c, r)
  PROVE  Moves(c)
<1>1. Inv /\ handles \in Seq(HandleSet)
  BY Domains DEF DInv, DataOK
<1>2. Len(handles') = Len(handles) + 1
  BY <1>1 DEF NewHandle
<1>3. call'[c] = r
  BY <1>1, NowAt
<1>4. HandlesAtStep(call'[c]) /\ TableFirst(call[c])' /\ TakesHandle(c)
  BY <1>1, <1>2, <1>3 DEF HandlesAtStep, TableFirst, TakesHandle
<1> QED
  BY <1>4, MovesOn

LEMMA MemoTaken ==
  ASSUME DInv, HandlesInv, NEW c \in Callers, Step(c),
         call[c].op \notin {"close", "closedb"}, UNCHANGED <<files, dbs>>,
         NEW path, NewHandle(path, "fpt"), call[c].dbf # 0, call[c].fpt = 0,
         NEW step \in {"memohead", "writehead"},
         NEW r, r.dbf = call[c].dbf, r.fpt = Len(handles'), r.step = step, Goto(c, r)
  PROVE  Moves(c)
<1>1. Inv /\ handles \in Seq(HandleSet)
  BY Domains DEF DInv, DataOK
<1>2. Len(handles') = Len(handles) + 1
  BY <1>1 DEF NewHandle
<1>3. call'[c] = r
  BY <1>1, NowAt
<1>4. HandlesAtStep(call'[c]) /\ TableFirst(call[c])' /\ TakesHandle(c)
  BY <1>1, <1>2, <1>3 DEF HandlesAtStep, TableFirst, TakesHandle
<1> QED
  BY <1>4, MovesOn

LEMMA OpeningMoves ==
  ASSUME DInv, HandlesInv, NEW c \in Callers,
         OpenHandle(c) \/ ReadHead(c) \/ OpenRelated(c) \/ ReadMemoHead(c)
  PROVE  Moves(c)
<1> DEFINE old == call[c]
           p == old.path
<1>1. /\ Inv /\ old \in CallSet /\ StepOK(c, old) /\ HandlesAtStep(old) /\ TableFirst(old) /\ Step(c)
      /\ Opening(old) /\ old.op \in {"open", "opendb"} /\ dbs' = dbs
      /\ old.cfg \in DOMAIN configs
  BY KnownOfCalls, HandlesOfCall DEF DInv, Step, OpenHandle, ReadHead, OpenRelated,
     ReadMemoHead, StepOK, Opening
<1>2. CASE OpenHandle(c)
  <2>1. old.dbf = 0 /\ old.fpt = 0
    BY <1>1, <1>2 DEF OpenHandle, HandlesAtStep
  <2>2. PICK r : r = [old EXCEPT !.step = "head", !.dbf = Len(handles')]
    OBVIOUS
  <2>3. r.dbf = Len(handles') /\ r.fpt = 0 /\ r.step = "head"
    BY <1>1, <2>1, <2>2 DEF CallSet
  <2>4. \/ NewHandle(p, "dbf") /\ Goto(c, r) /\ UNCHANGED files
        \/ Fail(c) /\ UNCHANGED handles
    BY <1>2, <2>2 DEF OpenHandle
  <2> QED
    BY <1>1, <2>1, <2>3, <2>4, TableTaken, FailMoves
<1>3. CASE ReadHead(c)
  <2>1. old.fpt = 0 /\ handles' = handles
    BY <1>1, <1>3 DEF ReadHead, HandlesAtStep
  <2>2. \/ Fail(c) \/ Opened(c)
        \/ Goto(c, [old EXCEPT !.step = "related"]) /\ UNCHANGED files
    BY <1>3 DEF ReadHead
  <2>3. old.dbf # 0 \/ configs'[old.cfg].source # "file"
    <3>1. SourcesKept
      BY <1>1, SourcesAreKept
    <3> QED
      BY <1>1, <1>3, <3>1 DEF ReadHead, TableFirst, SourcesKept
  <2> QED
    BY <1>1, <2>1, <2>2, <2>3, FailMoves, OpenedMoves, StepMoves
<1>4. CASE OpenRelated(c)
  <2>1. old.fpt = 0
    BY <1>1, <1>4 DEF OpenRelated, HandlesAtStep
  <2>2. PICK r : r = [old EXCEPT !.step = "memohead", !.fpt = Len(handles')]
    OBVIOUS
  <2>3. r.dbf = old.dbf /\ r.fpt = Len(handles') /\ r.step = "memohead"
    BY <1>1, <2>2 DEF CallSet
  <2>4. \/ NewHandle(p, "fpt") /\ Goto(c, r) /\ UNCHANGED files /\ old.dbf # 0
        \/ Goto(c, [old EXCEPT !.step = "memohead"]) /\ UNCHANGED <<handles, files>>
        \/ Fail(c) /\ UNCHANGED handles
    BY <1>1, <1>4, <2>2 DEF OpenRelated, TableFirst
  <2> QED
    BY <1>1, <2>1, <2>3, <2>4, MemoTaken, FailMoves, StepMoves
<1>5. CASE ReadMemoHead(c)
  BY <1>1, <1>5, FailMoves, OpenedMoves DEF ReadMemoHead
<1> QED
  BY <1>2, <1>3, <1>4, <1>5

LEMMA CreatedMoves ==
  ASSUME DInv, NEW c \in Callers, Step(c), Creating(call[c]), Created(c),
         UNCHANGED <<handles, dbs>>
  PROVE  Moves(c)
<1> DEFINE old == call[c]
           k == Len(files) + 1
<1>1. Inv /\ StepOK(c, old) /\ files \in Seq(FileSet)
  BY KnownOfCalls, Domains DEF DInv, DataOK
<1>2. PICK file : file = [cfg |-> old.cfg, dbf |-> old.dbf, fpt |-> old.fpt, path |-> old.path,
                          page |-> disk[old.path].page, held |-> "program"]
  OBVIOUS
<1>3. files' = Append(files, file)
  BY <1>2 DEF Created
<1>4. /\ DOMAIN files' = DOMAIN files \cup {k} /\ k \notin DOMAIN files /\ files'[k] = file
      /\ \A j \in DOMAIN files : files'[j] = files[j]
  BY <1>1, <1>3, AppendedToFiles
<1>5. call'[c] = NoCall
  BY <1>1, NowAt DEF Created
<1>6. GivesHandles(c)
  BY <1>2, <1>4, <1>5, NoCallHasNone DEF GivesHandles
<1> QED
  BY <1>1, <1>5, <1>6, MovesOn, NoCallHasNone DEF StepOK

LEMMA CreatingMoves ==
  ASSUME DInv, HandlesInv, NEW c \in Callers,
         \/ Stat(c) \/ MakeDbf(c) \/ MakeFpt(c) \/ WriteHead(c)
         \/ WriteColumns(c) \/ WriteMark(c) \/ WriteFill(c)
         \/ WriteMemoHead(c) \/ WriteMemoPad(c)
  PROVE  Moves(c)
<1> DEFINE old == call[c]
           p == old.path
<1>1. /\ Inv /\ old \in CallSet /\ HandlesAtStep(old) /\ TableFirst(old) /\ Step(c)
      /\ Creating(old) /\ old.op = "create" /\ dbs' = dbs
  BY KnownOfCalls, HandlesOfCall DEF DInv, Step, Stat, MakeDbf, MakeFpt, WriteHead,
     WriteColumns, WriteMark, WriteFill, WriteMemoHead, WriteMemoPad, StepOK, Creating
<1>2. CASE Stat(c)
  <2>1. old.dbf = 0 /\ old.fpt = 0
    BY <1>1, <1>2 DEF Stat, HandlesAtStep
  <2>2. /\ UNCHANGED <<handles, files>>
        /\ Return(c, "error") \/ Goto(c, [old EXCEPT !.step = "make"])
    BY <1>2 DEF Stat
  <2>3. CASE Return(c, "error")
    <3>1. call'[c] = NoCall /\ outcome'[c] = "error"
      BY <1>1, <2>3, NowAt, Domains DEF Return
    <3>2. DropsHandles(c)
      BY <1>1, <2>2, <3>1 DEF DropsHandles
    <3> QED
      BY <1>1, <3>1, <3>2, MovesOn, NoCallHasNone
  <2> QED
    BY <1>1, <2>1, <2>2, <2>3, StepMoves
<1>3. CASE MakeDbf(c)
  <2>1. old.dbf = 0 /\ old.fpt = 0
    BY <1>1, <1>3 DEF MakeDbf, HandlesAtStep
  <2>2. PICK step : step \in {"makefpt", "writehead"} /\ step = IF old.memo THEN "makefpt" ELSE "writehead"
    OBVIOUS
  <2>3. PICK r : r = [old EXCEPT !.dbf = Len(handles'), !.step = step]
    OBVIOUS
  <2>4. r.dbf = Len(handles') /\ r.fpt = 0 /\ r.step = step
    BY <1>1, <2>1, <2>3 DEF CallSet
  <2>5. NewHandle(p, "dbf") /\ Goto(c, r) /\ UNCHANGED files
    BY <1>3, <2>2, <2>3 DEF MakeDbf
  <2> QED
    BY <1>1, <2>1, <2>2, <2>4, <2>5, TableTaken
<1>4. CASE MakeFpt(c)
  <2>1. old.dbf # 0 /\ old.fpt = 0
    BY <1>1, <1>4 DEF MakeFpt, HandlesAtStep, TableFirst
  <2>2. PICK r : r = [old EXCEPT !.fpt = Len(handles'), !.step = "writehead"]
    OBVIOUS
  <2>3. r.dbf = old.dbf /\ r.fpt = Len(handles') /\ r.step = "writehead"
    BY <1>1, <2>2 DEF CallSet
  <2>4. NewHandle(p, "fpt") /\ Goto(c, r) /\ UNCHANGED files
    BY <1>4, <2>2 DEF MakeFpt
  <2> QED
    BY <1>1, <2>1, <2>3, <2>4, MemoTaken
<1>5. CASE WriteHead(c)
  BY <1>1, <1>5, StepMoves DEF WriteHead
<1>6. CASE WriteColumns(c)
  BY <1>1, <1>6, StepMoves DEF WriteColumns
<1>7. CASE WriteMark(c)
  BY <1>1, <1>7, StepMoves DEF WriteMark
<1>8. CASE WriteFill(c)
  BY <1>1, <1>8, StepMoves, CreatedMoves DEF WriteFill
<1>9. CASE WriteMemoHead(c)
  BY <1>1, <1>9, StepMoves DEF WriteMemoHead
<1>10. CASE WriteMemoPad(c)
  BY <1>1, <1>10, CreatedMoves DEF WriteMemoPad
<1> QED
  BY <1>2, <1>3, <1>4, <1>5, <1>6, <1>7, <1>8, <1>9, <1>10

LEMMA NextFileMoves ==
  ASSUME DInv, HandlesInv, NEW c \in Callers, CloseNext(c)
  PROVE  Moves(c)
<1> DEFINE old == call[c]
           db == dbs[old.db]
<1>1. /\ Inv /\ old \in CallSet /\ StepOK(c, old) /\ HandlesAtStep(old)
      /\ old.step = "next" /\ old.op = "closedb"
      /\ UNCHANGED <<handles, files, dbs>>
  BY KnownOfCalls, HandlesOfCall DEF DInv, CloseNext, StepOK
<1>2. PICK r : /\ Goto(c, r)
               /\ \/ \E n \in old.left :
                       r = [old EXCEPT !.step = "closedbf", !.left = @ \ {n}, !.file = db.tables[n]]
                  \/ r = [old EXCEPT !.step = "closedbf", !.file = db.main]
  BY DEF CloseNext
<1>3. /\ r.dbf = 0 /\ r.fpt = 0 /\ r.step = "closedbf" /\ r.op = "closedb" /\ r.db = old.db
      /\ r.left \subseteq old.left
      /\ (\E n \in old.left : r.file = db.tables[n]) \/ r.file = db.main
  <2>1. old.dbf = 0 /\ old.fpt = 0
    BY <1>1 DEF HandlesAtStep
  <2>2. CASE r = [old EXCEPT !.step = "closedbf", !.file = db.main]
    BY <1>1, <2>1, <2>2 DEF CallSet
  <2>3. ASSUME NEW n \in old.left,
               r = [old EXCEPT !.step = "closedbf", !.left = @ \ {n}, !.file = db.tables[n]]
        PROVE  /\ r.dbf = 0 /\ r.fpt = 0 /\ r.step = "closedbf" /\ r.op = "closedb"
               /\ r.db = old.db /\ r.left \subseteq old.left /\ r.file = db.tables[n]
    <3>1. PICK left, file : left = old.left \ {n} /\ file = db.tables[n]
      OBVIOUS
    <3>2. r = [old EXCEPT !.step = "closedbf", !.left = left, !.file = file]
      BY <2>3, <3>1
    <3> QED
      BY <1>1, <2>1, <3>1, <3>2 DEF CallSet
  <2> QED
    BY <1>2, <2>2, <2>3
<1>4. call'[c] = r
  BY <1>1, <1>2, NowAt
<1>5. r.file \in OfDatabase(old.db)
  <2>1. old.left \subseteq {n \in Names : db.tables[n] # 0}
    BY <1>1 DEF StepOK
  <2> QED
    BY <1>3, <2>1 DEF OfDatabase
<1>6. ClosesOwn(call[c])'
  BY <1>1, <1>3, <1>4, <1>5 DEF ClosesOwn, OfDatabase
<1>7. HandlesAtStep(call'[c]) /\ TableFirst(call[c])' /\ KeepsHandles(c) /\ GoesOnClosing(c)
  BY <1>1, <1>3, <1>4 DEF HandlesAtStep, TableFirst, KeepsHandles, GoesOnClosing
<1> QED
  BY <1>3, <1>4, <1>6, <1>7 DEF Moves

LEMMA StepsMove ==
  ASSUME DInv, HandlesInv, NEW c \in Callers, Begin(c) \/ Step(c),
         ~CloseDbf(c), ~CloseFpt(c)
  PROVE  Moves(c)
BY BeginMoves, RowMoves, OpeningMoves, CreatingMoves, NextFileMoves DEF Step

(***************************************************************************)
(* The invariant of the handles.                                           *)
(***************************************************************************)
SameOpen == /\ DOMAIN handles \subseteq DOMAIN handles'
            /\ \A h \in DOMAIN handles : handles'[h].open = handles[h].open

(* A File has the same handles, and only an OpenDatabase that lets it go   *)
(* changes who has it.                                                     *)
SameHolders ==
  /\ DOMAIN files \subseteq DOMAIN files'
  /\ \A k \in DOMAIN files :
       /\ files'[k].dbf = files[k].dbf /\ files'[k].fpt = files[k].fpt
       /\ files'[k].held \in Callers => files'[k].held = files[k].held
       /\ files[k].held \notin Callers => files'[k].held = files[k].held

NewFile(c) ==
  \A k \in DOMAIN files' \ DOMAIN files :
    /\ files'[k].dbf = call[c].dbf /\ files'[k].fpt = call[c].fpt
    /\ call'[c].dbf = 0 /\ call'[c].fpt = 0
    /\ k = Len(files) + 1

NewHandles(c) ==
  /\ MemoAfterTable(call'[c]) /\ AllOpen(call[c])'
  /\ HandlesOf(call'[c]) \subseteq HandlesOf(call[c]) \cup (DOMAIN handles' \ DOMAIN handles)

LEMMA HandlesOfAll ==
  ASSUME Inv
  PROVE  /\ \A c \in Callers : HandlesOf(call[c]) \subseteq DOMAIN handles
         /\ \A k \in DOMAIN files : HandlesOf(files[k]) \subseteq DOMAIN handles
<1>1. \A c \in Callers : call[c].dbf \in 0..Len(handles) /\ call[c].fpt \in 0..Len(handles)
  BY Domains DEF CallSet
<1> QED
  BY <1>1, Domains, KnownOfFiles DEF HandlesOf

LEMMA HeldBy ==
  /\ "program" \notin Callers /\ "table" \notin Callers /\ "main" \notin Callers
  /\ "lost" \notin Callers
BY FilesAssumption

LEMMA OpenedHolders ==
  ASSUME DInv, NEW c \in Callers, DatabaseOpened(c)
  PROVE  /\ DOMAIN files' = DOMAIN files
         /\ \A k \in DOMAIN files : files'[k].held = IF k = call[c].main THEN "main"
              ELSE IF files[k].held = c THEN "table" ELSE files[k].held
<1>1. \A k \in DOMAIN files : files[k] \in FileSet
  BY KnownOfFiles DEF DInv
<1> QED
  BY <1>1 DEF DatabaseOpened, FileSet

LEMMA MovesHolders ==
  ASSUME DInv, NEW c \in Callers, Moves(c), FilesKept(c)
  PROVE  SameHolders
<1>1. ASSUME NEW k \in DOMAIN files
      PROVE  /\ files'[k].held \in Callers => files'[k].held = files[k].held
             /\ files[k].held \notin Callers => files'[k].held = files[k].held
  <2>1. files[k].held \notin Callers => files'[k].held = files[k].held
    BY DEF FilesKept
  <2>2. CASE KeepsHandles(c) \/ TakesHandle(c)
    BY <2>2 DEF KeepsHandles, TakesHandle
  <2>3. CASE GivesHandles(c) \/ DropsHandles(c)
    BY <2>1, <2>3, HeldBy DEF GivesHandles, DropsHandles
  <2>4. CASE DatabaseOpened(c)
    BY <2>1, <2>4, OpenedHolders, HeldBy
  <2> QED
    BY <2>1, <2>2, <2>3, <2>4 DEF Moves
<1> QED
  BY <1>1 DEF SameHolders, FilesKept

LEMMA MovesDo ==
  ASSUME DInv, HandlesInv, NEW c \in Callers, Moves(c), FilesKept(c)
  PROVE  SameOpen /\ SameHolders /\ NewFile(c) /\ NewHandles(c)
<1>1. /\ Inv /\ MemoAfterTable(call[c]) /\ AllOpen(call[c]) /\ HandlesOf(call[c]) \subseteq DOMAIN handles
      /\ SameHolders /\ handles \in Seq(HandleSet) /\ DOMAIN handles = 1..Len(handles)
      /\ Len(handles) \in Nat
  BY HandlesOfCall, HandlesOfAll, MovesHolders, Domains DEF DInv, DataOK
<1>2. CASE KeepsHandles(c)
  <2>1. SameOpen /\ NewFile(c)
    BY <1>2 DEF KeepsHandles, SameOpen, NewFile
  <2>2. HandlesOf(call'[c]) = HandlesOf(call[c]) /\ MemoAfterTable(call'[c])
    BY <1>1, <1>2 DEF KeepsHandles, HandlesOf, MemoAfterTable
  <2>3. AllOpen(call[c])'
    BY <1>1, <1>2, <2>2 DEF KeepsHandles, AllOpen, HandlesOf
  <2> QED
    BY <1>1, <2>1, <2>2, <2>3 DEF NewHandles
<1>3. CASE TakesHandle(c)
  <2>1. PICK handle : handles' = Append(handles, handle) /\ handle.open
    BY <1>3 DEF TakesHandle, NewHandle
  <2>2. /\ DOMAIN handles' = 1..(Len(handles) + 1) /\ handles'[Len(handles) + 1] = handle
        /\ \A h \in DOMAIN handles : handles'[h] = handles[h]
    BY <1>1, <2>1
  <2>3. SameOpen /\ NewFile(c)
    BY <1>1, <1>3, <2>2 DEF TakesHandle, SameOpen, NewFile
  <2>4. /\ HandlesOf(call'[c]) = HandlesOf(call[c]) \cup {Len(handles) + 1}
        /\ MemoAfterTable(call'[c])
    <3>1. call[c].dbf \in 0..Len(handles) /\ Len(handles) + 1 # 0
      BY <1>1, Domains DEF CallSet
    <3>2. Len(handles) + 1 # call[c].dbf
      BY <1>1, <3>1
    <3> QED
      BY <1>3, <3>1, <3>2 DEF TakesHandle, HandlesOf, MemoAfterTable
  <2>5. \A h \in HandlesOf(call'[c]) : handles'[h].open
    BY <1>1, <2>1, <2>2, <2>4 DEF AllOpen
  <2> QED
    BY <1>1, <2>2, <2>3, <2>4, <2>5 DEF NewHandles, AllOpen, HandlesOf
<1>4. CASE call'[c].dbf = 0 /\ call'[c].fpt = 0 /\ handles' = handles /\ NewFile(c)
  BY <1>1, <1>4 DEF SameOpen, NewHandles, HandlesOf, MemoAfterTable, AllOpen
<1>5. CASE GivesHandles(c)
  BY <1>4, <1>5 DEF GivesHandles, NewFile
<1>6. CASE DropsHandles(c)
  BY <1>4, <1>6, NoCallHasNone DEF DropsHandles, NewFile
<1>7. CASE DatabaseOpened(c)
  <2>1. call'[c] = NoCall /\ handles' = handles
    BY <1>1, <1>7, NowAt DEF DatabaseOpened
  <2> QED
    BY <1>4, <1>7, <2>1, NoCallHasNone, OpenedHolders DEF NewFile
<1> QED
  BY <1>2, <1>3, <1>5, <1>6, <1>7 DEF Moves

LEMMA SameHandlesOf ==
  ASSUME SameHolders
  PROVE  \A k \in DOMAIN files : HandlesOf(files[k])' = HandlesOf(files[k])
BY DEF SameHolders, HandlesOf

LEMMA NewFileHandles ==
  ASSUME NEW c, NewFile(c)
  PROVE  \A k \in DOMAIN files' \ DOMAIN files :
           /\ HandlesOf(files[k])' = HandlesOf(call[c]) /\ HandlesOf(call[c])' = {}
           /\ k = Len(files) + 1
BY DEF NewFile, HandlesOf

LEMMA OtherCallsHandles ==
  ASSUME DInv, HandlesInv, NEW c \in Callers, SameOpen, SameHolders, NewFile(c), SourcesKept,
         Grown, NEW b \in Callers, b # c, call'[b] = call[b]
  PROVE  CallHandles(call[b])'
<1> DEFINE r == call[b]
<1>1. /\ Inv /\ StepOK(b, r) /\ HandlesAtStep(r) /\ TableFirst(r) /\ MemoAfterTable(r)
      /\ AllOpen(r) /\ ClosesOwn(r) /\ HandlesOf(r) \subseteq DOMAIN handles
      /\ \A k \in DOMAIN files : HandlesOf(files[k]) \cap HandlesOf(r) = {}
      /\ HandlesOf(call[c]) \cap HandlesOf(r) = {}
  BY KnownOfCalls, HandlesOfCall, HandlesOfAll DEF DInv, HandlesInv
<1>2. TableFirst(r)'
  BY <1>1 DEF TableFirst, StepOK, Opening, SourcesKept
<1>3. AllOpen(r)'
  BY <1>1 DEF AllOpen, HandlesOf, SameOpen
<1>4. ClosesOwn(r)'
  <2>1. Closing(r) => r.file \in DOMAIN files /\ r.op \in {"close", "closedb"}
    BY <1>1 DEF StepOK
  <2>2. r.op = "closedb" => OfDatabase(r.db)' = OfDatabase(r.db)
    BY <1>1 DEF StepOK, Grown, OfDatabase
  <2>3. r.step = "closefpt" => /\ files[r.file].fpt \in DOMAIN handles /\ Closing(r)
    BY <1>1, <2>1, KnownOfFiles DEF StepOK, Closing
  <2>4. Closing(r) /\ r.op = "close" => files'[r.file].held \in {"program", "table"}
    BY <1>1, <2>1, HeldBy DEF SameHolders, ClosesOwn
  <2>5. r.step = "closefpt" => handles'[files'[r.file].fpt].open
    BY <1>1, <2>1, <2>3 DEF SameOpen, SameHolders, ClosesOwn
  <2>6. Closing(r) /\ r.op # "close" => r.file \in OfDatabase(r.db)'
    BY <1>1, <2>1, <2>2 DEF ClosesOwn
  <2> QED
    BY <2>4, <2>5, <2>6 DEF ClosesOwn, Closing
<1>5. \A k \in DOMAIN files' : HandlesOf(files[k])' \cap HandlesOf(r) = {}
  BY <1>1, SameHandlesOf, NewFileHandles
<1> QED
  BY <1>1, <1>2, <1>3, <1>4, <1>5
     DEF CallHandles, HandlesAtStep, MemoAfterTable, TableFirst, AllOpen, ClosesOwn, HandlesOf,
         Closing, OfDatabase

LEMMA FilesHandles ==
  ASSUME DInv, HandlesInv, NEW c \in Callers, SameOpen, SameHolders, NewFile(c)
  PROVE  /\ \A k \in DOMAIN files' : FileHandles(files[k])'
         /\ \A j, k \in DOMAIN files' : j # k =>
              HandlesOf(files[j])' \cap HandlesOf(files[k])' = {}
<1>1. /\ Inv /\ MemoAfterTable(call[c]) /\ AllOpen(call[c])
      /\ HandlesOf(call[c]) \subseteq DOMAIN handles
      /\ \A k \in DOMAIN files : HandlesOf(files[k]) \cap HandlesOf(call[c]) = {}
      /\ \A j, k \in DOMAIN files : j # k => HandlesOf(files[j]) \cap HandlesOf(files[k]) = {}
  BY HandlesOfCall, HandlesOfAll DEF DInv, HandlesInv
<1>2. ASSUME NEW k \in DOMAIN files PROVE FileHandles(files[k])'
  <2>1. /\ FileHandles(files[k]) /\ HandlesOf(files[k]) \subseteq DOMAIN handles
        /\ files'[k].dbf = files[k].dbf /\ files'[k].fpt = files[k].fpt
    BY <1>1, HandlesOfAll DEF HandlesInv, SameHolders
  <2>2. AllOpen(files[k]) => AllOpen(files[k])'
    BY <2>1 DEF AllOpen, HandlesOf, SameOpen
  <2>3. files[k].fpt # 0 =>
          /\ files[k].dbf # 0 /\ files[k].dbf # files[k].fpt
          /\ handles'[files[k].dbf].open = handles[files[k].dbf].open
          /\ handles'[files[k].fpt].open = handles[files[k].fpt].open
    BY <2>1 DEF FileHandles, MemoAfterTable, HandlesOf, SameOpen
  <2>4. files'[k].held \in Callers => files[k].held \in Callers
    BY DEF SameHolders
  <2> QED
    BY <2>1, <2>2, <2>3, <2>4 DEF FileHandles, MemoAfterTable
<1>3. ASSUME NEW k \in DOMAIN files' \ DOMAIN files PROVE FileHandles(files[k])'
  <2>1. files'[k].dbf = call[c].dbf /\ files'[k].fpt = call[c].fpt
    BY DEF NewFile
  <2>2. \A h \in HandlesOf(call[c]) : handles'[h].open
    BY <1>1 DEF AllOpen, SameOpen
  <2>3. MemoAfterTable(files[k])' /\ AllOpen(files[k])'
    BY <1>1, <2>1, <2>2 DEF MemoAfterTable, AllOpen, HandlesOf
  <2>4. files'[k].fpt # 0 => handles'[files'[k].fpt].open
    BY <2>3 DEF AllOpen, HandlesOf
  <2> QED
    BY <2>3, <2>4 DEF FileHandles
<1> QED
  BY <1>1, <1>2, <1>3, SameHandlesOf, NewFileHandles

LEMMA HandlesMove ==
  ASSUME DInv, HandlesInv, NEW c \in Callers, Begin(c) \/ Step(c), Moves(c)
  PROVE  HandlesInv'
<1>1. /\ Inv /\ FilesKept(c) /\ SourcesKept /\ Local(c) /\ Grown
      /\ \A b \in Callers : b # c => call'[b] = call[b]
  BY FilesAreKept, SourcesAreKept, StepsAreLocal DEF DInv, Local
<1>2. SameOpen /\ SameHolders /\ NewFile(c) /\ NewHandles(c)
  BY <1>1, MovesDo
<1>3. ASSUME NEW b \in Callers, b # c PROVE CallHandles(call[b])'
  BY <1>1, <1>2, <1>3, OtherCallsHandles
<1>4. \A b \in Callers : HandlesOf(call[b]) \subseteq DOMAIN handles
      /\ \A k \in DOMAIN files : HandlesOf(files[k]) \subseteq DOMAIN handles
  BY <1>1, HandlesOfAll
<1>5. \A b \in Callers : b # c => HandlesOf(call[b])' = HandlesOf(call[b])
                                 /\ HandlesOf(call[c]) \cap HandlesOf(call[b]) = {}
  BY <1>1 DEF HandlesOf, HandlesInv
<1>6. CallHandles(call[c])'
  <2>1. \A k \in DOMAIN files : HandlesOf(files[k]) \cap HandlesOf(call[c]) = {}
    BY HandlesOfCall
  <2>2. HandlesOf(call[c])' \subseteq HandlesOf(call[c]) \cup (DOMAIN handles' \ DOMAIN handles)
    BY <1>2 DEF NewHandles, HandlesOf
  <2>3. \A k \in DOMAIN files' : HandlesOf(files[k])' \cap HandlesOf(call[c])' = {}
    BY <1>2, <1>4, <2>1, <2>2, SameHandlesOf, NewFileHandles
  <2>4. /\ HandlesAtStep(call[c])' /\ TableFirst(call[c])' /\ MemoAfterTable(call[c])'
        /\ AllOpen(call[c])' /\ ClosesOwn(call[c])'
    BY <1>2 DEF Moves, NewHandles, HandlesAtStep, MemoAfterTable
  <2> QED
    BY <2>3, <2>4 DEF CallHandles
<1>7. \A b \in Callers : CallHandles(call[b])'
  BY <1>3, <1>6
<1>8. \A b, d \in Callers : b # d =>
        /\ HandlesOf(call[b])' \cap HandlesOf(call[d])' = {}
        /\ call'[b].step = "closefpt" /\ call'[d].step = "closefpt" =>
             call'[b].file # call'[d].file
  <2>1. HandlesOf(call[c])' \subseteq HandlesOf(call[c]) \cup (DOMAIN handles' \ DOMAIN handles)
        /\ call'[c].step # "closefpt"
    BY <1>2 DEF NewHandles, HandlesOf, Moves
  <2>2. \A b \in Callers : b # c => HandlesOf(call[c])' \cap HandlesOf(call[b])' = {}
    BY <1>4, <1>5, <2>1
  <2>3. \A b, d \in Callers : b # d =>
          /\ HandlesOf(call[b]) \cap HandlesOf(call[d]) = {}
          /\ call[b].step = "closefpt" /\ call[d].step = "closefpt" =>
               call[b].file # call[d].file
    BY DEF HandlesInv
  <2> QED
    BY <1>1, <1>5, <2>1, <2>2, <2>3
<1> QED
  BY <1>2, <1>7, <1>8, FilesHandles DEF HandlesInv

(* A step closes handle x, of the File it is at, or none. *)
Closes1(x) ==
  /\ DOMAIN handles' = DOMAIN handles
  /\ \A h \in DOMAIN handles : handles'[h].open <=> handles[h].open /\ h # x

CloserOf(c, x) ==
  LET k == call[c].file IN
  x # 0 => /\ k \in DOMAIN files /\ files[k].held \notin Callers
           /\ \/ x = files[k].dbf
              \/ x = files[k].fpt /\ call[c].step = "closefpt"

(* After it the call is over, at the next File or at the memo handle. *)
AfterClose(c) ==
  /\ call'[c].dbf = 0 /\ call'[c].fpt = 0
  /\ call'[c].step \in {"idle", "next", "closefpt"}
  /\ ClosesOwn(call[c])'
  /\ call'[c].step = "closefpt" =>
       LET f == files[call'[c].file] IN f.dbf # 0 => handles[f.dbf].open

HInv == ClInv /\ HandlesInv

(* A memo handle is closed after the table's. *)
LEMMA MemoIsLast ==
  ASSUME HInv, NEW b \in Callers, call[b].step = "closefpt"
  PROVE  LET f == files[call[b].file] IN
         /\ call[b].file \in DOMAIN files /\ f.fpt # 0 /\ f.dbf # 0 /\ f.dbf # f.fpt
         /\ f.dbf \in DOMAIN handles /\ f.fpt \in DOMAIN handles
         /\ ~handles[f.dbf].open /\ handles[f.fpt].open
<1>1. /\ Inv /\ StepOK(b, call[b]) /\ ClosedAt(call[b]) /\ ClosesOwn(call[b])
      /\ call[b].file \in DOMAIN files
  BY KnownOfCalls, HandlesOfCall DEF HInv, ClInv, DInv, ClosingInv, StepOK, Closing
<1>2. FileHandles(files[call[b].file])
  BY <1>1 DEF HInv, HandlesInv
<1> QED
  BY <1>1, <1>2, KnownOfFiles DEF StepOK, ClosedAt, ClosesOwn, FileHandles, MemoAfterTable

LEMMA ShutFiles ==
  ASSUME HInv, NEW c \in Callers, NEW x, Closes1(x), CloserOf(c, x), SameHolders,
         DOMAIN files' = DOMAIN files
  PROVE  /\ \A k \in DOMAIN files' : FileHandles(files[k])'
         /\ \A j, k \in DOMAIN files' : j # k =>
              HandlesOf(files[j])' \cap HandlesOf(files[k])' = {}
<1> DEFINE i == call[c].file
<1>1. /\ Inv /\ \A k \in DOMAIN files : FileHandles(files[k])
      /\ \A k \in DOMAIN files : HandlesOf(files[k]) \subseteq DOMAIN handles
      /\ \A j, k \in DOMAIN files : j # k => HandlesOf(files[j]) \cap HandlesOf(files[k]) = {}
  BY HandlesOfAll DEF HInv, ClInv, DInv, HandlesInv
<1>2. ASSUME NEW k \in DOMAIN files PROVE FileHandles(files[k])'
  <2>1. /\ FileHandles(files[k]) /\ HandlesOf(files[k]) \subseteq DOMAIN handles
        /\ files'[k].dbf = files[k].dbf /\ files'[k].fpt = files[k].fpt
    BY <1>1 DEF SameHolders
  <2>2. (k = i /\ x # 0) \/ x \notin HandlesOf(files[k])
    BY <1>1 DEF CloserOf, HandlesOf
  <2>3. CASE x \notin HandlesOf(files[k])
    <3>1. \A h \in HandlesOf(files[k]) : handles'[h].open <=> handles[h].open
      BY <2>1, <2>3 DEF Closes1
    <3>2. AllOpen(files[k]) => AllOpen(files[k])'
      BY <2>1, <3>1 DEF AllOpen, HandlesOf
    <3>3. files[k].fpt # 0 =>
            /\ files[k].dbf # 0 /\ files[k].dbf # files[k].fpt
            /\ handles'[files[k].dbf].open <=> handles[files[k].dbf].open
            /\ handles'[files[k].fpt].open <=> handles[files[k].fpt].open
      BY <2>1, <3>1 DEF FileHandles, MemoAfterTable, HandlesOf
    <3>4. files'[k].held \in Callers => files[k].held \in Callers
      BY DEF SameHolders
    <3> QED
      BY <2>1, <3>2, <3>3, <3>4 DEF FileHandles, MemoAfterTable
  <2>4. CASE k = i /\ x # 0
    <3>1. files'[k].held \notin Callers
      BY <2>4 DEF CloserOf, SameHolders
    <3>2. files[k].fpt # 0 => ~handles'[files[k].dbf].open
      <4>1. CASE x = files[k].dbf
        BY <2>1, <2>4, <4>1 DEF Closes1, HandlesOf
      <4>2. CASE x # files[k].dbf
        <5>1. call[c].step = "closefpt"
          BY <2>4, <4>2 DEF CloserOf
        <5> QED
          BY <2>4, <5>1, MemoIsLast DEF Closes1
      <4> QED
        BY <4>1, <4>2
    <3> QED
      BY <2>1, <3>1, <3>2 DEF FileHandles, MemoAfterTable
  <2> QED
    BY <2>2, <2>3, <2>4
<1> QED
  BY <1>1, <1>2, SameHandlesOf

LEMMA ShutOthers ==
  ASSUME HInv, NEW c \in Callers, NEW x, Closes1(x), CloserOf(c, x), SameHolders,
         DOMAIN files' = DOMAIN files, SourcesKept, Grown,
         NEW b \in Callers, b # c, call'[b] = call[b]
  PROVE  CallHandles(call[b])'
<1> DEFINE r == call[b]
           i == call[c].file
<1>1. /\ DInv /\ Inv /\ StepOK(b, r) /\ HandlesAtStep(r) /\ TableFirst(r) /\ MemoAfterTable(r)
      /\ AllOpen(r) /\ ClosesOwn(r) /\ HandlesOf(r) \subseteq DOMAIN handles
      /\ \A k \in DOMAIN files : HandlesOf(files[k]) \cap HandlesOf(r) = {}
  BY KnownOfCalls, HandlesOfCall, HandlesOfAll DEF HInv, ClInv, DInv, HandlesInv
<1>2. TableFirst(r)'
  BY <1>1 DEF TableFirst, StepOK, Opening, SourcesKept
<1>3. AllOpen(r)'
  <2>1. x \notin HandlesOf(r)
    BY <1>1 DEF CloserOf, HandlesOf
  <2> QED
    BY <1>1, <2>1 DEF AllOpen, HandlesOf, Closes1
<1>4. ClosesOwn(r)'
  <2>1. Closing(r) => r.file \in DOMAIN files /\ r.op \in {"close", "closedb"}
    BY <1>1 DEF StepOK
  <2>2. r.op = "closedb" => OfDatabase(r.db)' = OfDatabase(r.db)
    BY <1>1 DEF StepOK, Grown, OfDatabase
  <2>3. Closing(r) /\ r.op = "close" => files'[r.file].held \in {"program", "table"}
    BY <1>1, <2>1, HeldBy DEF SameHolders, ClosesOwn
  <2>4. ASSUME r.step = "closefpt" PROVE handles'[files'[r.file].fpt].open
    <3> DEFINE k == r.file
    <3>1. /\ k \in DOMAIN files /\ files[k].fpt \in DOMAIN handles /\ handles[files[k].fpt].open
          /\ files[k].fpt # 0 /\ files[k].dbf # files[k].fpt
      BY <2>4, MemoIsLast
    <3>2. x # files[k].fpt
      <4>1. SUFFICES ASSUME x = files[k].fpt PROVE FALSE
        OBVIOUS
      <4>2. i \in DOMAIN files /\ x \in HandlesOf(files[i]) /\ x \in HandlesOf(files[k])
        BY <3>1, <4>1 DEF CloserOf, HandlesOf
      <4>3. i = k
        BY <3>1, <4>2 DEF HInv, HandlesInv
      <4>4. call[c].step = "closefpt"
        BY <3>1, <4>1, <4>3 DEF CloserOf
      <4> QED
        BY <2>4, <4>3, <4>4 DEF HInv, HandlesInv
    <3> QED
      BY <3>1, <3>2 DEF Closes1, SameHolders
  <2>5. Closing(r) /\ r.op # "close" => r.file \in OfDatabase(r.db)'
    BY <1>1, <2>1, <2>2 DEF ClosesOwn
  <2> QED
    BY <2>3, <2>4, <2>5 DEF ClosesOwn, Closing
<1>5. \A k \in DOMAIN files' : HandlesOf(files[k])' \cap HandlesOf(r) = {}
  BY <1>1, SameHandlesOf
<1> QED
  BY <1>1, <1>2, <1>3, <1>4, <1>5
     DEF CallHandles, HandlesAtStep, MemoAfterTable, TableFirst, AllOpen, ClosesOwn, HandlesOf,
         Closing, OfDatabase

LEMMA HandlesShut ==
  ASSUME HInv, NEW c \in Callers, NEW x, Closes1(x), CloserOf(c, x), AfterClose(c),
         SameHolders, DOMAIN files' = DOMAIN files, SourcesKept, Local(c)
  PROVE  HandlesInv'
<1>1. Grown /\ \A b \in Callers : b # c => call'[b] = call[b]
  BY DEF Local
<1>2. \A b \in Callers : b # c => CallHandles(call[b])'
  BY <1>1, ShutOthers
<1>3. HandlesOf(call[c])' = {}
  BY DEF AfterClose, HandlesOf
<1>4. CallHandles(call[c])'
  BY <1>3 DEF CallHandles, AfterClose, HandlesAtStep, TableFirst, MemoAfterTable, AllOpen
<1>5. \A b \in Callers : b # c => HandlesOf(call[b])' = HandlesOf(call[b])
  BY <1>1 DEF HandlesOf
<1>6. ASSUME NEW b \in Callers, b # c, call'[b].step = "closefpt", call'[c].step = "closefpt"
      PROVE  call'[b].file # call'[c].file
  BY <1>1, <1>6, MemoIsLast DEF AfterClose
<1>7. \A b, d \in Callers : b # d =>
        /\ HandlesOf(call[b]) \cap HandlesOf(call[d]) = {}
        /\ call[b].step = "closefpt" /\ call[d].step = "closefpt" =>
             call[b].file # call[d].file
  BY DEF HInv, HandlesInv
<1>8. \A b, d \in Callers : b # d =>
        /\ HandlesOf(call[b])' \cap HandlesOf(call[d])' = {}
        /\ call'[b].step = "closefpt" /\ call'[d].step = "closefpt" =>
             call'[b].file # call'[d].file
  BY <1>1, <1>3, <1>5, <1>6, <1>7
<1> QED
  BY <1>2, <1>4, <1>8, ShutFiles DEF HandlesInv

LEMMA CloserFields ==
  ASSUME HInv, NEW c \in Callers, Closing(call[c])
  PROVE  LET k == call[c].file IN
         /\ Inv /\ call[c] \in CallSet /\ StepOK(c, call[c]) /\ ClosesOwn(call[c])
         /\ call[c].op \in {"close", "closedb"}
         /\ call[c].dbf = 0 /\ call[c].fpt = 0 /\ k \in DOMAIN files
         /\ files[k].dbf # 0 => files[k].dbf \in DOMAIN handles
         /\ files[k].fpt # 0 => files[k].fpt \in DOMAIN handles
         /\ files[k].held \in {"program", "table", "main"}
<1> DEFINE r == call[c]
           k == r.file
<1>1. /\ Inv /\ r \in CallSet /\ StepOK(c, r) /\ ClosesOwn(r) /\ HandlesAtStep(r)
      /\ \A d \in DOMAIN dbs : DatabaseAt(dbs[d])
  BY KnownOfCalls, HandlesOfCall, DatabasesHave DEF HInv, ClInv, DInv, CatalogInv
<1>2. r.dbf = 0 /\ r.fpt = 0 /\ k \in DOMAIN files /\ r.op \in {"close", "closedb"}
  BY <1>1 DEF HandlesAtStep, StepOK, Closing
<1>3. r.op = "closedb" => files[k].held \in {"table", "main"}
  <2>1. SUFFICES ASSUME r.op = "closedb" PROVE files[k].held \in {"table", "main"}
    OBVIOUS
  <2>2. PICK db : db = dbs[r.db]
    OBVIOUS
  <2>3. DatabaseAt(db)
    BY <1>1, <2>1, <2>2 DEF StepOK
  <2>4. k = db.main \/ \E n \in Names : k = db.tables[n] /\ db.tables[n] # 0
    BY <1>1, <2>1, <2>2 DEF ClosesOwn, OfDatabase
  <2>5. files[db.main].held = "main"
        /\ \A n \in Names : db.tables[n] # 0 => files[db.tables[n]].held = "table"
    BY <2>3, Zenon DEF DatabaseAt
  <2> QED
    BY <2>4, <2>5
<1>4. r.op = "close" => files[k].held \in {"program", "table"}
  BY <1>1 DEF ClosesOwn
<1> QED
  BY <1>1, <1>2, <1>3, <1>4, KnownOfFiles

LEMMA AfterNone ==
  ASSUME Inv, NEW c, call'[c] = NoCall
  PROVE  AfterClose(c)
BY NoCallHasNone DEF AfterClose, ClosesOwn, Closing

(* The handles of the operating system without one. *)
LEMMA OneClosed ==
  ASSUME Inv, NEW x,
         \/ handles' = handles /\ x = 0
         \/ handles' = [i \in DOMAIN handles |-> [handles[i] EXCEPT !.open = @ /\ i # x]]
         \/ x \in DOMAIN handles /\ handles' = [handles EXCEPT ![x].open = FALSE]
  PROVE  Closes1(x)
<1>1. handles \in Seq(HandleSet) /\ DOMAIN handles = 1..Len(handles)
  BY Domains DEF DataOK
<1>2. \A h \in DOMAIN handles : handles[h] \in HandleSet
  BY <1>1, MemberOfSeq
<1>3. CASE handles' = handles /\ x = 0
  BY <1>1, <1>3 DEF Closes1
<1>4. CASE handles' = [i \in DOMAIN handles |-> [handles[i] EXCEPT !.open = @ /\ i # x]]
  <2>1. ASSUME NEW h \in DOMAIN handles, NEW new, new = [handles[h] EXCEPT !.open = @ /\ h # x]
        PROVE  new.open <=> handles[h].open /\ h # x
    BY <1>2, <2>1 DEF HandleSet
  <2>2. DOMAIN handles' = DOMAIN handles
    BY <1>4
  <2>3. \A h \in DOMAIN handles : handles'[h] = [handles[h] EXCEPT !.open = @ /\ h # x]
    BY <1>4
  <2> QED
    BY <2>1, <2>2, <2>3, Zenon DEF Closes1
<1>5. CASE x \in DOMAIN handles /\ handles' = [handles EXCEPT ![x].open = FALSE]
  <2>1. /\ DOMAIN handles' = DOMAIN handles
        /\ \A h \in DOMAIN handles : handles'[h] = IF h = x
             THEN [handles[h] EXCEPT !.open = FALSE] ELSE handles[h]
    BY <1>5
  <2>2. \A h \in DOMAIN handles : [handles[h] EXCEPT !.open = FALSE].open = FALSE
    BY <1>2 DEF HandleSet
  <2> QED
    BY <2>1, <2>2 DEF Closes1
<1> QED
  BY <1>3, <1>4, <1>5

LEMMA UnchangedHolders ==
  ASSUME files' = files
  PROVE  SameHolders
BY DEF SameHolders

LEMMA GoesOnAfter ==
  ASSUME HInv, NEW c \in Callers, Closing(call[c]), files' = files, dbs' = dbs, FileClosed(c)
  PROVE  AfterClose(c)
<1>1. Inv /\ call[c] \in CallSet /\ call[c].dbf = 0 /\ call[c].fpt = 0
  BY CloserFields
<1>2. PICK r : r = [call[c] EXCEPT !.step = "next"]
  OBVIOUS
<1>3. r.dbf = 0 /\ r.fpt = 0 /\ r.step = "next"
  BY <1>1, <1>2 DEF CallSet
<1>4. Goto(c, r) \/ Return(c, "ok")
  BY <1>2 DEF FileClosed
<1>5. call'[c] = r \/ call'[c] = NoCall
  BY <1>1, <1>4, NowAt
<1>6. CASE call'[c] = r
  BY <1>3, <1>6 DEF AfterClose, ClosesOwn, Closing
<1> QED
  BY <1>1, <1>5, <1>6, AfterNone

LEMMA CloseDbfHandles ==
  ASSUME HInv, NEW c \in Callers, CloseDbf(c)
  PROVE  HandlesInv'
<1> DEFINE old == call[c]
           k == old.file
           x == files[k].dbf
<1>1. /\ Closing(old) /\ files' = files /\ dbs' = dbs /\ SameHolders /\ Inv /\ SourcesKept /\ Local(c)
      /\ files[k].held \notin Callers /\ k \in DOMAIN files /\ old \in CallSet /\ ClosesOwn(old)
      /\ old.dbf = 0 /\ old.fpt = 0 /\ StepOK(c, old) /\ old.step = "closedbf"
      /\ x # 0 => x \in DOMAIN handles
      /\ files[k].fpt # 0 => files[k].fpt \in DOMAIN handles
  <2>1. Closing(old) /\ Step(c)
    BY DEF CloseDbf, Closing, Step
  <2> QED
    BY <2>1, CloserFields, UnchangedHolders, SourcesAreKept, StepsAreLocal, HeldBy DEF CloseDbf
<1>2. CASE Return(c, "error") /\ UNCHANGED handles
  <2>1. AfterClose(c)
    BY <1>1, <1>2, NowAt, AfterNone
  <2>2. Closes1(0) /\ CloserOf(c, 0)
    BY <1>1, <1>2, OneClosed DEF CloserOf
  <2> QED
    BY <1>1, <2>1, <2>2, HandlesShut
<1>3. ASSUME handles' = [i \in DOMAIN handles |-> [handles[i] EXCEPT !.open = @ /\ i # x]],
             x = 0 \/ handles[x].open,
             IF AfterDbf(k) THEN Goto(c, [old EXCEPT !.step = "closefpt"]) ELSE FileClosed(c)
      PROVE  HandlesInv'
  <2>1. Closes1(x) /\ CloserOf(c, x)
    BY <1>1, <1>3, OneClosed DEF CloserOf
  <2>2. AfterClose(c)
    <3>1. CASE ~AfterDbf(k)
      BY <1>1, <1>3, <3>1, GoesOnAfter
    <3>2. CASE AfterDbf(k)
      <4>1. PICK r : r = [old EXCEPT !.step = "closefpt"]
        OBVIOUS
      <4>2. /\ r.dbf = 0 /\ r.fpt = 0 /\ r.step = "closefpt" /\ r.file = k /\ r.op = old.op
            /\ r.db = old.db
        BY <1>1, <4>1 DEF CallSet
      <4>3. call'[c] = r
        BY <1>1, <1>3, <3>2, <4>1, NowAt
      <4>4. FileHandles(files[k]) /\ files[k].fpt # 0
        BY <1>1, <3>2 DEF HInv, HandlesInv, AfterDbf
      <4>5. x # 0 /\ x # files[k].fpt /\ handles[x].open /\ handles[files[k].fpt].open
        BY <1>3, <4>4 DEF FileHandles, MemoAfterTable
      <4>6. handles'[files[k].fpt].open
        BY <1>1, <2>1, <4>4, <4>5 DEF Closes1
      <4>7. ClosesOwn(call[c])'
        BY <1>1, <4>2, <4>3, <4>6 DEF ClosesOwn, Closing, OfDatabase
      <4> QED
        BY <4>2, <4>3, <4>5, <4>7 DEF AfterClose
    <3> QED
      BY <3>1, <3>2
  <2> QED
    BY <1>1, <2>1, <2>2, HandlesShut
<1> QED
  BY <1>2, <1>3 DEF CloseDbf

LEMMA CloseFptHandles ==
  ASSUME HInv, NEW c \in Callers, CloseFpt(c)
  PROVE  HandlesInv' /\ ~Return(c, "error")
<1> DEFINE old == call[c]
           k == old.file
           x == files[k].fpt
<1>1. /\ Closing(old) /\ files' = files /\ dbs' = dbs /\ SameHolders /\ Inv /\ SourcesKept /\ Local(c)
      /\ files[k].held \notin Callers /\ k \in DOMAIN files /\ old.step = "closefpt"
      /\ x \in DOMAIN handles /\ handles[x].open /\ outcome \in [Callers -> Outcomes]
      /\ old.step # "idle"
  <2>1. Closing(old) /\ Step(c) /\ old.step = "closefpt"
    BY DEF CloseFpt, Closing, Step
  <2> QED
    BY <2>1, CloserFields, MemoIsLast, UnchangedHolders, SourcesAreKept, StepsAreLocal, HeldBy,
       Domains DEF CloseFpt
<1>2. handles' = [handles EXCEPT ![x].open = FALSE] /\ FileClosed(c)
  BY <1>1 DEF CloseFpt
<1>3. Closes1(x) /\ CloserOf(c, x)
  BY <1>1, <1>2, OneClosed DEF CloserOf
<1>4. AfterClose(c)
  BY <1>1, <1>2, GoesOnAfter
<1>5. ~Return(c, "error")
  <2>1. CASE Return(c, "ok")
    BY <1>1, <2>1 DEF Return
  <2>2. CASE Goto(c, [old EXCEPT !.step = "next"])
    <3>1. PICK r : r = [old EXCEPT !.step = "next"]
      OBVIOUS
    <3>2. r.step = "next" /\ call'[c] = r
      BY <1>1, <2>2, <3>1, CloserFields, NowAt DEF CallSet
    <3> QED
      BY <1>1, <3>2, NowAt, NoCallHasNone
  <2> QED
    BY <1>2, <2>1, <2>2 DEF FileClosed
<1> QED
  BY <1>1, <1>3, <1>4, <1>5, HandlesShut

LEMMA IOFailsHandles ==
  ASSUME HInv, NEW c \in Callers, IOFails(c)
  PROVE  HandlesInv'
<1> DEFINE old == call[c]
           k == old.file
<1>1. /\ DInv /\ Inv /\ SourcesKept /\ Local(c) /\ files' = Dropped(c) /\ call'[c] = NoCall
      /\ FilesKept(c)
  BY SourcesAreKept, StepsAreLocal, FilesAreKept, NowAt DEF HInv, ClInv, DInv, IOFails, Fail
<1>2. SameHolders /\ DOMAIN files' = DOMAIN files
  <2>1. \A j \in DOMAIN files : [files[j] EXCEPT !.held = "lost"].held = "lost"
    <3>1. \A j \in DOMAIN files : files[j] \in FileSet
      BY <1>1, KnownOfFiles
    <3> QED
      BY <3>1 DEF FileSet
  <2>2. DOMAIN files' = DOMAIN files
        /\ \A j \in DOMAIN files : files'[j].held \in {files[j].held, "lost"}
    BY <1>1, <2>1, Zenon DEF Dropped
  <2> QED
    BY <1>1, <2>2, HeldBy DEF SameHolders, FilesKept
<1>3. AfterClose(c)
  BY <1>1, AfterNone
<1>4. PICK x : x = IF old.step = "closedbf" THEN files[k].dbf
                   ELSE IF old.step = "closefpt" THEN files[k].fpt ELSE 0
  OBVIOUS
<1>5. Closes1(x)
  <2>1. 0 \notin DOMAIN handles
    BY <1>1, Domains
  <2>2. \A i \in DOMAIN handles :
          i # x <=> ~ \/ old.step = "closedbf" /\ i = files[k].dbf
                      \/ old.step = "closefpt" /\ i = files[k].fpt
    BY <1>4, <2>1
  <2>3. handles' = [i \in DOMAIN handles |-> [handles[i] EXCEPT !.open = @ /\ i # x]]
    BY <2>2, Zenon DEF IOFails
  <2> QED
    BY <1>1, <2>3, OneClosed
<1>6. CloserOf(c, x)
  <2>1. Closing(old) => k \in DOMAIN files /\ files[k].held \notin Callers
    BY CloserFields, HeldBy
  <2> QED
    BY <1>4, <2>1 DEF CloserOf, Closing
<1> QED
  BY <1>1, <1>2, <1>3, <1>5, <1>6, HandlesShut

LEMMA HandlesInit == Init => HInv
<1> SUFFICES ASSUME Init PROVE HInv
  OBVIOUS
<1>1. \A c \in Callers : call[c] = NoCall
  BY DEF Init
<1>2. DOMAIN files = {}
  BY DEF Init
<1>3. \A c \in Callers : CallHandles(call[c]) /\ HandlesOf(call[c]) = {} /\ call[c].step # "closefpt"
  BY <1>1, <1>2, NoCallHasNone
     DEF CallHandles, HandlesOf, AllOpen, MemoAfterTable, ClosesOwn, Closing
<1> QED
  BY <1>2, <1>3, ClosingInit DEF HInv, HandlesInv

LEMMA HandlesNext ==
  ASSUME HInv, [Next]_vars
  PROVE  HInv'
<1>1. ClInv' /\ DInv /\ HandlesInv
  BY ClosingNext DEF HInv, ClInv
<1>2. ASSUME NEW c \in Callers, Begin(c) \/ Step(c) PROVE HandlesInv'
  <2>1. CASE CloseDbf(c) \/ CloseFpt(c)
    BY <2>1, CloseDbfHandles, CloseFptHandles
  <2>2. CASE ~CloseDbf(c) /\ ~CloseFpt(c)
    BY <1>1, <1>2, <2>2, StepsMove, HandlesMove
  <2> QED
    BY <2>1, <2>2
<1>3. CASE Crash
  <2>1. DOMAIN files' = {} /\ \A c \in Callers : call'[c] = NoCall
    BY <1>3 DEF Crash
  <2>2. \A c \in Callers : CallHandles(call[c])' /\ HandlesOf(call[c])' = {}
                           /\ call'[c].step # "closefpt"
    BY <2>1, NoCallHasNone
       DEF CallHandles, HandlesAtStep, TableFirst, HandlesOf, AllOpen, MemoAfterTable, ClosesOwn,
           Closing
  <2> QED
    BY <1>1, <2>1, <2>2 DEF HInv, HandlesInv
<1>4. CASE UNCHANGED vars
  <2>1. UNCHANGED <<handles, configs, files, dbs, call>>
    BY <1>4 DEF vars
  <2>2. /\ \A c \in Callers : CallHandles(call[c])'
        /\ \A k \in DOMAIN files' : FileHandles(files[k])'
    <3>1. ASSUME NEW k \in DOMAIN files' PROVE FileHandles(files[k])'
      BY <1>1, <2>1, <3>1 DEF HandlesInv, FileHandles, MemoAfterTable, AllOpen, HandlesOf
    <3>2. ASSUME NEW c \in Callers PROVE CallHandles(call[c])'
      <4>1. CallHandles(call[c])
        BY <1>1 DEF HandlesInv
      <4>2. (HandlesAtStep(call[c]) /\ TableFirst(call[c]) /\ ClosesOwn(call[c]))'
        BY <2>1, <4>1 DEF CallHandles, HandlesAtStep, TableFirst, ClosesOwn, Closing, OfDatabase
      <4>3. (MemoAfterTable(call[c]) /\ AllOpen(call[c]))'
        BY <2>1, <4>1 DEF CallHandles, MemoAfterTable, AllOpen, HandlesOf
      <4>4. (\A k \in DOMAIN files : HandlesOf(files[k]) \cap HandlesOf(call[c]) = {})'
        BY <2>1, <4>1 DEF CallHandles, HandlesOf
      <4> QED
        BY <4>2, <4>3, <4>4 DEF CallHandles
    <3> QED
      BY <3>1, <3>2
  <2>3. /\ \A j, k \in DOMAIN files' : j # k => HandlesOf(files[j])' \cap HandlesOf(files[k])' = {}
        /\ \A b, c \in Callers : b # c =>
             /\ HandlesOf(call[b])' \cap HandlesOf(call[c])' = {}
             /\ call'[b].step = "closefpt" /\ call'[c].step = "closefpt" =>
                  call'[b].file # call'[c].file
    BY <1>1, <2>1 DEF HandlesInv, HandlesOf
  <2> QED
    BY <1>1, <2>2, <2>3 DEF HInv, HandlesInv
<1> QED
  BY <1>1, <1>2, <1>3, <1>4, IOFailsHandles DEF Next, HInv

(***************************************************************************)
(* Who can close a handle.                                                 *)
(***************************************************************************)
OfCall(h) ==
  \E b \in Callers : \/ h \in {call[b].dbf, call[b].fpt}
                     \/ call[b].step = "closefpt" /\ h = files[call[b].file].fpt

InReach(h, f) == h = f.dbf \/ (h = f.fpt /\ handles[f.dbf].open)

OfFile(h) ==
  \E k \in DOMAIN files : InReach(h, files[k]) /\ files[k].held \in {"program", "table"} \cup Callers

OfMain(h) ==
  \E k \in DOMAIN files : /\ InReach(h, files[k]) /\ files[k].held = "main"
                          /\ \E d \in DOMAIN dbs : dbs[d].main = k /\ DatabaseCloses(d)

LEMMA Owners == \A h : Owned(h) <=> OfCall(h) \/ OfFile(h) \/ OfMain(h)
BY DEF Owned, OfCall, OfFile, OfMain, InReach

LEMMA OwnedNext == \A h : OfCall(h)' \/ OfFile(h)' \/ OfMain(h)' => Owned(h)'
BY DEF Owned, OfCall, OfFile, OfMain, InReach

LEMMA OfMainNext ==
  ASSUME NEW h, NEW k \in DOMAIN files', NEW d \in DOMAIN dbs', InReach(h, files[k])',
         files'[k].held = "main", dbs'[d].main = k, DatabaseCloses(d)'
  PROVE  OfMain(h)'
BY Zenon DEF OfMain

StillCloses(d) ==
  \A n \in Names : dbs[d].tables[n] # 0 /\ Closes(dbs[d].tables[n]) => Closes(dbs[d].tables[n])'

LEMMA KeepsClosing ==
  ASSUME Inv, NEW d \in DOMAIN dbs, dbs'[d] = dbs[d],
         ASSUME NEW j \in DOMAIN files, Closes(j), NEW n \in Names, dbs[d].tables[n] = j
         PROVE  Closes(j)'
  PROVE  StillCloses(d)
<1>1. ASSUME NEW n \in Names, dbs[d].tables[n] # 0, Closes(dbs[d].tables[n])
      PROVE  Closes(dbs[d].tables[n])'
  <2>1. PICK j \in DOMAIN files : j = dbs[d].tables[n]
    BY <1>1, KnownOfDatabases
  <2>2. Closes(j)'
    BY <1>1, <2>1
  <2> QED
    BY <2>1, <2>2 DEF Closes
<1> QED
  BY <1>1 DEF StillCloses

(* The call of c has no more to close of this Database than before. *)
NoMoreLeft(c, d) ==
  call[c].op = "closedb" /\ call[c].db = d =>
    /\ call'[c].op = "closedb" /\ call'[c].db = d /\ call'[c].left \subseteq call[c].left

LEMMA DatabaseStillCloses ==
  ASSUME Inv, NEW c \in Callers, Local(c), NEW d \in DOMAIN dbs, StillCloses(d),
         NoMoreLeft(c, d), DatabaseCloses(d)
  PROVE  DatabaseCloses(d)'
<1> DEFINE all == {n \in Names : dbs[d].tables[n] # 0}
           lefts == {call[b].left : b \in {e \in Callers : call[e].op = "closedb" /\ call[e].db = d}}
<1>1. dbs'[d] = dbs[d] /\ \A b \in Callers : b # c => call'[b] = call[b]
  BY DEF Local, Grown
<1>2. PICK left \in {all} \cup lefts : \A n \in left : Closes(dbs[d].tables[n])
  BY DEF DatabaseCloses
<1>3. left \subseteq all
  <2>1. ASSUME NEW b \in Callers, call[b].op = "closedb", call[b].db = d
        PROVE  call[b].left \subseteq all
    BY <2>1, Domains DEF StepOK
  <2> QED
    BY <2>1
<1>4. \A n \in left : Closes(dbs[d].tables[n])'
  BY <1>2, <1>3 DEF StillCloses
<1>5. \E more \in {all} \cup lefts' : more \subseteq left
  <2>1. CASE left = all
    BY <2>1
  <2>2. ASSUME NEW b \in Callers, call[b].op = "closedb", call[b].db = d, left = call[b].left
        PROVE  /\ call'[b].op = "closedb" /\ call'[b].db = d
               /\ call'[b].left \subseteq left
    BY <1>1, <2>2 DEF NoMoreLeft
  <2>3. ASSUME NEW b \in Callers, call[b].op = "closedb", call[b].db = d, left = call[b].left
        PROVE  call'[b].left \in lefts' /\ call'[b].left \subseteq left
    BY <2>2, <2>3
  <2> QED
    BY <1>2, <2>1, <2>3
<1>6. all' = all
  BY <1>1
<1>7. PICK more \in {all'} \cup lefts' : more \subseteq left
  BY <1>5, <1>6
<1>8. \A n \in more : Closes(dbs[d].tables[n])'
  BY <1>4, <1>7
<1>9. (\E more0 \in {all} \cup lefts : \A n \in more0 : Closes(dbs[d].tables[n]))'
  BY <1>7, <1>8 DEF Closes
<1> QED
  BY <1>9 DEF DatabaseCloses

(* Nothing that is open stays behind when a step keeps the Files with      *)
(* those who have them.                                                    *)
SameHeld == \A k \in DOMAIN files : files'[k].held = files[k].held

LEMMA ReachStays ==
  ASSUME HInv, SameOpen, SameHolders, NEW k \in DOMAIN files
  PROVE  /\ \A h \in DOMAIN handles : InReach(h, files[k]) => InReach(h, files[k])'
         /\ Closes(k) => Closes(k)'
<1>1. /\ Inv /\ files'[k].dbf = files[k].dbf /\ files'[k].fpt = files[k].fpt
      /\ FileHandles(files[k])
  BY DEF HInv, ClInv, DInv, HandlesInv, SameHolders
<1>2. /\ files[k].dbf # 0 => files[k].dbf \in DOMAIN handles
      /\ files[k].fpt # 0 => files[k].fpt \in DOMAIN handles /\ files[k].dbf # 0
  BY <1>1, KnownOfFiles DEF FileHandles, MemoAfterTable
<1>3. Closes(k) => Closes(k)'
  BY <1>1, <1>2 DEF Closes, SameOpen
<1>4. ASSUME NEW h \in DOMAIN handles, InReach(h, files[k]) PROVE InReach(h, files[k])'
  <2>1. h # 0
    BY <1>1, Domains
  <2> QED
    BY <1>1, <1>2, <1>4, <2>1 DEF InReach, SameOpen
<1> QED
  BY <1>3, <1>4

LEMMA FilesStayHeld ==
  ASSUME HInv, SameOpen, SameHolders, SameHeld, NEW h \in DOMAIN handles, OfFile(h)
  PROVE  OfFile(h)'
<1>1. PICK k \in DOMAIN files : InReach(h, files[k])
                               /\ files[k].held \in {"program", "table"} \cup Callers
  BY DEF OfFile
<1>2. /\ k \in DOMAIN files' /\ InReach(h, files[k])'
      /\ files'[k].held \in {"program", "table"} \cup Callers
  BY <1>1, ReachStays DEF SameHolders, SameHeld
<1> QED
  BY <1>2 DEF OfFile, InReach

LEMMA MainsStayHeld ==
  ASSUME HInv, NEW c \in Callers, Local(c), SameOpen, SameHolders, GoesOnClosing(c),
         NEW h \in DOMAIN handles, OfMain(h)
  PROVE  OfMain(h)'
<1>1. PICK k \in DOMAIN files, d \in DOMAIN dbs :
        /\ InReach(h, files[k]) /\ files[k].held = "main" /\ dbs[d].main = k /\ DatabaseCloses(d)
  BY DEF OfMain
<1>2. Inv /\ dbs \in Seq(DatabaseSet)
  BY Domains DEF HInv, ClInv, DInv, DataOK
<1>3. d \in DOMAIN dbs' /\ dbs'[d] = dbs[d]
  BY <1>2, Domains DEF Local, Grown, DataOK
<1>4. StillCloses(d)
  BY <1>2, <1>3, ReachStays, KeepsClosing
<1>5. DatabaseCloses(d)'
  BY <1>1, <1>2, <1>4, DatabaseStillCloses DEF GoesOnClosing, NoMoreLeft
<1>6. k \in DOMAIN files' /\ InReach(h, files[k])' /\ files'[k].held = "main"
  BY <1>1, ReachStays, HeldBy DEF SameHolders
<1> QED
  BY <1>1, <1>3, <1>5, <1>6, OfMainNext

LEMMA OtherCallsOwn ==
  ASSUME HInv, NEW c \in Callers, Local(c), SameHolders, NEW h, NEW b \in Callers, b # c,
         \/ h \in {call[b].dbf, call[b].fpt}
         \/ call[b].step = "closefpt" /\ h = files[call[b].file].fpt
  PROVE  OfCall(h)'
<1>1. call'[b] = call[b] /\ StepOK(b, call[b])
  BY KnownOfCalls DEF Local, HInv, ClInv
<1>2. call[b].step = "closefpt" => call[b].file \in DOMAIN files
  BY <1>1 DEF StepOK, Closing
<1> QED
  BY <1>1, <1>2 DEF OfCall, SameHolders

LEMMA MovesOwned ==
  ASSUME HInv, NEW c \in Callers, Begin(c) \/ Step(c), Moves(c), ~DropsHandles(c),
         ~RepeatsName(c), ~DatabaseOpened(c), NEW h \in DOMAIN handles, Owned(h)
  PROVE  Owned(h)'
<1>1. /\ DInv /\ Inv /\ HandlesInv /\ FilesKept(c) /\ Local(c) /\ GoesOnClosing(c)
      /\ SameOpen /\ SameHolders
  BY FilesAreKept, StepsAreLocal, MovesDo DEF HInv, ClInv, DInv, Moves
<1>2. SameHeld
  BY DEF Moves, KeepsHandles, TakesHandle, GivesHandles, SameHeld
<1>3. h # 0
  BY <1>1, Domains
<1>4. ASSUME NEW b \in Callers, \/ h \in {call[b].dbf, call[b].fpt}
                                \/ call[b].step = "closefpt" /\ h = files[call[b].file].fpt
      PROVE  Owned(h)'
  <2>1. CASE b # c
    BY <1>1, <1>4, <2>1, OtherCallsOwn, OwnedNext
  <2>2. CASE b = c
    <3>1. h \in {call[c].dbf, call[c].fpt}
      BY <1>1, <1>4, <2>2 DEF GoesOnClosing
    <3>2. CASE KeepsHandles(c) \/ TakesHandle(c)
      <4>1. h \in {call'[c].dbf, call'[c].fpt}
        BY <1>3, <3>1, <3>2 DEF KeepsHandles, TakesHandle
      <4> QED
        BY <4>1 DEF Owned
    <3>3. CASE GivesHandles(c)
      <4>1. PICK k : /\ k \in DOMAIN files' /\ files'[k].dbf = call[c].dbf
                     /\ files'[k].fpt = call[c].fpt /\ files'[k].held \in {"program", c}
                     /\ handles' = handles
        BY <3>3 DEF GivesHandles
      <4>2. h = call[c].fpt => handles[call[c].dbf].open
        BY <1>1, <1>3, HandlesOfCall DEF AllOpen, MemoAfterTable, HandlesOf
      <4>3. InReach(h, files[k])'
        BY <3>1, <4>1, <4>2 DEF InReach
      <4>4. OfFile(h)'
        BY <4>1, <4>3 DEF OfFile, InReach
      <4> QED
        BY <4>4, OwnedNext
    <3> QED
      BY <3>2, <3>3 DEF Moves
  <2> QED
    BY <2>1, <2>2
<1>5. CASE OfFile(h)
  BY <1>1, <1>2, <1>5, FilesStayHeld, OwnedNext
<1>6. CASE OfMain(h)
  BY <1>1, <1>6, MainsStayHeld, OwnedNext
<1> QED
  BY <1>4, <1>5, <1>6, Owners DEF OfCall

(* OpenDatabase hands over: the container as such, to be closed with all   *)
(* the tables, which are still open.                                       *)
LEMMA OpenedOwned ==
  ASSUME HInv, NEW c \in Callers, DatabaseOpened(c), NEW h \in DOMAIN handles, Owned(h)
  PROVE  Owned(h)'
<1> DEFINE old == call[c]
<1>0. PICK d : d = Len(dbs) + 1
  OBVIOUS
<1>1. /\ DInv /\ Inv /\ Step(c) /\ FilesKept(c) /\ Local(c) /\ Moves(c) /\ HandlesInv
      /\ old \in CallSet /\ CatalogAt(c, old) /\ StepOK(c, old) /\ handles' = handles
      /\ \A n \in Names : old.tables[n] # 0 => old.tables[n] \in DOMAIN files
  BY FilesAreKept, StepsAreLocal, RowMoves, KnownOfCalls
     DEF HInv, ClInv, DInv, Step, DatabaseOpened
<1>2. SameOpen /\ SameHolders /\ GoesOnClosing(c) /\ h # 0
  BY <1>1, MovesDo, Domains DEF Moves
<1>3. /\ old.op = "opendb" /\ old.main # 0 /\ old.main \in DOMAIN files /\ files[old.main].held = c
      /\ \A n \in Names : old.tables[n] # 0 => files[old.tables[n]].held = c
  BY <1>1, KnownOfCalls DEF DatabaseOpened, StepOK, CatalogAt
<1>4. old.dbf = 0 /\ old.fpt = 0 /\ old.step # "closefpt"
  BY <1>1, HandlesOfCall DEF DatabaseOpened, HandlesAtStep
<1>5. /\ DOMAIN files' = DOMAIN files
      /\ \A k \in DOMAIN files : files'[k].held = IF k = old.main THEN "main"
           ELSE IF files[k].held = c THEN "table" ELSE files[k].held
  BY <1>1, OpenedHolders
<1>6. CASE OfCall(h)
  <2>1. PICK b \in Callers : \/ h \in {call[b].dbf, call[b].fpt}
                             \/ call[b].step = "closefpt" /\ h = files[call[b].file].fpt
    BY <1>6 DEF OfCall
  <2>2. b # c
    BY <1>2, <1>4, <2>1
  <2> QED
    BY <1>1, <1>2, <2>1, <2>2, OtherCallsOwn, OwnedNext
<1>7. CASE OfMain(h)
  BY <1>1, <1>2, <1>7, MainsStayHeld, OwnedNext
<1>8. CASE OfFile(h)
  <2>1. PICK k \in DOMAIN files : InReach(h, files[k])
                                 /\ files[k].held \in {"program", "table"} \cup Callers
    BY <1>8 DEF OfFile
  <2>2. InReach(h, files[k])'
    BY <1>2, <2>1, ReachStays
  <2>3. CASE k # old.main
    <3>1. files'[k].held \in {"program", "table"} \cup Callers
      BY <1>5, <2>1, <2>3
    <3>2. OfFile(h)'
      BY <1>5, <2>2, <3>1 DEF OfFile, InReach
    <3> QED
      BY <3>2, OwnedNext
  <2>4. CASE k = old.main
    <3>1. d \in DOMAIN dbs' /\ dbs'[d].main = k /\ dbs'[d].tables = old.tables
      <4>1. PICK db : db = [main |-> old.main, tables |-> old.tables]
        OBVIOUS
      <4>2. dbs' = Append(dbs, db) /\ db.main = k /\ db.tables = old.tables
        BY <2>4, <4>1 DEF DatabaseOpened
      <4>3. dbs \in Seq(DatabaseSet)
        BY <1>1, Domains DEF DataOK
      <4> QED
        BY <1>0, <4>2, <4>3
    <3>2. ASSUME NEW n \in Names, NEW j, j = old.tables[n], j # 0 PROVE Closes(j)'
      <4>1. j \in DOMAIN files /\ files[j].held = c
        BY <1>1, <1>3, <3>2
      <4>2. AllOpen(files[j])
        BY <1>1, <4>1 DEF HandlesInv, FileHandles
      <4>3. Closes(j)
        BY <4>2 DEF AllOpen, HandlesOf, Closes
      <4> QED
        BY <1>2, <4>1, <4>3, ReachStays
    <3>3. ASSUME NEW n \in Names, old.tables[n] # 0 PROVE Closes(dbs[d].tables[n])'
      <4>1. PICK j : j = old.tables[n]
        OBVIOUS
      <4>2. Closes(j)' /\ dbs'[d].tables[n] = j
        BY <3>1, <3>2, <3>3, <4>1
      <4> QED
        BY <4>2 DEF Closes
    <3>4. DatabaseCloses(d)'
      <4>1. PICK all : all = {m \in Names : old.tables[m] # 0}
        OBVIOUS
      <4>2. all = {m \in Names : dbs'[d].tables[m] # 0}
        BY <3>1, <4>1
      <4>3. \A n \in all : Closes(dbs[d].tables[n])'
        BY <3>3, <4>1
      <4> QED
        BY <4>2, <4>3, Zenon DEF DatabaseCloses, Closes
    <3>5. OfMain(h)'
      <4>1. k \in DOMAIN files' /\ files'[k].held = "main"
        BY <1>5, <2>4
      <4> QED
        BY <2>2, <3>1, <3>4, <4>1, OfMainNext
    <3> QED
      BY <3>5, OwnedNext
  <2> QED
    BY <2>3, <2>4
<1> QED
  BY <1>6, <1>7, <1>8, Owners

(* A Close takes from nobody but itself, and from a Database whose table   *)
(* it closes.                                                              *)
LEMMA CloseReach ==
  ASSUME HInv, NEW c \in Callers, NEW x, Closes1(x), CloserOf(c, x), files' = files,
         NEW k \in DOMAIN files, k # call[c].file \/ x = 0
  PROVE  /\ \A h \in DOMAIN handles : InReach(h, files[k]) => InReach(h, files[k])'
         /\ Closes(k) => Closes(k)'
<1>1. Inv /\ FileHandles(files[k]) /\ HandlesOf(files[k]) \subseteq DOMAIN handles
  BY HandlesOfAll DEF HInv, ClInv, DInv, HandlesInv
<1>2. x \notin HandlesOf(files[k])
  <2>1. CASE x = 0
    BY <2>1 DEF HandlesOf
  <2>2. CASE x # 0
    <3>1. call[c].file \in DOMAIN files /\ x \in HandlesOf(files[call[c].file])
      BY <2>2 DEF CloserOf, HandlesOf
    <3> QED
      BY <2>2, <3>1 DEF HInv, HandlesInv
  <2> QED
    BY <2>1, <2>2
<1>3. \A i \in HandlesOf(files[k]) : handles'[i].open <=> handles[i].open
  BY <1>1, <1>2 DEF Closes1
<1>4. ASSUME NEW h \in DOMAIN handles, InReach(h, files[k]) PROVE InReach(h, files[k])'
  <2>1. h # 0
    BY <1>1, Domains
  <2> QED
    BY <1>1, <1>3, <1>4, <2>1 DEF InReach, HandlesOf, FileHandles, MemoAfterTable
<1>5. Closes(k) => Closes(k)'
  BY <1>3 DEF Closes, HandlesOf
<1> QED
  BY <1>4, <1>5

OwnedAsMain(h) == \E k \in DOMAIN files : files[k].held = "main" /\ h \in {files[k].dbf, files[k].fpt}

LEMMA CloseDbfOwned ==
  ASSUME HInv, NEW c \in Callers, CloseDbf(c), NEW h \in DOMAIN handles, handles'[h].open, Owned(h)
  PROVE  Owned(h)' \/ (files[call[c].file].held = "table" /\ OwnedAsMain(h))
<1> DEFINE old == call[c]
           k == old.file
           x == files[k].dbf
<1>1. /\ DInv /\ Inv /\ Local(c) /\ files' = files /\ dbs' = dbs /\ SameHolders /\ old \in CallSet
      /\ k \in DOMAIN files /\ files[k].held \in {"program", "table", "main"} /\ ClosesOwn(old)
      /\ old.dbf = 0 /\ old.fpt = 0 /\ old.step = "closedbf" /\ Closing(old)
      /\ x # 0 => x \in DOMAIN handles
      /\ h # 0
  <2>1. Closing(old) /\ Step(c)
    BY DEF CloseDbf, Closing, Step
  <2> QED
    BY <2>1, CloserFields, UnchangedHolders, StepsAreLocal, Domains DEF CloseDbf, HInv, ClInv
<1>2. FileHandles(files[k])
  BY <1>1 DEF HInv, HandlesInv
<1>3. PICK y : /\ Closes1(y) /\ CloserOf(c, y)
               /\ \/ y = 0 /\ handles' = handles /\ x # 0 /\ ~handles[x].open
                  \/ /\ y = x
                     /\ IF AfterDbf(k) THEN Goto(c, [old EXCEPT !.step = "closefpt"])
                                       ELSE FileClosed(c)
  <2>1. CASE handles' = handles /\ x # 0 /\ ~handles[x].open
    BY <1>1, <2>1, OneClosed DEF CloserOf
  <2>2. CASE /\ handles' = [i \in DOMAIN handles |-> [handles[i] EXCEPT !.open = @ /\ i # x]]
             /\ IF AfterDbf(k) THEN Goto(c, [old EXCEPT !.step = "closefpt"]) ELSE FileClosed(c)
    <3>1. Closes1(x)
      BY <1>1, <2>2, OneClosed
    <3>2. CloserOf(c, x)
      BY <1>1, HeldBy DEF CloserOf
    <3> QED
      BY <2>2, <3>1, <3>2
  <2> QED
    BY <2>1, <2>2 DEF CloseDbf
<1>4. ASSUME InReach(h, files[k]) PROVE OfCall(h)'
  <2>1. CASE h = x
    BY <1>1, <1>3, <2>1 DEF Closes1
  <2>2. CASE h # x
    <3>1. h = files[k].fpt /\ handles[x].open /\ AfterDbf(k)
      BY <1>1, <1>4, <2>2 DEF InReach, AfterDbf
    <3>2. PICK r : r = [old EXCEPT !.step = "closefpt"]
      OBVIOUS
    <3>3. call'[c] = r
      BY <1>1, <1>3, <3>1, <3>2, NowAt
    <3>4. r.step = "closefpt" /\ r.file = k
      BY <1>1, <3>2 DEF CallSet
    <3> QED
      BY <1>1, <3>1, <3>3, <3>4 DEF OfCall
  <2> QED
    BY <2>1, <2>2
<1>5. CASE OfCall(h)
  <2>1. PICK b \in Callers : \/ h \in {call[b].dbf, call[b].fpt}
                             \/ call[b].step = "closefpt" /\ h = files[call[b].file].fpt
    BY <1>5 DEF OfCall
  <2>2. b # c
    BY <1>1, <2>1
  <2> QED
    BY <1>1, <2>1, <2>2, OtherCallsOwn, OwnedNext
<1>6. CASE OfFile(h)
  <2>1. PICK j \in DOMAIN files : InReach(h, files[j])
                                 /\ files[j].held \in {"program", "table"} \cup Callers
    BY <1>6 DEF OfFile
  <2>2. CASE j = k
    BY <1>4, <2>1, <2>2, OwnedNext
  <2>3. CASE j # k
    <3>1. InReach(h, files[j])'
      BY <1>1, <1>3, <2>1, <2>3, CloseReach
    <3>2. OfFile(h)'
      BY <1>1, <2>1, <3>1 DEF OfFile, InReach
    <3> QED
      BY <3>2, OwnedNext
  <2> QED
    BY <2>2, <2>3
<1>7. CASE OfMain(h)
  <2>1. PICK j \in DOMAIN files, d \in DOMAIN dbs :
          /\ InReach(h, files[j]) /\ files[j].held = "main" /\ dbs[d].main = j /\ DatabaseCloses(d)
    BY <1>7 DEF OfMain
  <2>2. CASE j = k
    BY <1>4, <2>1, <2>2, OwnedNext
  <2>3. CASE files[k].held = "table"
    BY <2>1, <2>3 DEF OwnedAsMain, InReach
  <2>4. CASE j # k /\ files[k].held # "table"
    <3>1. InReach(h, files[j])'
      BY <1>1, <1>3, <2>1, <2>4, CloseReach
    <3>2. DatabaseAt(dbs[d])
      BY <1>1, DatabasesHave DEF DInv, CatalogInv
    <3>3. \A n \in Names : dbs[d].tables[n] # 0 =>
            dbs[d].tables[n] \in DOMAIN files /\ dbs[d].tables[n] # k
      BY <1>1, <2>4, <3>2, KnownOfDatabases DEF DatabaseAt
    <3>4. StillCloses(d)
      <4>1. ASSUME NEW i \in DOMAIN files, Closes(i), NEW n \in Names, dbs[d].tables[n] = i
            PROVE  Closes(i)'
        <5>1. i # 0
          BY <1>1, Domains
        <5> QED
          BY <1>1, <1>3, <3>3, <4>1, <5>1, CloseReach
      <4>2. dbs'[d] = dbs[d]
        BY <1>1
      <4> QED
        BY <1>1, <4>1, <4>2, KeepsClosing
    <3>5. NoMoreLeft(c, d)
      <4>1. SUFFICES ASSUME old.op = "closedb", old.db = d PROVE FALSE
        BY DEF NoMoreLeft
      <4>2. k \in OfDatabase(d)
        BY <1>1, <4>1 DEF ClosesOwn
      <4> QED
        BY <1>1, <2>1, <2>4, <3>3, <4>2 DEF OfDatabase
    <3>6. DatabaseCloses(d)'
      BY <1>1, <2>1, <3>4, <3>5, DatabaseStillCloses
    <3>7. OfMain(h)'
      BY <1>1, <2>1, <3>1, <3>6, OfMainNext
    <3> QED
      BY <3>7, OwnedNext
  <2> QED
    BY <2>2, <2>3, <2>4
<1> QED
  BY <1>5, <1>6, <1>7, Owners

LEMMA CloseFptOwned ==
  ASSUME HInv, NEW c \in Callers, CloseFpt(c), NEW h \in DOMAIN handles, handles'[h].open, Owned(h)
  PROVE  Owned(h)'
<1> DEFINE old == call[c]
           k == old.file
           x == files[k].fpt
<1>1. /\ DInv /\ Inv /\ Local(c) /\ files' = files /\ dbs' = dbs /\ SameHolders /\ old \in CallSet
      /\ k \in DOMAIN files /\ ClosesOwn(old) /\ x \in DOMAIN handles /\ handles[x].open
      /\ files[k].dbf # 0 /\ files[k].dbf # x /\ ~handles[files[k].dbf].open
      /\ old.dbf = 0 /\ old.fpt = 0 /\ old.step = "closefpt" /\ Closing(old)
      /\ files[k].held \in {"program", "table", "main"}
      /\ h # 0
  <2>1. Closing(old) /\ Step(c) /\ old.step = "closefpt"
    BY DEF CloseFpt, Closing, Step
  <2>2. DInv /\ Inv /\ files' = files /\ dbs' = dbs
    BY DEF CloseFpt, HInv, ClInv, DInv
  <2>3. Local(c) /\ SameHolders /\ h # 0
    BY <2>1, <2>2, StepsAreLocal, UnchangedHolders, Domains
  <2>4. /\ old \in CallSet /\ k \in DOMAIN files /\ ClosesOwn(old) /\ old.dbf = 0 /\ old.fpt = 0
        /\ files[k].held \in {"program", "table", "main"}
    BY <2>1, CloserFields
  <2>5. /\ x \in DOMAIN handles /\ handles[x].open
        /\ files[k].dbf # 0 /\ files[k].dbf # x /\ ~handles[files[k].dbf].open
    BY <2>1, MemoIsLast
  <2> QED
    BY <2>1, <2>2, <2>3, <2>4, <2>5
<1>2. handles' = [handles EXCEPT ![x].open = FALSE] /\ FileClosed(c)
  BY <1>1 DEF CloseFpt
<1>3. Closes1(x) /\ CloserOf(c, x)
  BY <1>1, <1>2, OneClosed, HeldBy DEF CloserOf
<1>4. h # x
  BY <1>1, <1>3 DEF Closes1
<1>5. CASE OfCall(h)
  <2>1. PICK b \in Callers : \/ h \in {call[b].dbf, call[b].fpt}
                             \/ call[b].step = "closefpt" /\ h = files[call[b].file].fpt
    BY <1>5 DEF OfCall
  <2>2. b # c
    BY <1>1, <1>4, <2>1
  <2> QED
    BY <1>1, <2>1, <2>2, OtherCallsOwn, OwnedNext
<1>6. ASSUME NEW j \in DOMAIN files, InReach(h, files[j]) PROVE j # k /\ InReach(h, files[j])'
  <2>1. handles[h].open
    BY <1>3 DEF Closes1
  <2>2. j # k
    BY <1>1, <1>4, <1>6, <2>1 DEF InReach
  <2> QED
    BY <1>1, <1>3, <1>6, <2>2, CloseReach
<1>7. CASE OfFile(h)
  <2>1. OfFile(h)'
    BY <1>1, <1>6, <1>7 DEF OfFile, InReach
  <2> QED
    BY <2>1, OwnedNext
<1>8. CASE OfMain(h)
  <2>1. PICK j \in DOMAIN files, d \in DOMAIN dbs :
          /\ InReach(h, files[j]) /\ files[j].held = "main" /\ dbs[d].main = j /\ DatabaseCloses(d)
    BY <1>8 DEF OfMain
  <2>2. StillCloses(d)
    <3>1. ~Closes(k)
      BY <1>1 DEF Closes
    <3>2. \A i \in DOMAIN files : Closes(i) => Closes(i)'
      BY <1>1, <1>3, <3>1, CloseReach
    <3> QED
      BY <1>1, <3>2, KeepsClosing
  <2>3. NoMoreLeft(c, d)
    <3>1. SUFFICES ASSUME old.op = "closedb", old.db = d
                   PROVE  /\ call'[c].op = "closedb" /\ call'[c].db = d
                          /\ call'[c].left \subseteq old.left
      BY DEF NoMoreLeft
    <3>2. k # dbs[d].main
      BY <1>6, <2>1
    <3>3. PICK r : r = [old EXCEPT !.step = "next"]
      OBVIOUS
    <3>4. call'[c] = r
      BY <1>1, <1>2, <3>1, <3>2, <3>3, NowAt DEF FileClosed
    <3> QED
      BY <1>1, <3>1, <3>3, <3>4 DEF CallSet
  <2>4. DatabaseCloses(d)'
    BY <1>1, <2>1, <2>2, <2>3, DatabaseStillCloses
  <2>5. OfMain(h)'
    BY <1>1, <1>6, <2>1, <2>4, OfMainNext
  <2> QED
    BY <2>5, OwnedNext
<1> QED
  BY <1>5, <1>7, <1>8, Owners

LEMMA LostBefore ==
  ASSUME HInv, HandlesKept, NEW h \in Lost', h \in DOMAIN handles, h \notin Lost
  PROVE  Owned(h) /\ handles'[h].open /\ ~Owned(h)'
BY DEF Lost, HandlesKept

LEMMA LostByMoves ==
  ASSUME HInv, NEW c \in Callers, Begin(c) \/ Step(c), ~CloseDbf(c), ~CloseFpt(c),
         ~RepeatsName(c), ~DropsHandles(c)
  PROVE  Lost' \subseteq Lost
<1>1. /\ DInv /\ Inv /\ HandlesInv /\ HandlesKept /\ handles \in Seq(HandleSet)
      /\ Moves(c)
  BY HandlesAreKept, Domains, StepsMove DEF HInv, ClInv, DInv, DataOK
<1>2. SUFFICES ASSUME NEW h \in Lost', h \notin Lost PROVE FALSE
  OBVIOUS
<1>3. CASE h \in DOMAIN handles
  BY <1>1, <1>2, <1>3, LostBefore, MovesOwned, OpenedOwned
<1>4. CASE h \notin DOMAIN handles
  <2>1. h \in DOMAIN handles' /\ ~Owned(h)'
    BY <1>2 DEF Lost
  <2>2. TakesHandle(c)
    BY <1>1, <1>4, <2>1 DEF Moves, KeepsHandles, TakesHandle, GivesHandles, DropsHandles,
       DatabaseOpened
  <2>3. PICK handle : handles' = Append(handles, handle)
    BY <2>2 DEF TakesHandle, NewHandle
  <2>4. h = Len(handles) + 1
    BY <1>1, <1>4, <2>1, <2>3
  <2>5. h \in {call'[c].dbf, call'[c].fpt}
    BY <2>2, <2>4 DEF TakesHandle
  <2> QED
    BY <2>1, <2>5 DEF Owned
<1> QED
  BY <1>3, <1>4

LEMMA LostByClose ==
  ASSUME HInv, NEW c \in Callers, CloseDbf(c)
  PROVE  \/ Lost' \subseteq Lost
         \/ /\ call[c].step = "closedbf" /\ files[call[c].file].held = "table"
            /\ call'[c] # call[c]
            /\ \A h \in Lost' \ Lost : OwnedAsMain(h)
<1>1. /\ Inv /\ HandlesKept /\ DOMAIN handles' = DOMAIN handles /\ call[c] \in CallSet
      /\ call[c].step = "closedbf"
  BY HandlesAreKept, KnownOfCalls DEF HInv, ClInv, DInv, Step, CloseDbf
<1>2. \A h \in Lost' \ Lost : files[call[c].file].held = "table" /\ OwnedAsMain(h)
  <2> TAKE h \in Lost' \ Lost
  <2>1. h \in DOMAIN handles
    BY <1>1 DEF Lost
  <2> QED
    BY <1>1, <2>1, LostBefore, CloseDbfOwned
<1>3. call'[c] # call[c]
  <2>1. (\E how : Return(c, how)) \/ \E x \in {"next", "closefpt"} : Goto(c, [call[c] EXCEPT !.step = x])
    BY Zenon DEF CloseDbf, FileClosed
  <2>2. \A x : [call[c] EXCEPT !.step = x].step = x
    BY <1>1 DEF CallSet
  <2>3. call'[c].step \in {"idle", "next", "closefpt"}
    BY <1>1, <2>1, <2>2, NowAt, NoCallHasNone
  <2> QED
    BY <1>1, <2>3
<1> QED
  BY <1>1, <1>2, <1>3

LEMMA LostByMemo ==
  ASSUME HInv, NEW c \in Callers, CloseFpt(c)
  PROVE  Lost' \subseteq Lost
<1>1. Inv /\ HandlesKept /\ DOMAIN handles' = DOMAIN handles
  BY HandlesAreKept DEF HInv, ClInv, DInv, Step, CloseFpt
<1>2. ASSUME NEW h \in Lost', h \notin Lost PROVE FALSE
  <2>1. h \in DOMAIN handles
    BY <1>1 DEF Lost
  <2> QED
    BY <1>1, <1>2, <2>1, LostBefore, CloseFptOwned
<1> QED
  BY <1>2

(* A handle that is open can be closed by somebody: by the call that holds *)
(* it, or by Close of the File or the Database it belongs to.  Four things *)
(* only break this: a failure of the file system, an open or a creation    *)
(* that returns an error, a name that is in the catalogue twice, and a     *)
(* table of a Database closed by itself, which costs the container.        *)
THEOREM HandlesAreOwned == Spec => HandlesLostByErrorsOnly
<1>1. HInv /\ [Next]_vars => HInv'
  BY HandlesNext
<1> DEFINE A == Lost' \subseteq Lost
     \/ faults' # faults
     \/ \E c \in Callers :
          \/ call[c].op \in {"open", "opendb", "create"} /\ outcome'[c] = "error"
             /\ call'[c] = NoCall
          \/ RepeatsName(c)
          \/ /\ call[c].step = "closedbf" /\ files[call[c].file].held = "table"
             /\ call'[c] # call[c]
             /\ \A h \in Lost' \ Lost : \E k \in DOMAIN files :
                  files[k].held = "main" /\ h \in {files[k].dbf, files[k].fpt}
<1>2. HInv /\ [Next]_vars => [A]_vars
  <2> SUFFICES ASSUME HInv, Next PROVE A
    OBVIOUS
  <2>1. faults \in Nat
    BY FilesAssumption DEF HInv, ClInv, DInv, Inv, TypeOK
  <2>2. CASE Crash \/ \E c \in Callers : IOFails(c)
    BY <2>1, <2>2 DEF Crash, IOFails
  <2>3. ASSUME NEW c \in Callers, Begin(c) \/ Step(c) PROVE A
    <3>1. CASE CloseDbf(c)
      BY <3>1, LostByClose DEF OwnedAsMain
    <3>2. CASE CloseFpt(c)
      BY <3>2, LostByMemo
    <3>3. CASE RepeatsName(c)
      BY <3>3
    <3>4. CASE DropsHandles(c)
      BY <3>4 DEF DropsHandles
    <3> QED
      BY <2>3, <3>1, <3>2, <3>3, <3>4, LostByMoves
  <2> QED
    BY <2>2, <2>3 DEF Next
<1> QED
  BY <1>1, <1>2, HandlesInit, PTL DEF Spec, HandlesLostByErrorsOnly
=============================================================================
