------------------------- MODULE FileContentsProofs -------------------------
(* What the files hold that a program works with.  First the theorems for  *)
(* which it matters that one goroutine at most creates tables              *)
(* (OneCreator): the files that are open can be used, and those that can   *)
(* be used stay so when a table is created.  Then the converters: a File   *)
(* keeps the one its caller meant for it, although every call that opens   *)
(* writes into a Config that somebody may keep.                            *)
EXTENDS DatabaseProofs

(* A File is over a table whose columns are ended, with its memo's header. *)
FilesUsable == \A k \in DOMAIN files : Usable(disk[files[k].path])

WInv == Inv /\ WholeInv /\ FilesUsable

(* The steps at which a call has expectations of its file. *)
Early == {"make", "makefpt", "writehead", "writecols", "writemark", "writefill",
          "writememo", "writepad", "related", "memohead"}

(* The Files after a step of a goroutine are the same, or one more at p. *)
SameFiles == \A k \in DOMAIN files' : k \in DOMAIN files /\ files'[k].path = files[k].path
OneMore(p) == \A k \in DOMAIN files' : \/ k \in DOMAIN files /\ files'[k].path = files[k].path
                                       \/ files'[k].path = p

LEMMA NotEarly ==
  ASSUME NEW c, call'[c].step \notin Early
  PROVE  WholeAt(call[c])'
BY DEF WholeAt, Early

LEMMA LateCalls ==
  ASSUME Inv, NEW c \in Callers
  PROVE  /\ \A how : Return(c, how) => WholeAt(call[c])'
         /\ \A r : Goto(c, r) /\ r.step \notin Early => WholeAt(call[c])'
<1>1. NoCall.step \notin Early
  BY DEF NoCall, Early
<1>2. ASSUME NEW how, Return(c, how) PROVE WholeAt(call[c])'
  BY <1>1, <1>2, NowAt, NotEarly
<1>3. ASSUME NEW r, Goto(c, r), r.step \notin Early PROVE WholeAt(call[c])'
  BY <1>3, NowAt, NotEarly
<1> QED
  BY <1>2, <1>3

LEMMA Unchanged ==
  ASSUME files' = files
  PROVE  SameFiles
BY DEF SameFiles

LEMMA FailedCalls ==
  ASSUME Inv, NEW c \in Callers, Fail(c)
  PROVE  SameFiles /\ WholeAt(call[c])'
<1>1. files' = Dropped(c) /\ Return(c, "error")
  BY DEF Fail
<1>2. Rehold(files')
  BY <1>1, DroppedIsReheld
<1>3. DOMAIN files' = DOMAIN files /\ \A k \in DOMAIN files : files'[k].path = files[k].path
  <2>1. PICK fs : fs = files'
    OBVIOUS
  <2>2. Rehold(fs)
    BY <1>2, <2>1
  <2>3. DOMAIN fs = DOMAIN files /\ \A k \in DOMAIN files : fs[k].path = files[k].path
    BY <2>2, ReheldFiles DEF Rehold
  <2> QED
    BY <2>1, <2>3
<1>4. SameFiles
  BY <1>3 DEF SameFiles
<1> QED
  BY <1>1, <1>4, LateCalls

LEMMA AppendedFile ==
  ASSUME Inv, NEW fs, NEW file, Rehold(fs), fs \in Seq(FileSet), files' = Append(fs, file)
  PROVE  OneMore(file.path)
<1>1. DOMAIN fs = DOMAIN files
  BY DEF Rehold
<1>2. Len(fs) \in Nat /\ DOMAIN fs = 1..Len(fs)
  OBVIOUS
<1>3. DOMAIN files' = 1..(Len(fs) + 1) /\ \A k \in DOMAIN fs : files'[k] = fs[k]
  BY <1>2
<1>4. files'[Len(fs) + 1] = file
  BY <1>2
<1>5. \A k \in DOMAIN files' : k \in DOMAIN fs \/ k = Len(fs) + 1
  BY <1>2, <1>3
<1> QED
  BY <1>1, <1>3, <1>4, <1>5, ReheldFiles DEF OneMore

LEMMA OpenedCalls ==
  ASSUME Inv, NEW c \in Callers, Opening(call[c]), Opened(c)
  PROVE  OneMore(call[c].path) /\ WholeAt(call[c])'
<1> DEFINE n == Catalog[call[c].row]
           File(held) == [cfg |-> call[c].cfg, dbf |-> call[c].dbf, fpt |-> call[c].fpt,
                          path |-> call[c].path, page |-> disk[call[c].path].page,
                          held |-> held]
           kept == [i \in DOMAIN files |->
                      IF i = call[c].tables[n] THEN [files[i] EXCEPT !.held = "lost"]
                                               ELSE files[i]]
<1>1. files \in Seq(FileSet) /\ Rehold(files) /\ call[c] \in CallSet
  BY FilesAreReheld, Domains DEF DataOK
<1>2. Rehold(kept) /\ kept \in Seq(FileSet)
  <2>1. DOMAIN kept = DOMAIN files /\ kept = [j \in 1..Len(files) |-> kept[j]]
    BY Domains
  <2>2. \A j \in DOMAIN files : \E h \in Holders : kept[j] = [files[j] EXCEPT !.held = h]
    BY FilesAreReheld DEF Rehold, Holders
  <2> HIDE DEF kept
  <2>3. Rehold(kept)
    BY <2>1, <2>2 DEF Rehold
  <2> QED
    BY <2>1, <2>3, ReheldFiles
<1>3. \E held : files' = Append(files, File(held)) \/ files' = Append(kept, File(held))
  BY DEF Opened
<1> HIDE DEF kept
<1>4. \A held : File(held).path = call[c].path
  OBVIOUS
<1> HIDE DEF File
<1>5. OneMore(call[c].path)
  BY <1>1, <1>2, <1>3, <1>4, AppendedFile
<1> USE DEF File, kept
<1>6. WholeAt(call[c])'
  <2>1. CASE call[c].op = "open"
    BY <2>1, LateCalls DEF Opened
  <2>2. CASE call[c].op # "open"
    <3>1. \/ \E x : Goto(c, [[call[c] EXCEPT !.dbf = 0, !.fpt = 0, !.cfg = 0, !.path = None]
                               EXCEPT !.main = x, !.step = "catalog"])
          \/ \E x : Goto(c, [[call[c] EXCEPT !.dbf = 0, !.fpt = 0, !.cfg = 0, !.path = None]
                               EXCEPT !.tables[n] = x, !.step = "row", !.row = @ + 1])
      BY <2>2 DEF Opened
    <3>2. \A x : [[call[c] EXCEPT !.dbf = 0, !.fpt = 0, !.cfg = 0, !.path = None]
                    EXCEPT !.main = x, !.step = "catalog"].step = "catalog"
      BY <1>1 DEF CallSet
    <3>3. \A x : [[call[c] EXCEPT !.dbf = 0, !.fpt = 0, !.cfg = 0, !.path = None]
                    EXCEPT !.tables[n] = x, !.step = "row", !.row = @ + 1].step = "row"
      BY <1>1 DEF CallSet
    <3> QED
      BY <3>1, <3>2, <3>3, LateCalls DEF Early
  <2> QED
    BY <2>1, <2>2
<1> QED
  BY <1>5, <1>6

LEMMA CreatedCalls ==
  ASSUME Inv, NEW c \in Callers, Created(c)
  PROVE  OneMore(call[c].path) /\ WholeAt(call[c])'
<1>1. files \in Seq(FileSet) /\ Rehold(files)
  BY FilesAreReheld, Domains DEF DataOK
<1>2. PICK file : files' = Append(files, file) /\ file.path = call[c].path
  BY DEF Created
<1> QED
  BY <1>1, <1>2, AppendedFile, LateCalls DEF Created

(***************************************************************************)
(* A step that leaves the files as they are.                               *)
(***************************************************************************)
LEMMA QuietSteps ==
  ASSUME WInv, NEW c \in Callers, Local(c), disk' = disk, WholeAt(call[c])',
         SameFiles \/ (OneMore(call[c].path) /\ Usable(disk[call[c].path]))
  PROVE  WholeInv' /\ FilesUsable'
<1>1. ASSUME NEW b \in Callers PROVE WholeAt(call[b])'
  <2>1. CASE b = c
    BY <2>1
  <2>2. CASE b # c
    <3>1. call'[b] = call[b] /\ WholeAt(call[b])
      BY <2>2 DEF Local, WInv, WholeInv
    <3> QED
      BY <3>1 DEF WholeAt
  <2> QED
    BY <2>1, <2>2
<1>2. ASSUME NEW k \in DOMAIN files' PROVE Usable(disk'[files'[k].path])
  BY DEF SameFiles, OneMore, WInv, FilesUsable
<1> QED
  BY <1>1, <1>2 DEF WholeInv, FilesUsable

LEMMA BeginsQuietly ==
  ASSUME Inv, NEW c \in Callers, Begin(c)
  PROVE  SameFiles /\ disk' = disk /\ WholeAt(call[c])'
<1>1. files' = files /\ disk' = disk
  BY DEF Begin, OpenTable, OpenDatabase, NewTable, Close, CloseDatabase
<1> DEFINE Ends == (\E how : Return(c, how)) \/ \E r : Goto(c, r) /\ r.step \notin Early
<1>2. Ends
  <2>1. ASSUME NEW k \in DOMAIN configs, NEW n \in Names, OpenTable(c, k, n) PROVE Ends
    <3>1. PICK r : r = [NoCall EXCEPT !.op = "open", !.step = FirstStep(k),
                          !.cfg = Entered(k), !.path = n]
      OBVIOUS
    <3>2. r.step \notin Early
      BY <3>1 DEF NoCall, FirstStep, Early
    <3>3. Goto(c, r) \/ Return(c, "error")
      BY <2>1, <3>1 DEF OpenTable
    <3> QED
      BY <3>2, <3>3
  <2>2. ASSUME NEW k \in DOMAIN configs, OpenDatabase(c, k) PROVE Ends
    <3>1. PICK r : r = [NoCall EXCEPT !.op = "opendb", !.step = FirstStep(k),
                          !.cfg = Entered(k), !.dbcfg = k, !.path = Container]
      OBVIOUS
    <3>2. r.step \notin Early
      BY <3>1 DEF NoCall, FirstStep, Early
    <3>3. Goto(c, r) \/ Return(c, "error")
      BY <2>2, <3>1 DEF OpenDatabase
    <3> QED
      BY <3>2, <3>3
  <2>3. ASSUME NEW k \in DOMAIN configs, NEW n \in Names, NEW memo, NEW tested,
               NewTable(c, k, n, memo, tested) PROVE Ends
    <3>1. PICK r : r = [NoCall EXCEPT !.op = "create", !.step = "stat", !.cfg = k,
                          !.path = n, !.memo = memo, !.tested = tested]
      OBVIOUS
    <3>2. r.step \notin Early /\ Goto(c, r)
      BY <2>3, <3>1 DEF NewTable, NoCall, Early
    <3> QED
      BY <3>2
  <2>4. ASSUME NEW k \in DOMAIN files, Close(c, k) PROVE Ends
    <3>1. PICK r : r = [NoCall EXCEPT !.op = "close", !.step = "closedbf", !.file = k]
      OBVIOUS
    <3>2. r.step \notin Early /\ Goto(c, r)
      BY <2>4, <3>1 DEF Close, NoCall, Early
    <3> QED
      BY <3>2
  <2>5. ASSUME NEW d \in DOMAIN dbs, CloseDatabase(c, d) PROVE Ends
    <3>1. PICK r : r = [NoCall EXCEPT !.op = "closedb", !.step = "next", !.db = d,
                          !.left = {n \in Names : dbs[d].tables[n] # 0}]
      OBVIOUS
    <3>2. r.step \notin Early /\ Goto(c, r)
      BY <2>5, <3>1 DEF CloseDatabase, NoCall, Early
    <3> QED
      BY <3>2
  <2> QED
    BY <2>1, <2>2, <2>3, <2>4, <2>5 DEF Begin
<1> QED
  BY <1>1, <1>2, Unchanged, LateCalls

(* What is asked of a step that does not write. *)
Quiet(c) == /\ disk' = disk /\ WholeAt(call[c])'
            /\ SameFiles \/ (OneMore(call[c].path) /\ Usable(disk[call[c].path]))

LEMMA OpensQuietly ==
  ASSUME WInv, NEW c \in Callers,
         OpenHandle(c) \/ ReadHead(c) \/ OpenRelated(c) \/ ReadMemoHead(c)
  PROVE  Quiet(c)
<1> DEFINE p == call[c].path
           d == disk[p]
<1>1. Inv /\ disk' = disk /\ call[c] \in CallSet /\ WholeAt(call[c]) /\ Opening(call[c])
  BY CallFields DEF WInv, WholeInv, OpenHandle, ReadHead, OpenRelated, ReadMemoHead, Opening
<1>2. CASE Fail(c)
  BY <1>1, <1>2, FailedCalls DEF Quiet
<1>3. ASSUME Opened(c), Usable(d) PROVE Quiet(c)
  BY <1>1, <1>3, OpenedCalls DEF Quiet
<1>4. ASSUME NEW r, Goto(c, r), files' = files, r.path = p,
             \/ r.step \notin Early
             \/ r.step \in {"related", "memohead"} /\ Readable(d) /\ d.memo
      PROVE  Quiet(c)
  <2>1. WholeAt(call[c])'
    <3>1. CASE r.step \notin Early
      BY <1>1, <1>4, <3>1, LateCalls
    <3>2. CASE r.step \in {"related", "memohead"}
      BY <1>1, <1>4, <3>2, NowAt DEF WholeAt, Early
    <3> QED
      BY <1>4, <3>1, <3>2
  <2> QED
    BY <1>1, <1>4, <2>1, Unchanged DEF Quiet
<1>5. CASE OpenHandle(c) /\ ~Fail(c)
  <2>1. PICK r : r = [call[c] EXCEPT !.step = "head", !.dbf = Len(handles')]
    OBVIOUS
  <2>2. Goto(c, r) /\ files' = files
    BY <1>5, <2>1 DEF OpenHandle
  <2>3. r.path = p /\ r.step = "head"
    BY <1>1, <2>1 DEF CallSet
  <2> QED
    BY <1>4, <2>2, <2>3 DEF Early
<1>6. CASE ReadHead(c) /\ ~Fail(c)
  <2>1. Readable(d)
    BY <1>6 DEF ReadHead
  <2>2. CASE d.memo
    <3>1. PICK r : r = [call[c] EXCEPT !.step = "related"]
      OBVIOUS
    <3>2. Goto(c, r) /\ files' = files
      BY <1>6, <2>2, <3>1 DEF ReadHead
    <3>3. r.path = p /\ r.step = "related"
      BY <1>1, <3>1 DEF CallSet
    <3> QED
      BY <1>4, <2>1, <2>2, <3>2, <3>3
  <2>3. CASE ~d.memo
    <3>1. Opened(c)
      BY <1>6, <2>3 DEF ReadHead
    <3> QED
      BY <1>3, <2>1, <2>3, <3>1 DEF Usable, Readable
  <2> QED
    BY <2>2, <2>3
<1>7. CASE OpenRelated(c) /\ ~Fail(c)
  <2>1. PICK r : /\ Goto(c, r)
                 /\ \/ r = [call[c] EXCEPT !.step = "memohead", !.fpt = Len(handles')]
                    \/ r = [call[c] EXCEPT !.step = "memohead"]
    BY <1>7 DEF OpenRelated
  <2>2. r.path = p /\ r.step = "memohead" /\ files' = files /\ call[c].step = "related"
    BY <1>1, <1>7, <2>1 DEF CallSet, OpenRelated
  <2> QED
    BY <1>1, <1>4, <2>1, <2>2 DEF WholeAt
<1>8. CASE ReadMemoHead(c) /\ ~Fail(c)
  <2>1. Opened(c) /\ MemoReadable(d) /\ call[c].step = "memohead"
    BY <1>8 DEF ReadMemoHead
  <2> QED
    BY <1>1, <1>3, <2>1 DEF WholeAt, Usable, Readable, MemoReadable
<1> QED
  BY <1>2, <1>5, <1>6, <1>7, <1>8

LEMMA GoesOnQuietly ==
  ASSUME WInv, NEW c \in Callers,
         \/ SearchCatalog(c) \/ SkipRow(c) \/ OpenRow(c) \/ DatabaseOpened(c) \/ Stat(c)
         \/ CloseDbf(c) \/ CloseFpt(c) \/ CloseNext(c)
  PROVE  Quiet(c)
<1>1. Inv /\ disk' = disk /\ call[c] \in CallSet
  BY CallFields DEF WInv, SearchCatalog, SkipRow, OpenRow, DatabaseOpened, Stat, CloseDbf,
     CloseFpt, CloseNext
<1>2. ASSUME files' = files,
             (\E how : Return(c, how)) \/ (\E r : Goto(c, r) /\ r.step \notin Early)
      PROVE  Quiet(c)
  BY <1>1, <1>2, LateCalls, Unchanged DEF Quiet
<1>3. CASE SearchCatalog(c)
  <2>1. Goto(c, [call[c] EXCEPT !.step = "row", !.row = 1]) /\ files' = files
    BY <1>3 DEF SearchCatalog
  <2>2. [call[c] EXCEPT !.step = "row", !.row = 1].step = "row"
    BY <1>1 DEF CallSet
  <2> QED
    BY <1>2, <2>1, <2>2 DEF Early
<1>4. CASE SkipRow(c)
  <2>1. Goto(c, [call[c] EXCEPT !.row = AfterSkipped(@)]) /\ files' = files
        /\ call[c].step = "row"
    BY <1>4 DEF SkipRow
  <2>2. [call[c] EXCEPT !.row = AfterSkipped(@)].step = call[c].step
    BY <1>1 DEF CallSet
  <2> QED
    BY <1>2, <2>1, <2>2 DEF Early
<1>5. CASE OpenRow(c)
  <2> DEFINE s == FirstStep(call[c].dbcfg)
             path == TablePath(configs[call[c].dbcfg].source, Catalog[call[c].row])
  <2>1. Goto(c, [call[c] EXCEPT !.step = s, !.cfg = Len(configs'), !.path = path])
        /\ files' = files
    BY <1>5 DEF OpenRow
  <2>2. s \in {"handle", "head"}
    BY DEF FirstStep
  <2> HIDE DEF s, path
  <2>3. \A x : [call[c] EXCEPT !.step = s, !.cfg = x, !.path = path].step = s
    BY <1>1 DEF CallSet
  <2> QED
    BY <1>2, <2>1, <2>2, <2>3 DEF Early
<1>6. CASE DatabaseOpened(c)
  <2>1. Return(c, "ok")
    BY <1>6 DEF DatabaseOpened
  <2>2. SameFiles
    <3>1. DOMAIN files' = DOMAIN files
          /\ \A k \in DOMAIN files : \/ files'[k] = files[k]
                                     \/ \E h : files'[k] = [files[k] EXCEPT !.held = h]
      BY <1>6 DEF DatabaseOpened
    <3>2. \A k \in DOMAIN files : files[k] \in FileSet
      BY <1>1, Domains DEF DataOK
    <3> QED
      BY <3>1, <3>2 DEF SameFiles, FileSet
  <2> QED
    BY <1>1, <2>1, <2>2, LateCalls DEF Quiet
<1>7. CASE Stat(c)
  <2>1. CASE Exists(disk[call[c].path])
    BY <1>2, <1>7, <2>1 DEF Stat
  <2>2. CASE ~Exists(disk[call[c].path])
    <3>1. PICK r : r = [call[c] EXCEPT !.step = "make"]
      OBVIOUS
    <3>2. Goto(c, r) /\ files' = files
      BY <1>7, <2>2, <3>1 DEF Stat
    <3>3. r.path = call[c].path /\ r.step = "make"
      BY <1>1, <3>1 DEF CallSet
    <3>4. WholeAt(call[c])'
      BY <1>1, <2>2, <3>2, <3>3, NowAt DEF WholeAt, Exists
    <3> QED
      BY <1>1, <3>2, <3>4, Unchanged DEF Quiet
  <2> QED
    BY <2>1, <2>2
<1>8. ASSUME files' = files, FileClosed(c) PROVE Quiet(c)
  <2>1. [call[c] EXCEPT !.step = "next"].step = "next"
    BY <1>1 DEF CallSet
  <2> QED
    BY <1>2, <1>8, <2>1 DEF FileClosed, Early
<1>9. CASE CloseDbf(c)
  <2>1. [call[c] EXCEPT !.step = "closefpt"].step = "closefpt"
    BY <1>1 DEF CallSet
  <2>2. files' = files /\ \/ Return(c, "error") \/ FileClosed(c)
                          \/ Goto(c, [call[c] EXCEPT !.step = "closefpt"])
    BY <1>9 DEF CloseDbf
  <2> QED
    BY <1>2, <1>8, <2>1, <2>2 DEF Early
<1>10. CASE CloseFpt(c)
  <2>1. files' = files /\ (Return(c, "error") \/ FileClosed(c))
    BY <1>10 DEF CloseFpt
  <2> QED
    BY <1>2, <1>8, <2>1
<1>11. CASE CloseNext(c)
  <2>1. PICK r : /\ Goto(c, r) /\ files' = files
                 /\ \/ \E x, y : r = [call[c] EXCEPT !.step = "closedbf", !.left = x, !.file = y]
                    \/ \E y : r = [call[c] EXCEPT !.step = "closedbf", !.file = y]
    BY <1>11 DEF CloseNext
  <2>2. r.step = "closedbf"
    BY <1>1, <2>1 DEF CallSet
  <2> QED
    BY <1>2, <2>1, <2>2 DEF Early
<1> QED
  BY <1>3, <1>4, <1>5, <1>6, <1>7, <1>9, <1>10, <1>11
LEMMA FailsQuietly ==
  ASSUME WInv, NEW c \in Callers, IOFails(c)
  PROVE  Quiet(c)
BY FailedCalls DEF IOFails, WInv, Quiet

(***************************************************************************)
(* A step of the goroutine that creates tables: nobody else creates, and   *)
(* what it changes no File is over yet, nor has anybody who opens it got   *)
(* so far, unless it only fills up what can be used already.               *)
(***************************************************************************)
GoesFurther(old, d) ==
  /\ Readable(old) => Readable(d) /\ d.memo = old.memo
  /\ Usable(old) => Usable(d)
  /\ Intact(old) => Intact(d)

Survive == \A n \in Names : /\ Usable(disk[n]) => Usable(disk'[n])
                            /\ Intact(disk[n]) => Intact(disk'[n])

LEMMA WritingSteps ==
  ASSUME WInv, OneCreator, NEW c \in Callers, Local(c), Creating(call[c]), NEW d,
         disk' = [disk EXCEPT ![call[c].path] = d],
         GoesFurther(disk[call[c].path], d),
         WholeAt(call[c])', SameFiles \/ (OneMore(call[c].path) /\ Usable(d))
  PROVE  WholeInv' /\ FilesUsable' /\ Survive
<1> DEFINE p == call[c].path
<1>1. /\ p \in Names /\ DOMAIN disk = Names /\ disk'[p] = d
      /\ \A n \in Names : n # p => disk'[n] = disk[n]
  BY Domains, CreatingKnows DEF WInv, DataOK
<1>2. ASSUME NEW b \in Callers PROVE WholeAt(call[b])'
  <2>1. CASE b = c
    BY <2>1
  <2>2. CASE b # c
    <3>1. call'[b] = call[b] /\ WholeAt(call[b]) /\ StepOK(b, call[b])
      BY <2>2, Domains DEF Local, WInv, WholeInv
    <3>2. ~Creating(call[b])
      BY <2>2, <3>1, Domains DEF OneCreator, StepOK, WInv
    <3>3. CASE call[b].step \in {"related", "memohead"}
      <4>1. call[b].path \in Names /\ Readable(disk[call[b].path])
            /\ disk[call[b].path].memo
        BY <3>1, <3>3 DEF StepOK, Opening, WholeAt
      <4>2. Readable(disk'[call[b].path]) /\ disk'[call[b].path].memo
        BY <1>1, <4>1 DEF GoesFurther
      <4> QED
        BY <3>1, <3>3, <4>2 DEF WholeAt
    <3>4. CASE call[b].step \notin {"related", "memohead"}
      <4>1. call'[b].step \notin Early
        BY <3>1, <3>2, <3>4 DEF Creating, Early
      <4> QED
        BY <4>1, NotEarly
    <3> QED
      BY <3>3, <3>4
  <2> QED
    BY <2>1, <2>2
<1>3. ASSUME NEW k \in DOMAIN files' PROVE Usable(disk'[files'[k].path])
  <2>1. CASE k \in DOMAIN files /\ files'[k].path = files[k].path
    <3>1. files[k].path \in Names /\ Usable(disk[files[k].path])
      <4>1. files \in Seq(FileSet) /\ k \in 1..Len(files)
        BY <2>1, Domains DEF WInv, DataOK
      <4>2. files[k] \in FileSet
        BY <4>1, MemberOfSeq
      <4> QED
        BY <2>1, <4>2 DEF WInv, FilesUsable, FileSet
    <3> QED
      BY <1>1, <2>1, <3>1 DEF GoesFurther
  <2>2. CASE ~(k \in DOMAIN files /\ files'[k].path = files[k].path)
    BY <1>1, <2>2 DEF SameFiles, OneMore
  <2> QED
    BY <2>1, <2>2
<1>4. Survive
  BY <1>1 DEF GoesFurther, Survive
<1> QED
  BY <1>2, <1>3, <1>4 DEF WholeInv, FilesUsable

(* A step after which a table can be used is NewTable's last at it, or it  *)
(* is at the zeros next.                                                   *)
Fills(c, d) ==
  Usable(d) => \/ Intact(d)
               \/ /\ call'[c].path = call[c].path
                  /\ call'[c].step \in {"writefill", "writepad"}

(* What is asked of a step that writes. *)
Writing(c, d) ==
  /\ Creating(call[c]) /\ disk' = [disk EXCEPT ![call[c].path] = d]
  /\ GoesFurther(disk[call[c].path], d)
  /\ WholeAt(call[c])' /\ Fills(c, d)
  /\ SameFiles \/ (OneMore(call[c].path) /\ Usable(d))

LEMMA Writes ==
  ASSUME WInv, NEW c \in Callers,
         \/ MakeDbf(c) \/ MakeFpt(c) \/ WriteHead(c) \/ WriteColumns(c) \/ WriteMark(c)
         \/ WriteFill(c) \/ WriteMemoHead(c) \/ WriteMemoPad(c)
  PROVE  \E d : Writing(c, d)
<1> DEFINE p == call[c].path
<1>1. /\ Inv /\ call[c] \in CallSet /\ WholeAt(call[c]) /\ Creating(call[c])
      /\ p \in Names /\ disk[p] \in Contents /\ DOMAIN disk = Names
  <2>1. Inv /\ Creating(call[c]) /\ WholeAt(call[c])
    BY DEF WInv, WholeInv, MakeDbf, MakeFpt, WriteHead, WriteColumns, WriteMark,
       WriteFill, WriteMemoHead, WriteMemoPad, Creating
  <2> QED
    BY <2>1, CallFields, CreatingKnows, Domains DEF DataOK
<1>2. ASSUME NEW d, disk' = [disk EXCEPT ![p] = d]
      PROVE  disk'[p] = d
  BY <1>1, <1>2
<1>3. CASE MakeDbf(c)
  <2> DEFINE d == [disk[p] EXCEPT !.dbf = "empty"]
  <2>1. PICK r : r = [call[c] EXCEPT !.dbf = Len(handles'),
                        !.step = IF call[c].memo THEN "makefpt" ELSE "writehead"]
    OBVIOUS
  <2>2. /\ Goto(c, r) /\ files' = files /\ disk' = [disk EXCEPT ![p] = d]
        /\ call[c].step = "make"
    BY <1>3, <2>1 DEF MakeDbf
  <2>3. /\ r.path = p /\ r.step = IF call[c].memo THEN "makefpt" ELSE "writehead"
        /\ r.memo = call[c].memo
    BY <1>1, <2>1 DEF CallSet
  <2>4. d.dbf = "empty" /\ disk[p].dbf = "none" /\ disk'[p] = d
    BY <1>1, <1>2, <2>2 DEF Contents, WholeAt
  <2> HIDE DEF d
  <2>5. WholeAt(call[c])'
    <3>1. call'[c] = r /\ disk'[r.path].dbf = "empty"
      BY <1>1, <2>2, <2>3, <2>4, NowAt
    <3> QED
      BY <2>3, <3>1 DEF WholeAt
  <2> QED
    BY <1>1, <2>2, <2>4, <2>5, Unchanged
       DEF Writing, Fills, GoesFurther, Usable, Readable, Intact
<1>4. CASE MakeFpt(c)
  <2> DEFINE d == [disk[p] EXCEPT !.fpt = "empty"]
  <2>1. PICK r : r = [call[c] EXCEPT !.fpt = Len(handles'), !.step = "writehead"]
    OBVIOUS
  <2>2. /\ Goto(c, r) /\ files' = files /\ disk' = [disk EXCEPT ![p] = d]
        /\ call[c].step = "makefpt"
    BY <1>4, <2>1 DEF MakeFpt
  <2>3. r.path = p /\ r.step = "writehead"
    BY <1>1, <2>1 DEF CallSet
  <2>4. d.dbf = "empty" /\ d.fpt = "empty" /\ disk[p].dbf = "empty" /\ disk'[p] = d
    BY <1>1, <1>2, <2>2 DEF Contents, WholeAt
  <2> HIDE DEF d
  <2>5. WholeAt(call[c])'
    BY <1>1, <2>2, <2>3, <2>4, NowAt DEF WholeAt
  <2> QED
    BY <1>1, <2>2, <2>4, <2>5, Unchanged
       DEF Writing, Fills, GoesFurther, Usable, Readable, Intact
<1>5. CASE WriteHead(c)
  <2> DEFINE d == [dbf |-> "head", fpt |-> disk[p].fpt, memo |-> call[c].memo,
                   page |-> configs[call[c].cfg].converter, tested |-> call[c].tested]
  <2>1. PICK r : r = [call[c] EXCEPT !.step = "writecols"]
    OBVIOUS
  <2>2. /\ Goto(c, r) /\ files' = files /\ disk' = [disk EXCEPT ![p] = d]
        /\ call[c].step = "writehead"
    BY <1>1, <1>5, <2>1 DEF WriteHead
  <2>3. r.path = p /\ r.step = "writecols" /\ r.memo = call[c].memo
    BY <1>1, <2>1 DEF CallSet
  <2>4. /\ d.dbf = "head" /\ d.memo = r.memo /\ (r.memo => d.fpt = "empty")
        /\ disk[p].dbf = "empty" /\ disk'[p] = d
    BY <1>1, <1>2, <2>2, <2>3 DEF WholeAt
  <2> HIDE DEF d
  <2>5. WholeAt(call[c])'
    BY <1>1, <2>2, <2>3, <2>4, NowAt DEF WholeAt
  <2> QED
    BY <1>1, <2>2, <2>4, <2>5, Unchanged
       DEF Writing, Fills, GoesFurther, Usable, Readable, Intact
<1>6. CASE WriteColumns(c)
  <2> DEFINE d == [disk[p] EXCEPT !.dbf = "columns"]
  <2>1. PICK r : r = [call[c] EXCEPT !.step = "writemark"]
    OBVIOUS
  <2>2. /\ Goto(c, r) /\ files' = files /\ disk' = [disk EXCEPT ![p] = d]
        /\ call[c].step = "writecols"
    BY <1>6, <2>1 DEF WriteColumns
  <2>3. r.path = p /\ r.step = "writemark" /\ r.memo = call[c].memo
    BY <1>1, <2>1 DEF CallSet
  <2>4. /\ d.dbf = "columns" /\ d.memo = r.memo /\ (r.memo => d.fpt = "empty")
        /\ disk[p].dbf = "head" /\ disk'[p] = d
    BY <1>1, <1>2, <2>2, <2>3 DEF Contents, WholeAt
  <2> HIDE DEF d
  <2>5. WholeAt(call[c])'
    BY <1>1, <2>2, <2>3, <2>4, NowAt DEF WholeAt
  <2> QED
    BY <1>1, <2>2, <2>4, <2>5, Unchanged
       DEF Writing, Fills, GoesFurther, Usable, Readable, Intact
<1>7. CASE WriteMark(c)
  <2> DEFINE d == [disk[p] EXCEPT !.dbf = "marked"]
  <2>1. PICK r : r = [call[c] EXCEPT !.step = "writefill"]
    OBVIOUS
  <2>2. /\ Goto(c, r) /\ files' = files /\ disk' = [disk EXCEPT ![p] = d]
        /\ call[c].step = "writemark"
    BY <1>7, <2>1 DEF WriteMark
  <2>3. r.path = p /\ r.step = "writefill" /\ r.memo = call[c].memo
    BY <1>1, <2>1 DEF CallSet
  <2>4. /\ d.dbf = "marked" /\ d.memo = r.memo /\ (r.memo => d.fpt = "empty")
        /\ disk[p].dbf = "columns" /\ disk'[p] = d
    BY <1>1, <1>2, <2>2, <2>3 DEF Contents, WholeAt
  <2> HIDE DEF d
  <2>5. WholeAt(call[c])'
    BY <1>1, <2>2, <2>3, <2>4, NowAt DEF WholeAt
  <2>6. GoesFurther(disk[p], d)
    BY <2>4 DEF GoesFurther, Usable, Readable, Intact
  <2>7. Fills(c, d)
    BY <1>1, <2>2, <2>3, NowAt DEF Fills
  <2> QED
    BY <1>1, <2>2, <2>5, <2>6, <2>7, Unchanged DEF Writing
<1>8. CASE WriteFill(c)
  <2> DEFINE d == [disk[p] EXCEPT !.dbf = "whole"]
  <2>1. disk' = [disk EXCEPT ![p] = d] /\ call[c].step = "writefill"
    BY <1>8 DEF WriteFill
  <2>2. /\ d.dbf = "whole" /\ d.memo = disk[p].memo /\ d.fpt = disk[p].fpt
        /\ disk[p].dbf = "marked" /\ disk'[p] = d
        /\ disk[p].memo = call[c].memo /\ (call[c].memo => disk[p].fpt = "empty")
    BY <1>1, <1>2, <2>1 DEF Contents, WholeAt
  <2> HIDE DEF d
  <2>3. GoesFurther(disk[p], d) /\ Fills(c, d) /\ (~call[c].memo => Usable(d))
    BY <2>2 DEF GoesFurther, Fills, Usable, Readable, Intact
  <2>4. CASE call[c].memo
    <3>1. PICK r : r = [call[c] EXCEPT !.step = "writememo"]
      OBVIOUS
    <3>2. Goto(c, r) /\ files' = files
      BY <1>8, <2>4, <3>1 DEF WriteFill
    <3>3. r.path = p /\ r.step = "writememo"
      BY <1>1, <3>1 DEF CallSet
    <3>4. WholeAt(call[c])'
      BY <1>1, <2>2, <2>4, <3>2, <3>3, NowAt DEF WholeAt
    <3> QED
      BY <1>1, <2>1, <2>3, <3>2, <3>4, Unchanged DEF Writing
  <2>5. CASE ~call[c].memo
    <3>1. Created(c)
      BY <1>8, <2>5 DEF WriteFill
    <3> QED
      BY <1>1, <2>1, <2>3, <2>5, <3>1, CreatedCalls DEF Writing
  <2> QED
    BY <2>4, <2>5
<1>9. CASE WriteMemoHead(c)
  <2> DEFINE d == [disk[p] EXCEPT !.fpt = "marked"]
  <2>1. PICK r : r = [call[c] EXCEPT !.step = "writepad"]
    OBVIOUS
  <2>2. /\ Goto(c, r) /\ files' = files /\ disk' = [disk EXCEPT ![p] = d]
        /\ call[c].step = "writememo"
    BY <1>9, <2>1 DEF WriteMemoHead
  <2>3. r.path = p /\ r.step = "writepad"
    BY <1>1, <2>1 DEF CallSet
  <2>4. /\ d.dbf = "whole" /\ disk[p].dbf = "whole" /\ d.memo /\ disk[p].memo
        /\ d.fpt = "marked" /\ disk[p].fpt = "empty" /\ disk'[p] = d
    BY <1>1, <1>2, <2>2 DEF Contents, WholeAt
  <2> HIDE DEF d
  <2>5. WholeAt(call[c])'
    BY <1>1, <2>2, <2>3, <2>4, NowAt DEF WholeAt
  <2>6. GoesFurther(disk[p], d)
    BY <2>4 DEF GoesFurther, Usable, Readable, Intact
  <2>7. Fills(c, d)
    BY <1>1, <2>2, <2>3, NowAt DEF Fills
  <2> QED
    BY <1>1, <2>2, <2>5, <2>6, <2>7, Unchanged DEF Writing
<1>10. CASE WriteMemoPad(c)
  <2> DEFINE d == [disk[p] EXCEPT !.fpt = "whole"]
  <2>1. disk' = [disk EXCEPT ![p] = d] /\ call[c].step = "writepad" /\ Created(c)
    BY <1>10 DEF WriteMemoPad
  <2>2. /\ disk[p].dbf = "whole" /\ disk[p].memo /\ disk[p].fpt = "marked"
        /\ d.dbf = "whole" /\ d.memo = disk[p].memo /\ d.fpt = "whole"
    BY <1>1, <2>1 DEF Contents, WholeAt
  <2> HIDE DEF d
  <2>3. GoesFurther(disk[p], d) /\ Usable(d) /\ Fills(c, d)
    BY <2>2 DEF GoesFurther, Fills, Usable, Readable, Intact
  <2> QED
    BY <1>1, <2>1, <2>3, CreatedCalls DEF Writing
<1> QED
  BY <1>3, <1>4, <1>5, <1>6, <1>7, <1>8, <1>9, <1>10

(***************************************************************************)
(* The theorems.                                                           *)
(***************************************************************************)
LEMMA WholeNext ==
  ASSUME OneCreator, WInv, [Next]_vars
  PROVE  WInv' /\ Survive
<1>1. Inv'
  BY InvNext DEF WInv
<1>2. ASSUME NEW c \in Callers, Begin(c) \/ Step(c) \/ IOFails(c)
      PROVE  WholeInv' /\ FilesUsable' /\ Survive
  <2>1. Local(c)
    BY <1>2, StepsAreLocal DEF WInv
  <2>2. Quiet(c) \/ \E d : Writing(c, d)
    BY <1>2, BeginsQuietly, OpensQuietly, GoesOnQuietly, Writes, FailsQuietly
       DEF Step, Quiet, WInv
  <2>3. CASE Quiet(c)
    BY <2>1, <2>3, QuietSteps DEF Quiet, Survive
  <2>4. ASSUME NEW d, Writing(c, d) PROVE WholeInv' /\ FilesUsable' /\ Survive
    BY <2>1, <2>4, WritingSteps DEF Writing, Survive
  <2> QED
    BY <2>2, <2>3, <2>4
<1>3. CASE Crash
  <2>1. /\ disk' = disk /\ DOMAIN files' = {}
        /\ \A c \in Callers : call'[c].step \notin Early
    BY <1>3 DEF Crash, NoCall, Early
  <2> QED
    BY <1>1, <2>1, NotEarly DEF WInv, WholeInv, FilesUsable, Survive
<1>4. CASE UNCHANGED vars
  BY <1>1, <1>4 DEF vars, WInv, WholeInv, WholeAt, FilesUsable, Survive
<1> QED
  BY <1>1, <1>2, <1>3, <1>4 DEF Next, WInv

LEMMA WholeInit == Init => WInv
<1> SUFFICES ASSUME Init PROVE WInv
  OBVIOUS
<1>1. /\ Inv /\ DOMAIN files = {}
  BY InvInit DEF Init
<1>2. \A c \in Callers : WholeAt(call[c])
  BY DEF Init, NoCall, WholeAt
<1> QED
  BY <1>1, <1>2 DEF WInv, WholeInv, FilesUsable

(* A step that neither writes nor fails is not one of a goroutine that is  *)
(* at the zeros.                                                           *)
LEMMA FillGoesOn ==
  ASSUME NEW c \in Callers, Begin(c) \/ Step(c),
         call[c].step \in {"writefill", "writepad"}
  PROVE  WriteFill(c) \/ WriteMemoPad(c)
<1>1. ~Begin(c)
  BY DEF Begin, OpenTable, OpenDatabase, NewTable, Close, CloseDatabase, Call
<1>2. ~(OpenHandle(c) \/ ReadHead(c) \/ OpenRelated(c) \/ ReadMemoHead(c))
  BY DEF OpenHandle, ReadHead, OpenRelated, ReadMemoHead
<1>3. ~(SearchCatalog(c) \/ SkipRow(c) \/ OpenRow(c) \/ DatabaseOpened(c) \/ Stat(c))
  BY DEF SearchCatalog, SkipRow, OpenRow, DatabaseOpened, Stat
<1>4. ~(CloseDbf(c) \/ CloseFpt(c) \/ CloseNext(c))
  BY DEF CloseDbf, CloseFpt, CloseNext
<1>5. ~(MakeDbf(c) \/ MakeFpt(c) \/ WriteHead(c) \/ WriteColumns(c) \/ WriteMark(c)
        \/ WriteMemoHead(c))
  BY DEF MakeDbf, MakeFpt, WriteHead, WriteColumns, WriteMark, WriteMemoHead
<1> QED
  BY <1>1, <1>2, <1>3, <1>4, <1>5 DEF Step

LEMMA FillNext ==
  ASSUME WInv, FillInv, [Next]_vars
  PROVE  FillInv'
<1>1. faults \in Nat /\ faults' \in Nat /\ DOMAIN disk = Names
  <2>1. Inv /\ Inv'
    BY InvNext DEF WInv
  <2> QED
    BY <2>1, FilesAssumption, Domains DEF Inv, TypeOK, DataOK
<1>2. CASE faults' = faults + 1
  BY <1>1, <1>2 DEF FillInv
<1>3. ASSUME NEW c \in Callers, Begin(c) \/ Step(c), faults' = faults PROVE FillInv'
  <2>1. Local(c) /\ Inv
    BY <1>3, StepsAreLocal DEF WInv
  <2>2. ASSUME NEW n \in Names, AtFill(n), ~AtFill(n)'
        PROVE  call[c].path = n /\ (WriteFill(c) \/ WriteMemoPad(c))
    <3>1. PICK b \in Callers : call[b].path = n /\ call[b].step \in {"writefill", "writepad"}
      BY <2>2 DEF AtFill
    <3>2. b = c
      BY <2>1, <2>2, <3>1 DEF Local, AtFill
    <3> QED
      BY <1>3, <3>1, <3>2, FillGoesOn
  <2>3. CASE \E d : Writing(c, d)
    <3>1. PICK d : Writing(c, d)
      BY <2>3
    <3>2. PICK p : p = call[c].path
      OBVIOUS
    <3>3. /\ disk'[p] = d /\ \A n \in Names : n # p => disk'[n] = disk[n]
      BY <1>1, <2>1, <3>1, <3>2, CreatingKnows DEF Writing
    <3>4. Usable(d) => Intact(d) \/ AtFill(p)'
      BY <3>1, <3>2 DEF Writing, Fills, AtFill
    <3>5. ASSUME NEW n \in Names, Usable(disk'[n])
          PROVE  Intact(disk'[n]) \/ AtFill(n)' \/ faults' > 0
      <4>1. CASE n = p
        BY <3>3, <3>4, <3>5, <4>1
      <4>2. CASE n # p
        BY <1>3, <2>2, <3>2, <3>3, <3>5, <4>2 DEF FillInv
      <4> QED
        BY <4>1, <4>2
    <3> QED
      BY <3>5 DEF FillInv
  <2>4. CASE ~\E d : Writing(c, d)
    <3>1. disk' = disk /\ ~(WriteFill(c) \/ WriteMemoPad(c))
      BY <1>3, <2>1, <2>4, BeginsQuietly, OpensQuietly, GoesOnQuietly, Writes
         DEF Step, Quiet, WInv
    <3>2. ASSUME NEW n \in Names, Usable(disk'[n])
          PROVE  Intact(disk'[n]) \/ AtFill(n)' \/ faults' > 0
      BY <1>3, <2>2, <3>1, <3>2 DEF FillInv
    <3> QED
      BY <3>2 DEF FillInv
  <2> QED
    BY <2>3, <2>4
<1>4. ASSUME NEW c \in Callers, Begin(c) \/ Step(c) PROVE faults' = faults
  <2>1. CASE Begin(c)
    BY <2>1 DEF Begin, OpenTable, OpenDatabase, NewTable, Close, CloseDatabase
  <2>2. CASE Step(c)
    BY <2>2, StepsUncounted
  <2> QED
    BY <1>4, <2>1, <2>2
<1>5. CASE UNCHANGED vars
  <2>1. disk' = disk /\ call' = call /\ faults' = faults
    BY <1>5 DEF vars
  <2> QED
    BY <2>1 DEF FillInv, AtFill
<1> QED
  BY <1>2, <1>3, <1>4, <1>5 DEF Next, IOFails, Crash

LEMMA FillInit == CleanDisks /\ Init => FillInv
<1> SUFFICES ASSUME CleanDisks, Init PROVE FillInv
  OBVIOUS
<1>1. PICK start \in Disks : disk = start
  BY DEF Init
<1> QED
  BY <1>1 DEF CleanDisks, FillInv

(* If one goroutine at most creates tables, OpenTable, OpenDatabase and    *)
(* NewTable return Files over tables whose columns are ended and whose     *)
(* memo file has its header, however many goroutines open while a table is *)
(* being created, and whatever fails.                                      *)
THEOREM OpensReadableFiles ==
  ASSUME OneCreator
  PROVE  Spec => []FilesUsable
<1>1. WInv /\ [Next]_vars => WInv'
  BY WholeNext
<1>2. WInv => FilesUsable
  BY DEF WInv
<1> QED
  BY <1>1, <1>2, WholeInit, PTL DEF Spec

(* And if the program starts on tables that nobody left half way, a File   *)
(* is over one without the zeros behind its headers only while NewTable is *)
(* at them, or after something failed.                                     *)
THEOREM OpensUsableFiles ==
  ASSUME OneCreator, CleanDisks
  PROVE  Spec => []FilesAreUsable
<1>1. WInv /\ FillInv /\ [Next]_vars => (WInv /\ FillInv)'
  BY WholeNext, FillNext
<1>2. WInv /\ FillInv => FilesAreUsable
  <2> SUFFICES ASSUME WInv, FillInv, NEW k \in DOMAIN files
               PROVE  LET p == files[k].path IN
                        Usable(disk[p]) /\ (Intact(disk[p]) \/ AtFill(p) \/ faults > 0)
    BY DEF FilesAreUsable
  <2>1. files[k].path \in Names
    <3>1. files \in Seq(FileSet) /\ k \in 1..Len(files)
      BY Domains DEF WInv, DataOK
    <3>2. files[k] \in FileSet
      BY <3>1, MemberOfSeq
    <3> QED
      BY <3>2 DEF FileSet
  <2> QED
    BY <2>1 DEF WInv, FilesUsable, FillInv
<1>3. Init => WInv /\ FillInv
  BY WholeInit, FillInit
<1> QED
  BY <1>1, <1>2, <1>3, PTL DEF Spec

(* If one goroutine at most creates tables, NewTable never empties a table *)
(* that is there, for all that it asks first and makes the file later.     *)
THEOREM CreationSpares ==
  ASSUME OneCreator
  PROVE  Spec => TablesSurviveCreate
<1>1. WInv /\ [Next]_vars => WInv' /\ [Survive]_vars
  BY WholeNext
<1> QED
  BY <1>1, WholeInit, PTL DEF Spec, TablesSurviveCreate, Survive

(***************************************************************************)
(* Converters.                                                             *)
(***************************************************************************)

ConfigFits(config, page) ==
  \/ config.source = "file" /\ ~config.mine
  \/ config.converter = IF config.interpret \/ config.given = None THEN page
                                                                   ELSE config.given

FInv == WInv /\ FitsInv /\ ConverterFits

(***************************************************************************)
(* What a step of a goroutine is asked for.                                *)
(***************************************************************************)

(* Configs stay what they are: only the one that c opens with may get its  *)
(* first converter.                                                        *)
ConfigsKept(c) ==
  /\ DOMAIN configs \subseteq DOMAIN configs'
  /\ \A k \in DOMAIN configs :
       /\ configs'[k].source = configs[k].source /\ configs'[k].given = configs[k].given
       /\ configs'[k].mine = configs[k].mine /\ configs'[k].interpret = configs[k].interpret
       /\ configs[k].io => configs'[k].io
       /\ \/ configs'[k].converter = configs[k].converter
          \/ configs[k].converter = None /\ Opening(call[c]) /\ k = call[c].cfg
  /\ \A k \in DOMAIN configs' : ConfigOK(configs'[k])

(* NewTable has written the header, with the mark of its Config. *)
HeadWritten == {"writecols", "writemark", "writefill", "writememo", "writepad"}

(* The marks of the files others have read, or written, stay.              *)
PagesKept(c) ==
  \A b \in Callers :
    b # c /\ call[b].step \in {"related", "memohead"} \cup HeadWritten =>
      disk'[call[b].path].page = disk[call[b].path].page

Apart(c) == \A b \in Callers : b # c /\ Opening(call'[c]) /\ Opening(call[b]) =>
                                 call'[c].cfg # call[b].cfg

FilesFit == \A k \in DOMAIN files' :
  \/ /\ k \in DOMAIN files /\ files'[k].cfg = files[k].cfg /\ files'[k].page = files[k].page
  \/ ConfigFits(configs'[files'[k].cfg], files'[k].page)

Fitting(c) == ConfigsKept(c) /\ PagesKept(c) /\ FitsAt(call[c])' /\ Apart(c) /\ FilesFit

LEMMA Known ==
  ASSUME FInv
  PROVE  /\ Inv /\ WholeInv /\ None \notin Pages
         /\ \A k \in DOMAIN configs : ConfigOK(configs[k]) /\ configs[k] \in ConfigSet
         /\ \A k \in DOMAIN files : /\ files[k] \in FileSet
                                    /\ configs[files[k].cfg].converter \in Pages
                                    /\ ConfigFits(configs[files[k].cfg], files[k].page)
         /\ \A c \in Callers : FitsAt(call[c]) /\ StepOK(c, call[c]) /\ call[c] \in CallSet
<1>1. Inv /\ WholeInv /\ FitsInv /\ ConverterFits
  BY DEF FInv, WInv
<1>2. configs \in Seq(ConfigSet) /\ files \in Seq(FileSet)
      /\ DOMAIN configs = 1..Len(configs) /\ DOMAIN files = 1..Len(files)
      /\ \A k \in DOMAIN files : configs[files[k].cfg].converter \in Pages
  BY <1>1, Domains DEF DataOK
<1>3. \A k \in DOMAIN configs : configs[k] \in ConfigSet
  BY <1>2, MemberOfSeq
<1>4. \A k \in DOMAIN files : files[k] \in FileSet
  BY <1>2, MemberOfSeq
<1>5. \A k \in DOMAIN files : ConfigFits(configs[files[k].cfg], files[k].page)
  BY <1>1 DEF ConverterFits, OfFileDatabase, Fits, Wanted, ConfigFits
<1> QED
  BY <1>1, <1>2, <1>3, <1>4, <1>5, Domains, FilesAssumption DEF FitsInv

LEMMA FittingSteps ==
  ASSUME FInv, NEW c \in Callers, Local(c), Fitting(c)
  PROVE  FitsInv' /\ ConverterFits'
<1>1. ASSUME NEW b \in Callers PROVE FitsAt(call[b])'
  <2>1. CASE b = c
    BY <2>1 DEF Fitting
  <2>2. CASE b # c
    <3> DEFINE r == call[b]
               config == configs[r.cfg]
               new == configs'[r.cfg]
    <3>1. call'[b] = r /\ FitsAt(r) /\ StepOK(b, r)
      BY <2>2, Known DEF Local
    <3>2. ASSUME Opening(r)
          PROVE  /\ new.io /\ (new.mine => new.source = "file")
                 /\ r.step \in {"handle", "head"} /\ ByMark(new) => new.converter = None
                 /\ r.step \in {"related", "memohead"} /\ ByMark(new) =>
                      new.converter = disk'[r.path].page
      <4>1. r.cfg \in DOMAIN configs /\ config.io /\ (config.mine => config.source = "file")
        BY <3>1, <3>2 DEF StepOK, FitsAt
      <4>2. /\ new.source = config.source /\ new.given = config.given
            /\ new.mine = config.mine /\ (config.io => new.io)
            /\ \/ new.converter = config.converter
               \/ config.converter = None /\ Opening(call[c]) /\ r.cfg = call[c].cfg
        BY <4>1 DEF Fitting, ConfigsKept
      <4>3. ~(Opening(call[c]) /\ r.cfg = call[c].cfg)
        BY <2>2, <3>2 DEF FInv, FitsInv, ConfigsApart
      <4>4. ByMark(new) = ByMark(config) /\ new.converter = config.converter
        BY <4>2, <4>3 DEF ByMark
      <4>5. r.step \in {"related", "memohead"} => disk'[r.path].page = disk[r.path].page
        BY <2>2 DEF Fitting, PagesKept
      <4> QED
        BY <3>1, <4>1, <4>2, <4>4, <4>5 DEF FitsAt
    <3>3. ASSUME r.step \in HeadWritten
          PROVE  new.converter = disk'[r.path].page
      <4>1. r.cfg \in DOMAIN configs /\ config.converter \in Pages
            /\ config.converter = disk[r.path].page
        BY <3>1, <3>3 DEF StepOK, Creating, FitsAt, HeadWritten
      <4>2. new.converter = config.converter
        BY <4>1, Known DEF Fitting, ConfigsKept
      <4>3. disk'[r.path].page = disk[r.path].page
        BY <2>2, <3>3 DEF Fitting, PagesKept
      <4> QED
        BY <4>1, <4>2, <4>3
    <3>4. ASSUME r.op = "opendb" PROVE configs'[r.dbcfg].mine
      <4>1. r.dbcfg \in DOMAIN configs /\ configs[r.dbcfg].mine
        BY <3>1, <3>4 DEF StepOK, FitsAt
      <4> QED
        BY <4>1 DEF Fitting, ConfigsKept
    <3> QED
      BY <3>1, <3>2, <3>3, <3>4 DEF FitsAt, Opening, HeadWritten
  <2> QED
    BY <2>1, <2>2
<1>2. ConfigsApart'
  <2> SUFFICES ASSUME NEW a \in Callers, NEW b \in Callers, a # b, Opening(call'[a]),
                      Opening(call'[b])
               PROVE  call'[a].cfg # call'[b].cfg
    BY DEF ConfigsApart, Opening
  <2>1. \A e \in Callers : e # c => call'[e] = call[e]
    BY DEF Local
  <2>2. Apart(c) /\ ConfigsApart
    BY DEF Fitting, FInv, FitsInv
  <2> QED
    BY <2>1, <2>2 DEF Apart, ConfigsApart
<1>3. ASSUME NEW k \in DOMAIN files' PROVE ConfigFits(configs'[files'[k].cfg], files'[k].page)
  <2>1. CASE k \in DOMAIN files /\ files'[k].cfg = files[k].cfg /\ files'[k].page = files[k].page
    <3> DEFINE j == files[k].cfg
    <3>1. j \in DOMAIN configs /\ configs[j].converter \in Pages /\ None \notin Pages
          /\ ConfigFits(configs[j], files[k].page)
      BY <2>1, Known DEF FileSet
    <3>2. /\ configs'[j].source = configs[j].source /\ configs'[j].given = configs[j].given
          /\ configs'[j].mine = configs[j].mine
          /\ configs'[j].interpret = configs[j].interpret
          /\ configs'[j].converter = configs[j].converter
      BY <3>1 DEF Fitting, ConfigsKept
    <3> QED
      BY <2>1, <3>1, <3>2 DEF ConfigFits
  <2>2. CASE ~(k \in DOMAIN files /\ files'[k].cfg = files[k].cfg /\ files'[k].page = files[k].page)
    BY <2>2 DEF Fitting, FilesFit
  <2> QED
    BY <2>1, <2>2
<1>4. ConverterFits'
  BY <1>3 DEF ConverterFits, OfFileDatabase, Fits, Wanted, ConfigFits
<1>5. \A k \in DOMAIN configs' : ConfigOK(configs'[k])
  BY DEF Fitting, ConfigsKept
<1> QED
  BY <1>1, <1>2, <1>4, <1>5 DEF FitsInv

(***************************************************************************)
(* The parts of what is asked for.                                         *)
(***************************************************************************)
LEMMA SameConfigs ==
  ASSUME FInv, NEW c, configs' = configs
  PROVE  ConfigsKept(c)
BY Known DEF ConfigsKept

LEMMA SamePages ==
  ASSUME NEW c, disk' = disk
  PROVE  PagesKept(c)
BY DEF PagesKept

LEMMA SameFilesFit ==
  ASSUME files' = files
  PROVE  FilesFit
BY DEF FilesFit

(* A call that goes on, but not with a file. *)
LEMMA GoesFit ==
  ASSUME FInv, NEW c \in Callers, ConfigsKept(c), NEW r, call'[c] = r,
         r.step \notin {"handle", "head", "related", "memohead"} \cup HeadWritten,
         r.op = "opendb" => r.dbcfg \in DOMAIN configs /\ configs[r.dbcfg].mine
  PROVE  FitsAt(call[c])' /\ Apart(c)
<1>1. ~Opening(r)
  BY DEF Opening
<1>2. r.op = "opendb" => configs'[r.dbcfg].mine
  BY DEF ConfigsKept
<1> QED
  BY <1>1, <1>2 DEF FitsAt, Opening, Apart, HeadWritten

LEMMA ReturnsFit ==
  ASSUME FInv, NEW c \in Callers, ConfigsKept(c), NEW how, Return(c, how)
  PROVE  FitsAt(call[c])' /\ Apart(c)
<1>1. call'[c] = NoCall
  BY NowAt, Known
<1>2. NoCall.step = "idle" /\ NoCall.op = "none"
  BY DEF NoCall
<1> QED
  BY <1>1, <1>2, GoesFit DEF HeadWritten

LEMMA ReheldFields ==
  ASSUME FInv, NEW fs, Rehold(fs)
  PROVE  /\ DOMAIN fs = DOMAIN files
         /\ \A k \in DOMAIN files : fs[k].cfg = files[k].cfg /\ fs[k].page = files[k].page
<1>1. DOMAIN fs = DOMAIN files
  BY DEF Rehold
<1>2. Inv
  BY Known
<1>3. \A k \in DOMAIN files : fs[k].cfg = files[k].cfg /\ fs[k].page = files[k].page
  BY <1>2, ReheldFiles
<1> QED
  BY <1>1, <1>3

LEMMA ReheldFit ==
  ASSUME FInv, NEW fs, Rehold(fs), files' = fs
  PROVE  FilesFit
BY ReheldFields DEF FilesFit

LEMMA AppendedFits ==
  ASSUME FInv, NEW fs, Rehold(fs), fs \in Seq(FileSet), NEW file, files' = Append(fs, file),
         ConfigFits(configs'[file.cfg], file.page)
  PROVE  FilesFit
<1>1. DOMAIN fs = DOMAIN files
      /\ \A k \in DOMAIN files : fs[k].cfg = files[k].cfg /\ fs[k].page = files[k].page
  BY ReheldFields
<1>2. Len(fs) \in Nat /\ DOMAIN fs = 1..Len(fs)
  OBVIOUS
<1>3. DOMAIN files' = 1..(Len(fs) + 1) /\ \A k \in DOMAIN fs : files'[k] = fs[k]
  BY <1>2
<1>4. files'[Len(fs) + 1] = file
  BY <1>2
<1>5. \A k \in DOMAIN files' : k \in DOMAIN fs \/ k = Len(fs) + 1
  BY <1>2, <1>3
<1> QED
  BY <1>1, <1>3, <1>4, <1>5 DEF FilesFit

LEMMA FailsFitting ==
  ASSUME FInv, NEW c \in Callers, ConfigsKept(c), disk' = disk, Fail(c)
  PROVE  Fitting(c)
<1>1. files' = Dropped(c) /\ Return(c, "error")
  BY DEF Fail
<1>2. Rehold(Dropped(c))
  BY DroppedIsReheld, Known
<1> QED
  BY <1>1, <1>2, ReheldFit, ReturnsFit, SamePages DEF Fitting

LEMMA OpenedFitting ==
  ASSUME FInv, NEW c \in Callers, ConfigsKept(c), disk' = disk, Opening(call[c]), Opened(c),
         ConfigFits(configs'[call[c].cfg], disk[call[c].path].page)
  PROVE  Fitting(c)
<1> DEFINE n == Catalog[call[c].row]
           File(held) == [cfg |-> call[c].cfg, dbf |-> call[c].dbf, fpt |-> call[c].fpt,
                          path |-> call[c].path, page |-> disk[call[c].path].page,
                          held |-> held]
           kept == [i \in DOMAIN files |->
                      IF i = call[c].tables[n] THEN [files[i] EXCEPT !.held = "lost"]
                                               ELSE files[i]]
           next == [call[c] EXCEPT !.dbf = 0, !.fpt = 0, !.cfg = 0, !.path = None]
<1>1. Inv /\ files \in Seq(FileSet) /\ Rehold(files) /\ call[c] \in CallSet
  BY Known, FilesAreReheld, Domains DEF DataOK
<1>2. Rehold(kept) /\ kept \in Seq(FileSet)
  <2>1. DOMAIN kept = DOMAIN files /\ kept = [j \in 1..Len(files) |-> kept[j]]
    BY <1>1, Domains
  <2>2. \A j \in DOMAIN files : \E h \in Holders : kept[j] = [files[j] EXCEPT !.held = h]
    BY <1>1 DEF Rehold, Holders
  <2> HIDE DEF kept
  <2>3. Rehold(kept)
    BY <2>1, <2>2 DEF Rehold
  <2> QED
    BY <1>1, <2>1, <2>3, ReheldFiles
<1>3. \E held : files' = Append(files, File(held)) \/ files' = Append(kept, File(held))
  BY DEF Opened
<1>4. \A held : File(held).cfg = call[c].cfg /\ File(held).page = disk[call[c].path].page
  OBVIOUS
<1>5. FilesFit
  <2> HIDE DEF kept, File
  <2> QED
    BY <1>1, <1>2, <1>3, <1>4, AppendedFits
<1>6. FitsAt(call[c])' /\ Apart(c)
  <2>1. CASE call[c].op = "open"
    BY <2>1, ReturnsFit DEF Opened
  <2>2. CASE call[c].op # "open"
    <3>1. PICK r : /\ Goto(c, r) /\ call[c].op = "opendb"
                   /\ \/ \E x : r = [next EXCEPT !.main = x, !.step = "catalog"]
                      \/ \E x : r = [next EXCEPT !.tables[n] = x, !.step = "row", !.row = @ + 1]
      BY <2>2 DEF Opened
    <3>2. r.step \in {"catalog", "row"} /\ r.op = call[c].op /\ r.dbcfg = call[c].dbcfg
      BY <1>1, <3>1, ZenonT(30) DEF CallSet
    <3>3. call[c].dbcfg \in DOMAIN configs /\ configs[call[c].dbcfg].mine
      BY <3>1, Known DEF StepOK, FitsAt
    <3> QED
      BY <1>1, <3>1, <3>2, <3>3, GoesFit, NowAt DEF HeadWritten
  <2> QED
    BY <2>1, <2>2
<1> QED
  BY <1>5, <1>6, SamePages DEF Fitting
(***************************************************************************)
(* The steps that read.                                                    *)
(***************************************************************************)
LEMMA FreshConfig ==
  ASSUME FInv, NEW c \in Callers, NEW new, configs' = Append(configs, new), ConfigOK(new)
  PROVE  /\ ConfigsKept(c) /\ configs'[Len(configs) + 1] = new
         /\ \A b \in Callers : call[b].cfg # Len(configs) + 1
<1>1. configs \in Seq(ConfigSet) /\ DOMAIN configs = 1..Len(configs) /\ Len(configs) \in Nat
  BY Known, Domains DEF DataOK
<1>2. /\ DOMAIN configs' = 1..(Len(configs) + 1) /\ configs'[Len(configs) + 1] = new
      /\ \A k \in DOMAIN configs : configs'[k] = configs[k]
  BY <1>1
<1>3. \A k \in DOMAIN configs' : k \in DOMAIN configs \/ k = Len(configs) + 1
  BY <1>1, <1>2
<1>4. ConfigsKept(c)
  BY <1>1, <1>2, <1>3, Known DEF ConfigsKept
<1>5. ASSUME NEW b \in Callers PROVE call[b].cfg # Len(configs) + 1
  <2>1. call[b].cfg \in 0..Len(configs)
    BY Known DEF CallSet
  <2> QED
    BY <1>1, <2>1
<1> QED
  BY <1>2, <1>4, <1>5

(* A call enters with a Config that is free and has not served. *)
LEMMA EnterFits ==
  ASSUME FInv, NEW c \in Callers, NEW k \in DOMAIN configs, Free(k), ~configs[k].io, Enter(k),
         NEW r, call'[c] = r, r.step = FirstStep(k), r.cfg = Entered(k),
         r.op = "opendb" => r.dbcfg = k
  PROVE  ConfigsKept(c) /\ FitsAt(call[c])' /\ Apart(c)
<1> DEFINE old == configs[k]
           new == configs'[r.cfg]
<1>1. old \in ConfigSet /\ ConfigOK(old) /\ old.mine /\ \A b \in Callers : call[b].cfg # k
  BY Known DEF Free
<1>2. /\ ConfigsKept(c)
      /\ new.io /\ new.given = old.given /\ new.converter = old.converter
      /\ new.source = old.source /\ (new.mine => old.source = "file")
      /\ \A b \in Callers : call[b].cfg # r.cfg
  <2>1. CASE old.source = "file"
    <3>1. PICK config : config = [old EXCEPT !.io = TRUE]
      OBVIOUS
    <3>2. /\ config.io /\ config.given = old.given /\ config.converter = old.converter
          /\ config.source = old.source /\ config.mine = old.mine
          /\ config.interpret = old.interpret
      BY <1>1, <3>1 DEF ConfigSet
    <3>3. ConfigOK(config)
      BY <1>1, <2>1, <3>2 DEF ConfigOK
    <3>4. configs' = [configs EXCEPT ![k] = config] /\ r.cfg = k
      BY <2>1, <3>1 DEF Enter, Entered
    <3>5. /\ DOMAIN configs' = DOMAIN configs /\ configs'[k] = config
          /\ \A j \in DOMAIN configs : j # k => configs'[j] = configs[j]
      BY <3>4
    <3>6. ConfigsKept(c)
      BY <3>2, <3>3, <3>5, Known DEF ConfigsKept
    <3> QED
      BY <1>1, <2>1, <3>2, <3>4, <3>5, <3>6
  <2>2. CASE old.source # "file"
    <3>1. PICK config : config = [old EXCEPT !.io = TRUE, !.mine = FALSE]
      OBVIOUS
    <3>2. /\ config.io /\ config.given = old.given /\ config.converter = old.converter
          /\ config.source = old.source /\ config.mine = FALSE
          /\ config.interpret = old.interpret
      BY <1>1, <3>1 DEF ConfigSet
    <3>3. ConfigOK(config)
      BY <1>1, <3>2 DEF ConfigOK
    <3>4. configs' = Append(configs, config) /\ r.cfg = Len(configs) + 1
      BY <2>2, <3>1 DEF Enter, Entered
    <3> QED
      BY <3>2, <3>3, <3>4, FreshConfig
  <2> QED
    BY <2>1, <2>2
<1>3. r.step \in {"handle", "head"}
  BY DEF FirstStep
<1>4. new.given = None => new.converter = None
  BY <1>1, <1>2 DEF ConfigOK, ConfigSet
<1>5. r.op = "opendb" => configs'[r.dbcfg].mine
  BY <1>1, <1>2 DEF ConfigsKept
<1>6. FitsAt(call[c])'
  BY <1>2, <1>3, <1>4, <1>5 DEF FitsAt, ByMark, Opening
<1> QED
  BY <1>2, <1>6 DEF Apart

LEMMA BeginsFitting ==
  ASSUME FInv, NEW c \in Callers, Begin(c)
  PROVE  Fitting(c)
<1>1. disk' = disk /\ files' = files /\ Inv
  BY Known DEF Begin, OpenTable, OpenDatabase, NewTable, Close, CloseDatabase
<1>2. ASSUME ConfigsKept(c), FitsAt(call[c])', Apart(c) PROVE Fitting(c)
  BY <1>1, <1>2, SamePages, SameFilesFit DEF Fitting
<1>3. ASSUME configs' = configs, NEW how, Return(c, how) PROVE Fitting(c)
  BY <1>2, <1>3, SameConfigs, ReturnsFit
<1>4. ASSUME configs' = configs, NEW r, Goto(c, r), r.op # "opendb",
             r.step \in {"stat", "closedbf", "next"}
      PROVE  Fitting(c)
  BY <1>1, <1>2, <1>4, SameConfigs, GoesFit, NowAt DEF HeadWritten
<1>5. ASSUME NEW k \in DOMAIN configs, NEW n \in Names, OpenTable(c, k, n) PROVE Fitting(c)
  <2>1. PICK r : r = [NoCall EXCEPT !.op = "open", !.step = FirstStep(k),
                        !.cfg = Entered(k), !.path = n]
    OBVIOUS
  <2>2. r.step = FirstStep(k) /\ r.cfg = Entered(k) /\ r.op = "open"
    BY <2>1 DEF NoCall
  <2>3. CASE SingleSource(configs[k])
    <3>1. Goto(c, r) /\ Enter(k) /\ Free(k) /\ ~configs[k].io
      BY <1>5, <2>1, <2>3 DEF OpenTable, SingleSource
    <3> QED
      BY <1>1, <1>2, <2>2, <3>1, EnterFits, NowAt
  <2>4. CASE ~SingleSource(configs[k])
    BY <1>3, <1>5, <2>4 DEF OpenTable
  <2> QED
    BY <2>3, <2>4
<1>6. ASSUME NEW k \in DOMAIN configs, OpenDatabase(c, k) PROVE Fitting(c)
  <2>1. PICK r : r = [NoCall EXCEPT !.op = "opendb", !.step = FirstStep(k),
                        !.cfg = Entered(k), !.dbcfg = k, !.path = Container]
    OBVIOUS
  <2>2. r.step = FirstStep(k) /\ r.cfg = Entered(k) /\ r.dbcfg = k
    BY <2>1 DEF NoCall
  <2>3. CASE SingleSource(configs[k])
    <3>1. Goto(c, r) /\ Enter(k) /\ Free(k) /\ ~configs[k].io
      BY <1>6, <2>1, <2>3 DEF OpenDatabase, SingleSource
    <3> QED
      BY <1>1, <1>2, <2>2, <3>1, EnterFits, NowAt
  <2>4. CASE ~SingleSource(configs[k])
    BY <1>3, <1>6, <2>4 DEF OpenDatabase
  <2> QED
    BY <2>3, <2>4
<1>7. ASSUME NEW k \in DOMAIN configs, NEW n \in Names, NEW memo, NEW tested,
             NewTable(c, k, n, memo, tested)
      PROVE  Fitting(c)
  <2>1. PICK r : r = [NoCall EXCEPT !.op = "create", !.step = "stat", !.cfg = k,
                        !.path = n, !.memo = memo, !.tested = tested]
    OBVIOUS
  <2>2. r.op # "opendb" /\ r.step = "stat" /\ Goto(c, r) /\ configs' = configs
    BY <1>7, <2>1 DEF NewTable, NoCall
  <2> QED
    BY <1>4, <2>2
<1>8. ASSUME NEW k \in DOMAIN files, Close(c, k) PROVE Fitting(c)
  <2>1. PICK r : r = [NoCall EXCEPT !.op = "close", !.step = "closedbf", !.file = k]
    OBVIOUS
  <2>2. r.op # "opendb" /\ r.step = "closedbf" /\ Goto(c, r) /\ configs' = configs
    BY <1>8, <2>1 DEF Close, NoCall
  <2> QED
    BY <1>4, <2>2
<1>9. ASSUME NEW d \in DOMAIN dbs, CloseDatabase(c, d) PROVE Fitting(c)
  <2>1. PICK r : r = [NoCall EXCEPT !.op = "closedb", !.step = "next", !.db = d,
                        !.left = {n \in Names : dbs[d].tables[n] # 0}]
    OBVIOUS
  <2>2. r.op # "opendb" /\ r.step = "next" /\ Goto(c, r) /\ configs' = configs
    BY <1>9, <2>1 DEF CloseDatabase, NoCall
  <2> QED
    BY <1>4, <2>2
<1> QED
  BY <1>5, <1>6, <1>7, <1>8, <1>9 DEF Begin

(* An opening call that goes on to its next file step. *)
LEMMA OpeningFits ==
  ASSUME FInv, NEW c \in Callers, ConfigsKept(c), disk' = disk, files' = files,
         Opening(call[c]), NEW r, Goto(c, r), Opening(r), r.cfg = call[c].cfg, r.op = call[c].op,
         r.path = call[c].path, r.dbcfg = call[c].dbcfg,
         r.step \in {"handle", "head"} /\ ByMark(configs'[r.cfg]) =>
           configs'[r.cfg].converter = None,
         r.step \in {"related", "memohead"} /\ ByMark(configs'[r.cfg]) =>
           configs'[r.cfg].converter = disk[r.path].page
  PROVE  Fitting(c)
<1>1. call'[c] = r /\ r.cfg \in DOMAIN configs /\ FitsAt(call[c])
  BY NowAt, Known DEF StepOK
<1>2. configs'[r.cfg].io /\ (configs'[r.cfg].mine => configs'[r.cfg].source = "file")
  BY <1>1 DEF FitsAt, ConfigsKept
<1>3. r.op = "opendb" => configs'[r.dbcfg].mine
  <2>1. r.op = "opendb" => configs[r.dbcfg].mine
    BY <1>1 DEF FitsAt
  <2>2. r.op = "opendb" => r.dbcfg \in DOMAIN configs
    BY Known DEF StepOK
  <2> QED
    BY <2>1, <2>2 DEF ConfigsKept
<1>4. FitsAt(call[c])'
  BY <1>1, <1>2, <1>3 DEF FitsAt, Opening
<1>5. Apart(c)
  BY <1>1 DEF Apart, FInv, FitsInv, ConfigsApart
<1> QED
  BY <1>4, <1>5, SamePages, SameFilesFit DEF Fitting

LEMMA OpenHandleFitting ==
  ASSUME FInv, NEW c \in Callers, OpenHandle(c)
  PROVE  Fitting(c)
<1>1. /\ Opening(call[c]) /\ disk' = disk /\ configs' = configs /\ ConfigsKept(c)
      /\ call[c] \in CallSet /\ FitsAt(call[c]) /\ call[c].step = "handle"
  BY SameConfigs, Known DEF OpenHandle, Opening
<1>2. CASE Fail(c)
  BY <1>1, <1>2, FailsFitting
<1>3. CASE ~Fail(c)
  <2>1. PICK r : r = [call[c] EXCEPT !.step = "head", !.dbf = Len(handles')]
    OBVIOUS
  <2>2. Goto(c, r) /\ files' = files
    BY <1>3, <2>1 DEF OpenHandle
  <2>3. /\ r.step = "head" /\ r.cfg = call[c].cfg /\ r.op = call[c].op
        /\ r.path = call[c].path /\ r.dbcfg = call[c].dbcfg
    BY <1>1, <2>1 DEF CallSet
  <2>4. ByMark(configs'[r.cfg]) => configs'[r.cfg].converter = None
    BY <1>1, <2>3 DEF FitsAt
  <2> QED
    BY <1>1, <2>2, <2>3, <2>4, OpeningFits DEF Opening
<1> QED
  BY <1>2, <1>3

LEMMA ReadHeadFitting ==
  ASSUME FInv, NEW c \in Callers, ReadHead(c)
  PROVE  Fitting(c)
<1> DEFINE j == call[c].cfg
           d == disk[call[c].path]
           new == Converted(configs[j], d.page)
<1>1. /\ call[c].step = "head" /\ Opening(call[c]) /\ disk' = disk /\ j \in DOMAIN configs
      /\ call[c] \in CallSet /\ FitsAt(call[c]) /\ configs[j] \in ConfigSet
      /\ ConfigOK(configs[j]) /\ configs[j].io /\ (configs[j].mine => configs[j].source = "file")
  BY Known DEF ReadHead, Opening, StepOK, FitsAt
<1>2. CASE ~(Readable(d) /\ ValidVersion(d, configs[j]))
  <2>1. Fail(c) /\ configs' = configs
    BY <1>2 DEF ReadHead
  <2> QED
    BY <1>1, <2>1, SameConfigs, FailsFitting
<1>3. CASE Readable(d) /\ ValidVersion(d, configs[j])
  <2>1. configs' = [configs EXCEPT ![j] = new]
    BY <1>3 DEF ReadHead
  <2>2. /\ new.source = configs[j].source /\ new.given = configs[j].given
        /\ new.mine = configs[j].mine /\ new.interpret = configs[j].interpret /\ new.io
        /\ new.converter = IF configs[j].converter = None THEN d.page ELSE configs[j].converter
    BY <1>1 DEF Converted, ConfigOK, ConfigSet
  <2>3. ConfigOK(new)
    BY <1>1, <2>2 DEF ConfigOK
  <2>4. ByMark(new) => new.converter = d.page
    BY <1>1, <2>2 DEF ByMark, FitsAt
  <2>5. ConfigFits(new, d.page)
    BY <2>2, <2>3, <2>4 DEF ConfigFits, ConfigOK, ByMark
  <2> HIDE DEF new
  <2>6. configs'[j] = new /\ DOMAIN configs' = DOMAIN configs
        /\ \A k \in DOMAIN configs : k # j => configs'[k] = configs[k]
    BY <1>1, <2>1
  <2>7. ConfigsKept(c)
    BY <1>1, <2>2, <2>3, <2>6, Known DEF ConfigsKept
  <2>8. CASE Fail(c)
    BY <1>1, <2>7, <2>8, FailsFitting
  <2>9. CASE Opened(c)
    BY <1>1, <2>5, <2>6, <2>7, <2>9, OpenedFitting
  <2>10. CASE ~Fail(c) /\ ~Opened(c)
    <3>1. PICK r : r = [call[c] EXCEPT !.step = "related"]
      OBVIOUS
    <3>2. Goto(c, r) /\ files' = files
      BY <1>3, <2>10, <3>1 DEF ReadHead
    <3>3. /\ r.step = "related" /\ r.cfg = call[c].cfg /\ r.op = call[c].op
          /\ r.path = call[c].path /\ r.dbcfg = call[c].dbcfg
      BY <1>1, <3>1 DEF CallSet
    <3> QED
      BY <1>1, <2>4, <2>6, <2>7, <3>2, <3>3, OpeningFits DEF Opening
  <2> QED
    BY <2>8, <2>9, <2>10
<1> QED
  BY <1>2, <1>3

LEMMA OpenRelatedFitting ==
  ASSUME FInv, NEW c \in Callers, OpenRelated(c)
  PROVE  Fitting(c)
<1>1. /\ Opening(call[c]) /\ disk' = disk /\ configs' = configs /\ ConfigsKept(c)
      /\ call[c] \in CallSet /\ FitsAt(call[c]) /\ call[c].step = "related"
  BY SameConfigs, Known DEF OpenRelated, Opening
<1>2. CASE Fail(c)
  BY <1>1, <1>2, FailsFitting
<1>3. CASE ~Fail(c)
  <2>1. PICK r : /\ Goto(c, r) /\ files' = files
                 /\ \/ r = [call[c] EXCEPT !.step = "memohead", !.fpt = Len(handles')]
                    \/ r = [call[c] EXCEPT !.step = "memohead"]
    BY <1>3 DEF OpenRelated
  <2>2. /\ r.step = "memohead" /\ r.cfg = call[c].cfg /\ r.op = call[c].op
        /\ r.path = call[c].path /\ r.dbcfg = call[c].dbcfg
    BY <1>1, <2>1 DEF CallSet
  <2>3. ByMark(configs'[r.cfg]) => configs'[r.cfg].converter = disk[r.path].page
    BY <1>1, <2>2 DEF FitsAt
  <2> QED
    BY <1>1, <2>1, <2>2, <2>3, OpeningFits DEF Opening
<1> QED
  BY <1>2, <1>3

LEMMA ReadMemoHeadFitting ==
  ASSUME FInv, NEW c \in Callers, ReadMemoHead(c)
  PROVE  Fitting(c)
<1> DEFINE config == configs[call[c].cfg]
<1>1. /\ Opening(call[c]) /\ disk' = disk /\ configs' = configs /\ ConfigsKept(c)
      /\ FitsAt(call[c]) /\ call[c].step = "memohead" /\ ConfigOK(config)
  BY SameConfigs, Known DEF ReadMemoHead, Opening, StepOK
<1>2. ConfigFits(config, disk[call[c].path].page)
  BY <1>1 DEF FitsAt, ConfigFits, ConfigOK, ByMark
<1> QED
  BY <1>1, <1>2, FailsFitting, OpenedFitting DEF ReadMemoHead
(***************************************************************************)
(* The steps between.                                                      *)
(***************************************************************************)
LEMMA OpenRowFitting ==
  ASSUME FInv, NEW c \in Callers, OpenRow(c)
  PROVE  Fitting(c)
<1> DEFINE k == call[c].dbcfg
           new == TableConfig(k)
           path == TablePath(configs[k].source, Catalog[call[c].row])
<1>1. /\ Inv /\ call[c] \in CallSet /\ call[c].op = "opendb" /\ k \in DOMAIN configs
      /\ configs[k].mine /\ configs[k] \in ConfigSet /\ ConfigOK(configs[k])
      /\ disk' = disk /\ files' = files /\ configs' = Append(configs, new)
  BY Known DEF OpenRow, StepOK, FitsAt
<1>2. /\ new.io /\ new.mine = FALSE /\ new.source = configs[k].source
      /\ new.given = configs[k].given /\ new.converter = configs[k].converter
      /\ new.interpret = configs[k].interpret
  BY <1>1 DEF TableConfig, ConfigSet
<1>3. ConfigOK(new) /\ (ByMark(new) => new.converter = None)
  BY <1>1, <1>2 DEF ConfigOK, ByMark, ConfigSet
<1> HIDE DEF new
<1>4. /\ ConfigsKept(c) /\ configs'[Len(configs) + 1] = new
      /\ \A b \in Callers : call[b].cfg # Len(configs) + 1
  BY <1>1, <1>3, FreshConfig
<1>5. Len(configs') = Len(configs) + 1
  BY <1>1, Domains DEF DataOK
<1>6. PICK r : r = [call[c] EXCEPT !.step = FirstStep(k), !.cfg = Len(configs'), !.path = path]
  OBVIOUS
<1>7. call'[c] = r
  <2>1. Goto(c, r)
    BY <1>6 DEF OpenRow
  <2> QED
    BY <1>1, <2>1, NowAt
<1> HIDE DEF path
<1>8. /\ r.step \in {"handle", "head"} /\ r.cfg = Len(configs) + 1 /\ r.op = "opendb"
      /\ r.dbcfg = k
  BY <1>1, <1>5, <1>6 DEF CallSet, FirstStep
<1>9. FitsAt(call[c])'
  BY <1>1, <1>2, <1>3, <1>4, <1>7, <1>8 DEF FitsAt, Opening, ConfigsKept
<1>10. Apart(c)
  BY <1>4, <1>7, <1>8 DEF Apart
<1> QED
  BY <1>1, <1>4, <1>9, <1>10, SamePages, SameFilesFit DEF Fitting

LEMMA GoesOnFitting ==
  ASSUME FInv, NEW c \in Callers,
         \/ SearchCatalog(c) \/ SkipRow(c) \/ DatabaseOpened(c) \/ Stat(c)
         \/ CloseDbf(c) \/ CloseFpt(c) \/ CloseNext(c)
  PROVE  Fitting(c)
<1>1. Inv /\ disk' = disk /\ configs' = configs /\ ConfigsKept(c) /\ call[c] \in CallSet
      /\ StepOK(c, call[c]) /\ FitsAt(call[c])
  BY SameConfigs, Known DEF SearchCatalog, SkipRow, DatabaseOpened, Stat, CloseDbf, CloseFpt,
     CloseNext
<1>2. ASSUME files' = files, NEW how, Return(c, how) PROVE Fitting(c)
  BY <1>1, <1>2, ReturnsFit, SamePages, SameFilesFit DEF Fitting
<1>3. ASSUME files' = files, NEW r, Goto(c, r), r.op = call[c].op, r.dbcfg = call[c].dbcfg,
             r.step \in {"row", "make", "next", "closedbf", "closefpt"}
      PROVE  Fitting(c)
  <2>1. call'[c] = r
    BY <1>1, <1>3, NowAt
  <2>2. r.op = "opendb" => r.dbcfg \in DOMAIN configs /\ configs[r.dbcfg].mine
    BY <1>1, <1>3 DEF StepOK, FitsAt
  <2> QED
    BY <1>1, <1>3, <2>1, <2>2, GoesFit, SamePages, SameFilesFit DEF Fitting, HeadWritten
<1>4. CASE SearchCatalog(c)
  <2>1. PICK r : r = [call[c] EXCEPT !.step = "row", !.row = 1]
    OBVIOUS
  <2>2. Goto(c, r) /\ files' = files
    BY <1>4, <2>1 DEF SearchCatalog
  <2>3. r.step = "row" /\ r.op = call[c].op /\ r.dbcfg = call[c].dbcfg
    BY <1>1, <2>1 DEF CallSet
  <2> QED
    BY <1>3, <2>2, <2>3
<1>5. CASE SkipRow(c)
  <2>1. PICK r : r = [call[c] EXCEPT !.row = AfterSkipped(@)]
    OBVIOUS
  <2>2. Goto(c, r) /\ files' = files /\ call[c].step = "row"
    BY <1>5, <2>1 DEF SkipRow
  <2>3. r.step = "row" /\ r.op = call[c].op /\ r.dbcfg = call[c].dbcfg
    BY <1>1, <2>1, <2>2 DEF CallSet
  <2> QED
    BY <1>3, <2>2, <2>3
<1>6. CASE DatabaseOpened(c)
  <2>1. PICK fs : files' = fs
    OBVIOUS
  <2>2. /\ DOMAIN fs = DOMAIN files
        /\ \A k \in DOMAIN files : fs[k] = files[k]
                                   \/ \E h : fs[k] = [files[k] EXCEPT !.held = h]
    BY <1>6, <2>1, SMTT(30) DEF DatabaseOpened
  <2>3. \A k \in DOMAIN files : fs[k].cfg = files[k].cfg /\ fs[k].page = files[k].page
    BY <2>2, Known DEF FileSet
  <2>4. FilesFit
    BY <2>1, <2>2, <2>3 DEF FilesFit
  <2> QED
    BY <1>1, <1>6, <2>4, ReturnsFit, SamePages DEF DatabaseOpened, Fitting
<1>7. CASE Stat(c)
  <2>1. PICK r : r = [call[c] EXCEPT !.step = "make"]
    OBVIOUS
  <2>2. files' = files /\ (Return(c, "error") \/ Goto(c, r))
    BY <1>7, <2>1 DEF Stat
  <2>3. r.step = "make" /\ r.op = call[c].op /\ r.dbcfg = call[c].dbcfg
    BY <1>1, <2>1 DEF CallSet
  <2> QED
    BY <1>2, <1>3, <2>2, <2>3
<1>8. ASSUME files' = files, FileClosed(c) PROVE Fitting(c)
  <2>1. PICK r : r = [call[c] EXCEPT !.step = "next"]
    OBVIOUS
  <2>2. Return(c, "ok") \/ Goto(c, r)
    BY <1>8, <2>1 DEF FileClosed
  <2>3. r.step = "next" /\ r.op = call[c].op /\ r.dbcfg = call[c].dbcfg
    BY <1>1, <2>1 DEF CallSet
  <2> QED
    BY <1>2, <1>3, <1>8, <2>2, <2>3
<1>9. CASE CloseDbf(c)
  <2>1. PICK r : r = [call[c] EXCEPT !.step = "closefpt"]
    OBVIOUS
  <2>2. files' = files /\ (Return(c, "error") \/ FileClosed(c) \/ Goto(c, r))
    BY <1>9, <2>1 DEF CloseDbf
  <2>3. r.step = "closefpt" /\ r.op = call[c].op /\ r.dbcfg = call[c].dbcfg
    BY <1>1, <2>1 DEF CallSet
  <2> QED
    BY <1>2, <1>3, <1>8, <2>2, <2>3
<1>10. CASE CloseFpt(c)
  <2>1. files' = files /\ (Return(c, "error") \/ FileClosed(c))
    BY <1>10 DEF CloseFpt
  <2> QED
    BY <1>2, <1>8, <2>1
<1>11. CASE CloseNext(c)
  <2>1. PICK r : /\ Goto(c, r) /\ files' = files
                 /\ \/ \E x, y : r = [call[c] EXCEPT !.step = "closedbf", !.left = x, !.file = y]
                    \/ \E y : r = [call[c] EXCEPT !.step = "closedbf", !.file = y]
    BY <1>11 DEF CloseNext
  <2>2. r.step = "closedbf" /\ r.op = call[c].op /\ r.dbcfg = call[c].dbcfg
    BY <1>1, <2>1 DEF CallSet
  <2> QED
    BY <1>3, <2>1, <2>2
<1> QED
  BY <1>4, <1>5, <1>6, <1>7, <1>9, <1>10, <1>11

LEMMA FailsFit ==
  ASSUME FInv, NEW c \in Callers, IOFails(c)
  PROVE  Fitting(c)
BY SameConfigs, FailsFitting DEF IOFails

(***************************************************************************)
(* The steps that write.                                                   *)
(***************************************************************************)
LEMMA WritingPages ==
  ASSUME FInv, OneCreator, NEW c \in Callers, Creating(call[c]), NEW d,
         disk' = [disk EXCEPT ![call[c].path] = d],
         ~Readable(disk[call[c].path]) \/ d.page = disk[call[c].path].page
  PROVE  PagesKept(c)
<1> DEFINE p == call[c].path
<1>1. /\ Inv /\ p \in Names /\ DOMAIN disk = Names /\ disk'[p] = d
      /\ \A n \in Names : n # p => disk'[n] = disk[n]
  BY Known, Domains, CreatingKnows DEF DataOK
<1>2. ASSUME NEW b \in Callers, b # c,
             call[b].step \in {"related", "memohead"} \cup HeadWritten
      PROVE  disk'[call[b].path].page = disk[call[b].path].page
  <2>1. StepOK(b, call[b]) /\ StepOK(c, call[c]) /\ WholeAt(call[b])
    BY Known DEF WholeInv
  <2>2. ~Creating(call[b])
    BY <1>2, <2>1 DEF OneCreator, StepOK
  <2>3. call[b].step \in {"related", "memohead"}
    BY <1>2, <2>2 DEF Creating, HeadWritten
  <2>4. call[b].path \in Names /\ Readable(disk[call[b].path])
    BY <2>1, <2>3 DEF StepOK, Opening, WholeAt
  <2> QED
    BY <1>1, <2>4
<1> QED
  BY <1>2 DEF PagesKept

LEMMA CreatedFits ==
  ASSUME FInv, NEW c \in Callers, configs' = configs, Creating(call[c]), Created(c),
         configs[call[c].cfg].converter = disk[call[c].path].page
  PROVE  FilesFit /\ FitsAt(call[c])' /\ Apart(c)
<1>1. PICK file : /\ files' = Append(files, file) /\ file.cfg = call[c].cfg
                  /\ file.page = disk[call[c].path].page
  BY DEF Created
<1>2. Rehold(files) /\ files \in Seq(FileSet)
  BY Known, FilesAreReheld, Domains DEF DataOK
<1>3. ConfigOK(configs[call[c].cfg])
  BY Known DEF StepOK
<1>4. ConfigFits(configs'[file.cfg], file.page)
  BY <1>1, <1>3 DEF ConfigFits, ConfigOK
<1>5. FilesFit
  BY <1>1, <1>2, <1>4, AppendedFits
<1> QED
  BY <1>5, SameConfigs, ReturnsFit DEF Created

LEMMA WritesFitting ==
  ASSUME FInv, OneCreator, NEW c \in Callers,
         \/ MakeDbf(c) \/ MakeFpt(c) \/ WriteHead(c) \/ WriteColumns(c) \/ WriteMark(c)
         \/ WriteFill(c) \/ WriteMemoHead(c) \/ WriteMemoPad(c)
  PROVE  Fitting(c)
<1> DEFINE p == call[c].path
           converter == configs[call[c].cfg].converter
<1>1. /\ Inv /\ call[c] \in CallSet /\ FitsAt(call[c]) /\ WholeAt(call[c])
      /\ Creating(call[c]) /\ p \in Names /\ disk[p] \in Contents /\ DOMAIN disk = Names
      /\ configs' = configs /\ ConfigsKept(c) /\ call[c].op = "create"
  <2>1. Inv /\ Creating(call[c]) /\ configs' = configs
    BY Known DEF MakeDbf, MakeFpt, WriteHead, WriteColumns, WriteMark, WriteFill,
       WriteMemoHead, WriteMemoPad, Creating
  <2> QED
    BY <2>1, Known, CreatingKnows, Domains, SameConfigs DEF DataOK, StepOK, WholeInv
<1>2. ASSUME NEW d, disk' = [disk EXCEPT ![p] = d],
             ~Readable(disk[p]) \/ d.page = disk[p].page, files' = files,
             NEW r, Goto(c, r), r.op = "create", r.path = p, r.cfg = call[c].cfg,
             \/ r.step \in {"makefpt", "writehead"}
             \/ r.step \in HeadWritten /\ converter = d.page
      PROVE  Fitting(c)
  <2>1. call'[c] = r /\ disk'[p] = d
    BY <1>1, <1>2, NowAt
  <2>2. FitsAt(call[c])'
    BY <1>1, <1>2, <2>1 DEF FitsAt, Opening, HeadWritten
  <2>3. Apart(c)
    BY <1>2, <2>1 DEF Apart, Opening, HeadWritten
  <2> QED
    BY <1>1, <1>2, <2>2, <2>3, WritingPages, SameFilesFit DEF Fitting
<1>3. ASSUME NEW d, disk' = [disk EXCEPT ![p] = d],
             ~Readable(disk[p]) \/ d.page = disk[p].page, Created(c), converter = disk[p].page
      PROVE  Fitting(c)
  BY <1>1, <1>3, WritingPages, CreatedFits DEF Fitting
<1>4. CASE MakeDbf(c)
  <2> DEFINE d == [disk[p] EXCEPT !.dbf = "empty"]
  <2>1. PICK r : r = [call[c] EXCEPT !.dbf = Len(handles'),
                        !.step = IF call[c].memo THEN "makefpt" ELSE "writehead"]
    OBVIOUS
  <2>2. Goto(c, r) /\ files' = files /\ disk' = [disk EXCEPT ![p] = d]
    BY <1>4, <2>1 DEF MakeDbf
  <2>3. /\ r.step \in {"makefpt", "writehead"} /\ r.op = call[c].op /\ r.path = p
        /\ r.cfg = call[c].cfg
    BY <1>1, <2>1 DEF CallSet
  <2>4. d.page = disk[p].page
    BY <1>1 DEF Contents
  <2> HIDE DEF d
  <2> QED
    BY <1>1, <1>2, <2>2, <2>3, <2>4
<1>5. CASE MakeFpt(c)
  <2> DEFINE d == [disk[p] EXCEPT !.fpt = "empty"]
  <2>1. PICK r : r = [call[c] EXCEPT !.fpt = Len(handles'), !.step = "writehead"]
    OBVIOUS
  <2>2. Goto(c, r) /\ files' = files /\ disk' = [disk EXCEPT ![p] = d]
    BY <1>5, <2>1 DEF MakeFpt
  <2>3. r.step = "writehead" /\ r.op = call[c].op /\ r.path = p /\ r.cfg = call[c].cfg
    BY <1>1, <2>1 DEF CallSet
  <2>4. d.page = disk[p].page
    BY <1>1 DEF Contents
  <2> HIDE DEF d
  <2> QED
    BY <1>1, <1>2, <2>2, <2>3, <2>4
<1>6. CASE WriteHead(c)
  <2> DEFINE d == [dbf |-> "head", fpt |-> disk[p].fpt, memo |-> call[c].memo,
                   page |-> configs[call[c].cfg].converter, tested |-> call[c].tested]
  <2>1. PICK r : r = [call[c] EXCEPT !.step = "writecols"]
    OBVIOUS
  <2>2. /\ Goto(c, r) /\ files' = files /\ disk' = [disk EXCEPT ![p] = d]
        /\ call[c].step = "writehead"
    BY <1>1, <1>6, <2>1 DEF WriteHead
  <2>3. r.step = "writecols" /\ r.op = call[c].op /\ r.path = p /\ r.cfg = call[c].cfg
    BY <1>1, <2>1 DEF CallSet
  <2>4. d.page = converter /\ ~Readable(disk[p])
    BY <1>1, <2>2 DEF WholeAt, Readable
  <2> HIDE DEF d
  <2> QED
    BY <1>1, <1>2, <2>2, <2>3, <2>4 DEF HeadWritten
<1>7. CASE WriteColumns(c)
  <2> DEFINE d == [disk[p] EXCEPT !.dbf = "columns"]
  <2>1. PICK r : r = [call[c] EXCEPT !.step = "writemark"]
    OBVIOUS
  <2>2. /\ Goto(c, r) /\ files' = files /\ disk' = [disk EXCEPT ![p] = d]
        /\ converter = disk[p].page
    BY <1>1, <1>7, <2>1 DEF WriteColumns, FitsAt
  <2>3. r.step = "writemark" /\ r.op = call[c].op /\ r.path = p /\ r.cfg = call[c].cfg
    BY <1>1, <2>1 DEF CallSet
  <2>4. d.page = disk[p].page
    BY <1>1 DEF Contents
  <2> HIDE DEF d
  <2> QED
    BY <1>1, <1>2, <2>2, <2>3, <2>4 DEF HeadWritten
<1>8. CASE WriteMark(c)
  <2> DEFINE d == [disk[p] EXCEPT !.dbf = "marked"]
  <2>1. PICK r : r = [call[c] EXCEPT !.step = "writefill"]
    OBVIOUS
  <2>2. /\ Goto(c, r) /\ files' = files /\ disk' = [disk EXCEPT ![p] = d]
        /\ converter = disk[p].page
    BY <1>1, <1>8, <2>1 DEF WriteMark, FitsAt
  <2>3. r.step = "writefill" /\ r.op = call[c].op /\ r.path = p /\ r.cfg = call[c].cfg
    BY <1>1, <2>1 DEF CallSet
  <2>4. d.page = disk[p].page
    BY <1>1 DEF Contents
  <2> HIDE DEF d
  <2> QED
    BY <1>1, <1>2, <2>2, <2>3, <2>4 DEF HeadWritten
<1>9. CASE WriteFill(c)
  <2> DEFINE d == [disk[p] EXCEPT !.dbf = "whole"]
  <2>1. disk' = [disk EXCEPT ![p] = d] /\ converter = disk[p].page
    BY <1>1, <1>9 DEF WriteFill, FitsAt
  <2>2. d.page = disk[p].page
    BY <1>1 DEF Contents
  <2> HIDE DEF d
  <2>3. CASE call[c].memo
    <3>1. PICK r : r = [call[c] EXCEPT !.step = "writememo"]
      OBVIOUS
    <3>2. Goto(c, r) /\ files' = files
      BY <1>9, <2>3, <3>1 DEF WriteFill
    <3>3. r.step = "writememo" /\ r.op = call[c].op /\ r.path = p /\ r.cfg = call[c].cfg
      BY <1>1, <3>1 DEF CallSet
    <3> QED
      BY <1>1, <1>2, <2>1, <2>2, <3>2, <3>3 DEF HeadWritten
  <2>4. CASE ~call[c].memo
    <3>1. Created(c)
      BY <1>9, <2>4 DEF WriteFill
    <3> QED
      BY <1>3, <2>1, <2>2, <3>1
  <2> QED
    BY <2>3, <2>4
<1>10. CASE WriteMemoHead(c)
  <2> DEFINE d == [disk[p] EXCEPT !.fpt = "marked"]
  <2>1. PICK r : r = [call[c] EXCEPT !.step = "writepad"]
    OBVIOUS
  <2>2. /\ Goto(c, r) /\ files' = files /\ disk' = [disk EXCEPT ![p] = d]
        /\ converter = disk[p].page
    BY <1>1, <1>10, <2>1 DEF WriteMemoHead, FitsAt
  <2>3. r.step = "writepad" /\ r.op = call[c].op /\ r.path = p /\ r.cfg = call[c].cfg
    BY <1>1, <2>1 DEF CallSet
  <2>4. d.page = disk[p].page
    BY <1>1 DEF Contents
  <2> HIDE DEF d
  <2> QED
    BY <1>1, <1>2, <2>2, <2>3, <2>4 DEF HeadWritten
<1>11. CASE WriteMemoPad(c)
  <2> DEFINE d == [disk[p] EXCEPT !.fpt = "whole"]
  <2>1. disk' = [disk EXCEPT ![p] = d] /\ converter = disk[p].page /\ Created(c)
    BY <1>1, <1>11 DEF WriteMemoPad, FitsAt
  <2>2. d.page = disk[p].page
    BY <1>1 DEF Contents
  <2> HIDE DEF d
  <2> QED
    BY <1>3, <2>1, <2>2
<1> QED
  BY <1>4, <1>5, <1>6, <1>7, <1>8, <1>9, <1>10, <1>11

(***************************************************************************)
(* The theorems.                                                           *)
(***************************************************************************)

(* Configs as a program makes them. *)
Made == configs \in {Configs(setup) : setup \in Setups} /\ DOMAIN files = {}
        /\ \A c \in Callers : call[c] = NoCall

LEMMA MadeFits == NoMarksForced /\ Made => FitsInv /\ ConverterFits
<1> SUFFICES ASSUME NoMarksForced, Made PROVE FitsInv /\ ConverterFits
  OBVIOUS
<1>1. PICK setup \in Setups : configs = Configs(setup)
  BY DEF Made
<1>2. ASSUME NEW k \in DOMAIN configs PROVE ConfigOK(configs[k])
  <2>1. k \in DOMAIN setup
    BY <1>1, <1>2 DEF Configs
  <2>2. ~setup[k].interpret
    BY <2>1 DEF NoMarksForced
  <2>3. /\ configs[k].interpret = setup[k].interpret
        /\ configs[k].given = setup[k].converter /\ configs[k].converter = setup[k].converter
    BY <1>1, <2>1 DEF Configs
  <2> QED
    BY <2>2, <2>3 DEF ConfigOK
<1>3. \A c \in Callers : FitsAt(call[c]) /\ ~Opening(call[c])
  BY DEF Made, NoCall, FitsAt, Opening
<1> QED
  BY <1>2, <1>3 DEF Made, FitsInv, ConfigsApart, ConverterFits

LEMMA FitsInit == NoMarksForced /\ Init => FInv
<1> SUFFICES ASSUME NoMarksForced, Init PROVE FInv
  OBVIOUS
<1>1. Made
  BY DEF Init, Made
<1> QED
  BY <1>1, MadeFits, WholeInit DEF FInv

LEMMA FitsNext ==
  ASSUME OneCreator, NoMarksForced, FInv, [Next]_vars
  PROVE  FInv'
<1>1. WInv'
  BY WholeNext DEF FInv
<1>2. ASSUME NEW c \in Callers, Begin(c) \/ Step(c) \/ IOFails(c)
      PROVE  FitsInv' /\ ConverterFits'
  <2>1. Local(c)
    BY <1>2, StepsAreLocal, Known
  <2>2. Fitting(c)
    BY <1>2, BeginsFitting, OpenHandleFitting, ReadHeadFitting, OpenRelatedFitting,
       ReadMemoHeadFitting, OpenRowFitting, GoesOnFitting, WritesFitting, FailsFit DEF Step
  <2> QED
    BY <2>1, <2>2, FittingSteps
<1>3. CASE Crash
  <2>1. Made'
    BY <1>3 DEF Crash, Made
  <2>2. (NoMarksForced /\ Made => FitsInv /\ ConverterFits)'
    BY MadeFits, PTL
  <2>3. NoMarksForced'
    BY DEF NoMarksForced
  <2> QED
    BY <1>1, <2>1, <2>2, <2>3 DEF FInv
<1>4. CASE UNCHANGED vars
  <2>1. UNCHANGED <<disk, configs, files, call>> /\ FitsInv /\ ConverterFits
    BY <1>4 DEF vars, FInv
  <2>2. FitsInv'
    BY <2>1 DEF FitsInv, FitsAt, ConfigsApart, Opening
  <2>3. ConverterFits'
    BY <2>1 DEF ConverterFits, Fits, Wanted, OfFileDatabase
  <2> QED
    BY <1>1, <2>2, <2>3 DEF FInv
<1> QED
  BY <1>1, <1>2, <1>3, <1>4 DEF Next, FInv

(* If one goroutine at most creates tables, and no Config asks for its     *)
(* converter to be replaced by the mark's (InterpretCodePage), every File  *)
(* but a table of a database opened by its file name decodes with the      *)
(* converter its caller set, or else with its own mark's, for as long as   *)
(* the program runs: no OpenTable, OpenDatabase or NewTable of another     *)
(* goroutine changes it through a Config.                                  *)
THEOREM FilesKeepTheirConverters ==
  ASSUME OneCreator, NoMarksForced
  PROVE  Spec => []ConverterFits
<1>1. FInv /\ [Next]_vars => FInv'
  BY FitsNext
<1>2. FInv => ConverterFits
  BY DEF FInv
<1>3. Init => FInv
  BY FitsInit
<1> QED
  BY <1>1, <1>2, <1>3, PTL DEF Spec

(* The invariant of the run. *)
THEOREM Inductive ==
  ASSUME OneCreator, NoMarksForced, CleanDisks
  PROVE  Spec => []IInv
<1>1. FInv /\ HInv /\ FillInv /\ [Next]_vars => (FInv /\ HInv /\ FillInv)'
  BY FitsNext, HandlesNext, FillNext DEF FInv
<1>2. FInv /\ HInv /\ FillInv => IInv
  BY DEF FInv, WInv, Inv, HInv, ClInv, DInv, IInv
<1>3. Init => FInv /\ HInv /\ FillInv
  BY FitsInit, HandlesInit, FillInit
<1> QED
  BY <1>1, <1>2, <1>3, PTL DEF Spec
=============================================================================
