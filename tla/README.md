# go-dbase in TLA+

A specification of the Go package `dbase` (`src/dbase`): reading and writing
FoxPro/dBase tables (`.DBF`) and their memo files (`.FPT`). The modules are
translated from the code; TLC checks them on small instances, TLAPS proves the
theorems of the `*Proofs` modules for every instance.

## The system

| Part | Code | State | Operations |
|---|---|---|---|
| Rows of an open file | `io_unix.go`, `io_generic.go`, `file.go`, `table.go` | header in memory (`RowsCount`), row pointer, one handle with one cursor, `dbaseMutex`; the file | `NewRow`, `Row.Add`, `Row.Write`, `Row`, `Next`, `GoTo`, `Skip`, `WriteRow`, `ReadRow`, `WriteHeader` |
| Navigation and search | `io_unix.go`, `file.go` | row pointer | `GoTo`, `Skip`, `Next`, `Rows`, `Search`, `Deleted`, `EOF`, `BOF` |
| Memo file | `io_unix.go`, `interpreter.go` | `memoHeader` (`NextFree`, `BlockSize`), second handle, `memoMutex`, `Field.memoPos` | `WriteMemo`, `ReadMemo`, `WriteMemoHeader`, `ReadMemoHeader`, `getMemoRepresentation` |
| Row codec and null flags | `table.go`, `io_unix.go`, `file.go` | none | `ToBytes`, `BytesToRow`, `ReadNullFlag`, `nullFlagPosition` |
| Value conversions | `interpreter.go`, `conversion.go` | none | `Interpret`, `Represent`, Julian dates, null-flag bits |
| Columns and auto-increment | `table.go`, `file.go`, `io_unix.go` | `Column.Next`, one copy in each `File` and one on disk | `RowFromMap`, `Increment`, `WriteColumns`, `ReadColumns`, `NewColumn` |
| In-memory files | `bytes_reader.go` | `data`, `reader`, `pos` | `Read`, `Write`, `Seek` |
| Opening and closing | `io.go`, `io_unix.go`, `io_generic.go`, `dbase.go` | handles, the caller's `Config` | `OpenTable`, `Create`, `Close`, `validateDataSources` |
| Databases | `database.go` | map of open tables | `OpenDatabase`, `Close` |
| Header arithmetic | `header.go` | none | `ColumnsCount`, `FileSize`, `ValidateFileSize` |
| Windows I/O, several processes | `io_windows.go`, `dbase.go` | as the Unix part, with `LockFileEx` if `Config.WriteLock` is set; each process has its own `File` over the one table | the same interface `IO` |
| Encodings, debug, errors, examples | `encoding.go`, `debug.go`, `error.go`, `examples/` | debug flag | conversions, logging |

How they interact: a `Row` points at its `File`; `Row.Write` goes through
`File.WriteRow` to the `IO` implementation, which asks `Row.ToBytes` for the
record; `ToBytes` calls `Represent` for each field, and a memo field writes the
memo file on the way. `ReadRow` and `BytesToRow` are the way back; a memo field
reads the memo file. All goroutines that use a `File` share its header, its row
pointer and the cursor of its handle. `dbaseMutex` is taken by `WriteRow` only,
`memoMutex` by `WriteMemo` only. A `File` reads `RowsCount` and `Column.Next` when it
is opened and writes its own copies back, so two processes (or two `File`s) over one
table know of each other only what the last `OpenTable` read. A `File` keeps a
pointer to the `Config` of its caller, and so do all calls with that `Config`.

What is hard here: interleavings of goroutines between a `Seek` and the `Read`
or `Write` it is for; positions computed before the mutex is taken; the order
header, record (a crash or an error between them); the order memo header, memo
data, record; copies of the header that were read long ago; a key handed out and never
used; long sequences of legal calls (a row written twice, a memo that grows); the
arithmetic of memo blocks and of the size of a file; null-flag bits, which two functions
count in two ways; a `Config` that several calls read and write.

## RowStore, FaultyStore, RowFile: rows of an open file

`RowStore` is the promise: a sequence of rows; `Add` appends one row, `Write`
replaces the row it was read from, `Next` returns the row it names; each call
takes effect in one step between its beginning and its return, or is refused
without effect. `FaultyStore` is what is left of it when I/O errors, torn writes and crashes
strike: a fault ends calls, and of all rows only the one being written may be damaged by it;
an append that failed may leave a hole, which shows when the next row is appended; there
are never more damaged rows than there were faults. `RefinesStore` says that `RowFile`
without faults implements the first, `RefinesFaulty` that `RowFile` with faults implements the second.

`RowFile` is the code. Each goroutine has a label (`pc`), the row it works on
(`pos`, `val`) and the local position (`tgt`). The shared state is
`count` (`header.RowsCount`), `diskCount` (the count on disk), `slots` (the
records on disk), `columnsOK`, `cursor`, `ptr` (`rowPointer`) and `mutex`.
One action is one access to shared state, in the order of the code:

    NewRow | SetValue -> Write | Add -> Lock -> TakeSlot | AppendSlot -> Validate
      -> HdrSeek -> HdrWrite -> RowSeek -> RowWrite (Unlock) -> Return
    NextBegin -> CheckBounds -> ReadSeek -> ReadRecord -> MakeRow -> SkipBegin -> SkipEnd

`TableFull`, `FileTooLarge`, `WriteRefused`, `HdrFail`, `RowFail` are the early
returns; `HdrMisplaced` is `WriteHeader`'s write when a reader has moved the
cursor. `Crash` drops everything in memory and opens the file again.

Abstractions: a record is a payload (author and number), a hole of zeros
(`Zero`), bytes of no row (`Torn`) or a record the header was written over
(`HdrBytes`). A record is taken to be longer than the 30 bytes of the header
and to fit in the header area. `ToBytes` has no effect on what is shared here
(memo fields are a component of their own), so it is not a step; the failure of
`ToBytes` returns before anything changed. Accesses to `RowsCount` and
`rowPointer` outside the mutex are data races in Go; they are modelled as
interleaved accesses of whole words. The write of the 30 header bytes is not torn.

Fairness (`FairSpec`): a goroutine inside a call is scheduled again (weak
fairness of its steps), and `Lock` is strongly fair: a Go mutex goes into
starvation mode when a waiter has waited for 1 ms. Nothing obliges the program
to make a call.

## SharedTable: several processes, keys, the size of the file

Each process (`Files`) has a `*File` of its own over one table, and goroutines (`Callers`)
that call it. On disk there are `diskCount`, `diskNext` (the `Next` of an auto-increment
column) and `records`; a record is told by its key. Each `*File` has its `count` and `next`, read
by `OpenHeader` and `OpenColumns`, and its `mutex`. `inTurn` says whether the processes agree to have
the table open one at a time.

| Actions | Code |
|---|---|
| `OpenHeader`, `OpenColumns`, `Close` | `OpenTable` (`ReadHeader`, then `ReadColumns`); `Close` |
| `TakeKey`, `RaiseKey`, `LockColumns`, `WriteColumns` | `RowFromMap`: `Increment` takes `Column.Next` and raises it; `WriteColumns` |
| `Add`, `Discard`, `Rewrite` | `Row.Add`; a row that is dropped; `Row.Write` of a row that was read |
| `Enter`, `TakeSlot`, `AppendSlot`, `Refuse` | `WriteRow`: the mutex, the slot, `RowsCount`, the limits (`ValidateFileSize`) |
| `LockHeader`, `WriteHeader`, `LockRecord`, `WriteRecord` | `WriteHeader` and the record, each in a file lock |
| `ColumnsFail`, `WriteFails`, `Crash` | a write that fails, perhaps half done; the end of a process |

`FileSize` computes as the code does: the columns' part in a `uint16`, the rows' in a `uint32`. A lock
region begins at `(position + length) * 2^32 + position`, because that is what `Overlapped` is filled with;
it is as long, covers no byte that is written, and meets every region of about its size. A
lock therefore stops other locks, never a write. `Seek` and `Write` are one step here:
within a process the runs make one call at a time (`Serial`), and processes have handles of
their own; `RowFile` has the goroutines that share a handle. `Step` is at least 1, as in the
tables of programs that set it (a column made by `NewColumn` has 0 and gives out one key for ever).

Fairness (`FairSpec`): a goroutine inside a call goes on when its lock is granted (weak fairness of its
steps). Calls are bounded, so every lock a goroutine waits for stays free from some time on.

## MemoFile: the memo file

One goroutine for each row, with one memo field. The memo file is a sequence of
cells of 8 bytes (`disk`): that is the size of a block header and of the used
part of the file header, so lengths, `BlockSize` and `FileHead` are counted in
cells. `next` and `size` are `memoHeader.NextFree` and `BlockSize` in memory,
`rec` the addresses in the records, `memoPos` those in the row objects, and
`dbaseMutex`, `memoMutex` their owners.

| Actions | Code |
|---|---|
| `SetValue`, `LockRow` | `Field.SetValue`; `Row.Write` up to `ToBytes`, or `ToBytes` called alone, which takes no `dbaseMutex` |
| `NoData` | `getMemoRepresentation` of an empty value |
| `Lock`, `Place` | `WriteMemo`: `memoMutex`, the number of blocks, the address, `NextFree` |
| `HdrWrite`, `HdrPad` | `WriteMemoHeader`: the header, then zeros up to 512 bytes |
| `DataSeek`, `DataWrite` | the memo, with its block header, and the unlock |
| `Store`, `Return` | the record with the address |
| `ReadBegin`, `ReadEmpty`, `ReadSeek`, `ReadHead`, `ReadNoHead`, `ReadData` | `File.Row` with `parseMemo` and `ReadMemo`, which takes no lock |
| `Fail`, `StoreFail`, `WriteFail`, `Crash` | a failed seek or write, a partial write, the end of the process and a new open |

The record itself is not a file here, it is written in one step: `RowFile` has
its steps. What is not modelled: the encoding of a text memo, the refusal of a
write behind the end by `BytesReadWriteSeeker` (a memo file in memory is read
only), several memo fields in a row. A memo of length 0 in the file counts as empty.

## TableCursor: navigation, scans, search

One goroutine that calls `GoTo`, `Skip`, `Row`, `Next`, `Rows` and `Search`,
writes the rows it got and adds rows, over a table with deleted records, a hole
of zeros and a record that is missing at the end of the file (both are what
`RowFile` shows a failed append to leave). `ptr` is `rowPointer`, `Wrap` its
32 bits (`Word` values), `at` the loop variable of `Search`, `found` what the
call has collected, `held` a row object the program keeps. The loops of `Rows`
and `Search` are made of steps, since their ends are a property; every other
call is one action. `Search` compares bytes, so the content of the one column is
a sequence of bytes and `Pattern` is the conversion the search applies to its
value.

Fairness: a goroutine inside the loop of `Rows` or `Search` is scheduled again
(`WF_vars(LoopStep)`); it has no lock to wait for.

## Values, RowCodec: a record and back

`Values` has `Represent` and `Interpret`, type by type, as pure operators: the
padding, cutting, signs, Julian day numbers with Go's division towards zero.
`RowCodec` is a row of a new table whose fields are set (`SetValue`), written
(`Write`: `ToBytes` with its two counters, `varPos` and `offset`) and read
(`Read`: `BytesToRow` with `ReadNullFlag` and `nullFlagPosition`, which counts
the null-flag bits a second time). `WriteRefused`, `WritePanics` and `ReadFails`
are the error paths; a panic ends the program. `Image` is the record `ToBytes` makes of
the values: a `Cell` for each column and the set of flag bits; `Bits` counts them. `ReadsBack` compares what is read
with what was written, with the exceptions the types have (padding of C, digits
of N that do not fit, `float64` outside an int32), each spelled out in its definition.

## TableFiles: opening, creating, closing, databases

Goroutines call `OpenTable`, `OpenDatabase`, `NewTable` and the two `Close`s;
an action is one step at which a call touches the file system or the caller's
`Config`. `configs` are the `Config` structs: `File.config` is a pointer to the
caller's struct, and `OpenTable` writes `IO` and `Converter` into it, so a `File`
names its `Config` by index. `handles` are those of the operating system.

| Actions | Code |
|---|---|
| `OpenTable`, `OpenHandle`, `ReadHead`, `OpenRelated`, `ReadMemoHead` | `OpenTable` of `io.go`, `UnixIO.OpenTable`, `GenericIO.OpenTable` |
| `OpenDatabase`, `SearchCatalog`, `SkipRow`, `OpenRow`, `DatabaseOpened` | the loop of `OpenDatabase` over the catalogue |
| `NewTable`, `Stat`, `MakeDbf`, `MakeFpt`, `WriteHead`, `WriteColumns`, `WriteMark`, `WriteFill`, `WriteMemoHead`, `WriteMemoPad` | `NewTable`, `Create`, `File.Init`: one action per write |
| `Close`, `CloseDbf`, `CloseFpt`, `CloseDatabase`, `CloseNext` | `File.Close`, `Database.Close` |
| `IOFails`, `Crash` | a failure of the file system or of a provider; the end of the process |

`NewTable` writes a table in four parts, the header, the columns, their end mark and
zeros up to the first row, and a memo file in two, 8 bytes and zeros up to 512
(`TableStages`, `MemoStages`). Each write can be the last, and goroutines that open
come between. `ReadColumns` stops at the end mark and `ReadMemoHeader` reads 8 bytes,
so `OpenTable` succeeds before the zeros are there (`Readable`, `MemoReadable`).
`FilesAreUsable` says what is left, as long as one goroutine creates: the table of a `File` has its end mark, its memo file the
8 bytes, and the zeros are missing only while `NewTable` is at them or after something
failed. What an opener has put into the memo file by then, at bytes 8 to 512, the
zeros go over (`io_unix.go:529`); this model has no memos in its memo files, and no
property here would show it.

File names are exact: `findFile`'s search without case and `Create`'s upper-casing
are left out. A `Stat` that fails is taken by `Create` for a file that is not
there; `os.Create` decides then, and the failure is left out. `WindowsIO` opens the
memo file in another way and is not modelled.

Fairness (`Fairness`): a goroutine inside a call is scheduled again. Nothing here blocks.

## What the runs check

| Run | Checks | Shows |
|---|---|---|
| `rows_program` | `HeaderCountsRows`, `RowsInTheirSlots`, `ReadHonest`, `RefinesStore` | appenders, updaters and readers of a program that makes one call at a time, the size limit reached: the header is exact between calls, rows stay in their slots, reads return the row they name, every call is atomic |
| `rows_faults` | `IInv`, `AckedKept`, `DamageBounded`, `RowsWithinHeader`, `RefinesFaulty` | an appender, an updater and a reader that calls alone, two I/O errors, torn records or crashes: what was acknowledged is kept, a fault damages one record at most |
| `rows_live` | `MutexOK`, `WritesReturn` | two appenders that write rows again and a reader, in memory, with refused calls: every `WriteRow` returns |
| `shared` | `IInv`, `AckedKeptInTurn`, `KeysUnique`, `SizeWithinLimit`, `CallsReturn` | two processes, in turn or not, two faults: in turn no key reaches two records and what was acknowledged is kept, over crashes and new opens; the file stays within its limit and locks are granted in any case |
| `shared_writers` | `AckedKept` (violated) | two processes that write at the same time lose records, file locks or not |
| `memo_faults` | `IInv`, `ReadsBack`, `MemosKept`, `HeaderAhead`, `RefinesMemos` | memos of two rows written, cleared and read, an I/O error, a partial write or a crash: other memos stay, the header on disk stays ahead of the blocks in use, and rows with their memos behave as `FaultyStore` says |
| `memo_anyone` | `BlocksApart`, `MutexOK` | reads at any time and memos that do not fit their blocks: blocks are still given out once |
| `memo_new_table` | `MemosKept` (violated) | the first memo of a new table goes over the file header |
| `cursor` | `ScanComplete`, `SearchComplete`, `RowsAtHome`, `CallsReturn` | `Rows` and `Search` return what they should and end; a row that is written goes to its own record |
| `codec` | `ReadsBack`, `RowReadable` | each value a column can keep reads back; what was written can be read |
| `files` | `IInv`, `ConverterFits`, `DatabaseHasCatalog`, `FilesAreUsable`, `TablesSurviveCreate`, `HandlesLostByErrorsOnly`, `ClosedMeansClosed`, `CallsReturn` | one goroutine opens, another creates, both close, with a failure or a crash: an open gets between all writes of `NewTable` |
| `files_pages` | `TablePagesFit` (violated) | the tables of a database get the code page of its container |

Each `IInv` is the inductive invariant of the theorems and contains the types.

Each property of a passing run has a mutant: a definition of the model with a
bug a programmer could make (`Blocks_Down`, `Pattern_Swapped`, `MemoReadable_Any`,
...). TLC finds the property violated under the same configuration.

### Bounds, and why they are enough

* Rows: one to three rows at first, two or three calls per appender (`MaxOps`)
  and reader (`MaxReads`); updaters start over without a bound. Two appends are
  enough for one to meet the traces of another, and three rows for a read at one
  place to send a write to another. The limits on records (three or four) are reached.
  Two faults (`MaxFaults`): a second one can meet what the first left.
* Shared table: three goroutines in two processes, a call each, two faults. The
  first process has two goroutines, so a key may be taken, dropped by a failure and the next
  one taken before the process dies and the other one opens the table. The third row
  fills the file, and `Width32` is such that the size of a fifth would wrap.
* Memos: two rows, two writes each, one fault. Blocks of two cells and memos of
  0 and 3 cells make no block and two, so that memos are cleared, moved and written
  in place; in `memo_anyone`, memos of 2 and 3 cells run out of their blocks. The
  theorems hold for all sizes.
* Cursor: three rows and pointers below `Word = 5`, so that `Skip` wraps around.
* Codec: nine layouts with each type, alone or between columns of variable
  length, one that uses up the byte of flags (4 bits in place of 8) and one
  that needs one more; 8-bit integers with both ends; days at the ends of months,
  of leap years and of centuries.
* Files: a container and two names, three calls in all, one fault. Three calls
  are an open, another call that meets its file or Config, and a close. The catalogue
  has a blank name and a name twice.

### What holds only as long as the program behaves

The library takes few locks, and the runs say for which programs it is safe.
With these settings TLC finds a violation. They are no runs of the project, but
an edit of a `.cfg` (of `MCTableFiles` for the last two) away; check the property
alone, with `-deadlock`:

| Setting | Violated | Because |
|---|---|---|
| `RowFile_faults`, `Appenders = {a1, a2}`, `Readers = {}`, `OuterLock = FALSE`, `MaxFaults = 0` | `AckedKept` | both take the same position before the lock (`table.go:715`); README.md:124 of the repository calls these operations safe |
| `RowFile_program`, `OuterLock = FALSE` | `RowsInTheirSlots` | `ReadRow` moves the cursor between `WriteRow`'s `Seek` and `Write` (`io_unix.go:595`) |
| `RowFile_program`, `OuterLock = FALSE`, `Readers = {r1, r2}`, no other roles | `ReadHonest` | the same between `Seek` and `Read` (`io_unix.go:547`) |
| `RowFile_faults` as it is | `HeaderCountsRows` | `RowsCount` stays raised when a write fails (`io_unix.go:582`) |
| `RowFile_faults`, `Reuse = TRUE`, `MaxFaults = 0` | `HeaderCountsRows` | a new row keeps its position; written twice it is counted twice (`table.go:691`) |
| `SharedTable`, `Serial = FALSE`, `Agreements = {TRUE}` | `KeysUnique` | two goroutines read `Column.Next` before either raises it (`table.go:701`) |
| the same | `AckedKeptInTurn` | two goroutines of one process take the same position |
| `MemoFile_faults`, `GrowInPlace = TRUE`, `Lengths = {1, 3}` | `MemosKept` | a longer memo is written over its neighbours (`io_unix.go:463`) |
| `MemoFile_faults`, `ReadsOverlap = TRUE` | `ReadsBack` | `ReadMemo` takes no lock (`io_unix.go:404`) |
| `MemoFile_faults`, `Lengths = {2}` | `MemosKept` | blocks are counted without the 8 bytes of the block header (`io_unix.go:456`) |
| `RowCodec`, `Layouts <- MixedLayouts` | `ReadsBack` | `nullFlagPosition` stops at the first column of fixed length, `ToBytes` counts on (`table.go:51-65`, `table.go:343-346`) |
| `RowCodec`, `EmptyIsNull = FALSE` | `ReadsBack` | the null bit of an empty value in a column that may not be null is the next column's length bit |
| `TableFiles`, two goroutines that create, each with a Config with a converter | `TablesSurviveCreate` | `Stat` and `os.Create` are two steps (`io_unix.go:161`) |
| `TableFiles`, the first Config with `InterpretCodePage` | `ConverterFits` | an open with the Config that `NewTable` used replaces the converter of the new table's `File` (`io_unix.go:73`) |

Other places where comments and code part: `Skip` clamps the pointer and then
stores the unclamped sum (`io_unix.go:672-679`), so the pointer leaves the range
io.go:176-177 promises, also after `Next` on the last row; an exact search cuts its
value at the length of the column and finds prefixes, and in a Varchar column it finds
substrings; a negative `float64` is stored as 0 in an I column; digits of an N value
that do not fit are cut off, and a lone minus sign cannot be read again; a second
byte of null flags is lost or panics; a `Config` with a file name can be used for
one open only ("multiple data sources", although dbase.go:47-56 has no such
limit), which is why `ConverterFits` holds; a table of `db.Tables()` that is closed by itself makes
`Database.Close` fail for ever; errors of `OpenTable`, `NewTable` and
`OpenDatabase` leave handles open; `NewTable` empties a memo file that has no table, and
fills up a memo file that another goroutine may have opened and written to by then.

## What is proved

The `*Proofs` modules hold theorems about every value of the constants, from the
assumptions on constants in the models. Each module first proves the types for every workload,
fault and interleaving, then what follows. Where a theorem needs a program to behave, its
ASSUME says so, and the table above shows what happens otherwise.

**Rows** (`RowFileProofs`). `MutualExclusion` is unconditional: `MutexOK` (who is between
`Lock` and `Unlock` holds `dbaseMutex`, nobody else does) is inductive with the types. The others are
about programs as `Disciplined` describes them: none writes a new row again, and either the program
has a lock of its own (`OuterLock`: one append at a time, reads while nobody else calls, any
number of appenders, readers and updaters), or there is one appender and no reader. Every fault is
allowed but in `HeaderIsExact` and `Refinement`.

None of the properties is inductive: what a write does depends on the cursor and the position a
goroutine took some steps ago. `IInv` says who can be inside a call together (`AloneInv`); for each
label, where the cursor is (at the header, at the row's slot, at the record asked for), that a
position taken is below `count` or is the next one; that `diskCount` never passes `count` and
no record lies behind the count; which author each record has (`RowsInv`); what a reader holds is the
record it asked for (`ReadInv`); and that rows counted but missing, skipped or torn are no more than
the faults, plus the row being added (`DamageInv`). The last is a count of sets: an append that
reserves a slot makes one row missing, the write of the record takes it back, a fault pays for it.
`ExactInv` strengthens `IInv` for `HeaderIsExact`, without faults: the counts and the records agree but
at the labels between header and record.

`RefinementUnderFaults` maps each step to one of `FaultyStore` or to a stutter: a write takes
effect at `RowWrite`, behind as many holes as `DamageInv` leaves room for; a read takes effect at
`ReadRecord`, or fails at a damaged row (`WhatIsSeen`); a fault loses the call. There is one lemma for
each role (`WritersAreFaithful`, `ReadersAreFaithful`). `Refinement` follows: without faults
`FaultyStore` can only do what `RowStore` can, since no record is damaged (`NoDamage`).

**Processes and keys** (`SharedTableProofs`). `SizeIsLimited` is unconditional: a slot is below a count,
every count has passed `ValidateFileSize`, and since a row is shorter than what is left
to `2^32` above the limit, the product of the first count that does not fit has not wrapped.
`KeysAreUnique` and `AddsAreKept` assume that a process makes one call at a time
(`Serial`); the properties speak of the processes that take turns. Then there is one call
under way at all (`AloneInv`), and the copies of the process that has the table open are
never behind the disk (`TurnInv`). `Next` on disk is past every key in a record
(`KeysInv`), because `WriteColumns` comes before the record, and the row under way
has a key nobody has, or is in its slot already (`RowInv`), at each label over every fault.

**Memos** (`MemoFileProofs`). `MutualExclusion` again is unconditional. `Invariance`, `MemosAreKept`,
`RowsReadBack`, `BlocksAreApart`, `HeaderIsAhead` are about memos that fit their blocks with
their header, a first free block behind the file header, no growth in place, no reads during
writes; every fault is allowed. `IInv` says that the blocks of any two addresses do not
overlap, that they all lie below `next` and, once the memo is written, below the header on disk, and
what the cells at the address of each goroutine hold at each label of `WriteMemo`. The
arithmetic (`address * size` orders as addresses do) is in lemmas of its own.
`RefinementUnderFaults`, under the same conditions, is the refinement of `RefinesMemos`, step by step:
a write that moves takes effect with the record (`Store`), one in place with its data
(`DataWrite`); a `ToBytes` alone is refused unless it was in place; a fault loses the call, and damages
one memo if it cuts a write in place. It needs two more parts of `IInv`: the address in a record is
that of a block header whose memo has room (`HeadInv`), so that reads return the memo or fail,
and there are no more damaged memos than faults (`DamageInv`). `BlocksAreGivenOnce`
replaces the conditions by one: as long as nothing fails, `BlocksApart` is true of any
block size, of memos that spill over their blocks and of reads during writes, since
a new address is `next` and `next` is raised under the same lock.

**Cursor** (`TableCursorProofs`). `RowsStayHome`: a row object knows the place of its record. `ScansAreComplete`
and `SearchesAreComplete`: while the loop is at a row, the call has collected exactly the
rows before it that it is to return, in order. The second assumes that the value
searched for is not longer than the column, for the code cuts it off; the lemma behind it shows that
the bytes `Search` compares say the same as the documented comparison.

**Codec** (`RowCodecProofs`). `FieldsReadBack`, for tables of C, V, I, L and T columns of any number and
length, where columns of variable length come first (`VarColumnsFirst`), their flags fit one byte
(`OneFlagByte`) and a program gives empty values only to columns that may be null
(`EmptyIsNull`). The bits of two columns are different (`BitsApart`), and both ways to count them agree on such tables;
the record is at any time the `Image` of the row that was written (`WrittenInv`), and a row that
was read is what that image says (`ReadInv`). An integer is the residue of itself
(`SignedAgain`). For times there is `DatesReadBack`, a theorem about the arithmetic of
`conversion.go`: `julianToDate` inverts `julianDate` for each date of the years 0 to 9999.
Counted from March, a day is day `g` of year `r` of century `c`; the first quotient of
`julianToDate` is `c` and the second `r`, because the remainders of the quotients
that were cut off stay below the divisor, even on a leap day, which is the last day of its year
(`CenturyFound`, `LeapYear`); month and day follow from `g` (`MonthFacts`).
The assumption on values is that a time is a date and milliseconds and an integer one number.
`RowsAreReadable` needs less: any layout of columns
of the types C, V, I, L and T, given `EmptyIsNull`. The length that `ToBytes`
has put into the last byte of a V cell is shorter than the cell (`VarLengthRead`), and any bytes stand for some value of the
other types.

**Files** (`TableFilesProofs`, `DatabaseProofs`, `FileContentsProofs`). The types (`TypeCorrect`) need what a call has at
each of its steps (`StepOK`); each step of a goroutine leaves the other calls alone and
only adds to what is there (`Local`, `Grown`), so that one lemma carries every step. `OpensReadableFiles`,
`OpensUsableFiles` and `CreationSpares` assume that one goroutine at most creates tables (`OneCreator`), any
number may open, from files and from bytes, and everything may fail. `WholeInv` says how far the
file at each step of a creation is written, and what an open has seen of its file; up to
the end mark `NewTable` then writes to a file that no `File` is over and no open has got past, and
its later writes only add to what can be used already (`GoesFurther`), or are the memo header that an
opening call may wait for. `OpensUsableFiles` also assumes that the program starts on tables nobody left
half way (`CleanDisks`), for a table without its zeros can be opened at any later time;
`FillInv` says which tables can be opened before they are whole. `FilesKeepTheirConverters` also assumes that no `Config` asks
for `InterpretCodePage`. A `Config` with a file name that has not served has the
converter its caller gave it, goroutines that open have different `Config`s
(`FitsInv`), and a converter that is set is never changed again; so the converter of a file is
the caller's, or is taken from the mark of that file and no other.

`DatabasesAreComplete`, `CloseCloses` and `HandlesAreOwned` assume nothing of the program. The first needs what
an `OpenDatabase` under way has: a `File` for each name in the rows it has passed, over the file of that
name, all different and all held by this call and no other (`CatalogAt`), so nobody can close one or
hand it on before the call returns. A row that repeats a name replaces its `File` and leaves the
others alone. The second follows a `Close` from file to file (`ClosedAt`): what it has left, the file it
is at, and that all others are shut, which nothing undoes. It uses the first: were the container also one of the
tables, `Database.Close` could be at the container with tables left. The third is about one handle
and one step: who could close it before (`OfCall`, `OfFile`, `OfMain`) can after it, or the step is
one of the four that the property names. `HandlesInv` says whose a handle is: of one call or of one `File`; those of a call are open,
and so are those of the `File`s `OpenDatabase` is still collecting; a memo handle is open for as long
as its table handle, and then until the one `Close` that is at it. Without it, a second `Close` of the same
`File` could shut a handle of another, and `OpenDatabase` could return a `Database` whose tables are
shut already, whose container then nobody gets to close.

Only model-checked: liveness (out of the prover's reach); `BlocksApart` after faults and outside the conditions; `ReadsBack` and
`RowReadable` of N and D columns, for these go through digits, a recursion over data. The theorems of these
modules use no recursion over data: sequences are built by `Append` and
function constructors.

## Not modelled, and why

* Encodings, reflection over Go types (`ToStruct`, `Modification`), JSON, debug output,
  errors, examples: pure or wording, no state that a property is about. With them goes what
  `io_windows.go` says when `UnlockFileEx` fails.
* `findFile`'s search without case, and the way `WindowsIO` opens the memo file.
* The lock of `WriteMemoHeader`: the memo file has one process here.
* `WriteColumns` and `Search` among the goroutines of `RowFile`: they move the shared cursor as
  `ReadRow` does.
* Floating point (Y, B, F, N with decimals) and times given as strings.
* `BytesReadWriteSeeker` beyond the writes and reads of a table: seeks from the end, a memo
  file in memory that is written.
* A `Step` of 0 and keys beyond `2^31`.

## Plan

1. Rows and memos together: a record and its memo over one crash.
2. `BytesReadWriteSeeker` as a component of its own.
3. Theorems: `BlocksApart` after a crash.
4. Memos of an opener while `NewTable` still fills up the memo file (`io_unix.go:529`).
