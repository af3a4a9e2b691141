# TLA+ verification of the StoneDB table-file inspection tool

This directory holds TLA+ models of the Python tools of this repository,
TLC configurations that model-check them on small instances, and TLAPS
proofs of their main invariants for every value of the constants.

## 1. Inventory

### Components

| Component | Source | State it keeps | Operations |
|---|---|---|---|
| TableDescriptor reader | `src/scripts/stonedb_tool.py` `StoneTable.__init__`, `parse_blocks`, `parse_table_file` (l. 327-408) | `ident`, `format_id`, `no_attr`, `block_offset`, `attr_mode`, `name`, `desc`, `blocks`, `mysql_tab_num`, `attrs` | check `Table.ctb` exists; read and check magic and format; read the count and the active flags; split the rest on NUL; the block loop; one `Attribute` per slot |
| AttributeMetadata reader | `Attribute.__init__`, `Attribute.parse` (l. 195-285) | `fmt`, `lookup`, `type`, counters, flag bits, offsets, `name`, `desc`, `total_pack_files`, `i_min`, `i_max`, `dict` | check the RS10 tag, decode the fixed header, split the tail, check PF_END, read min/max for lookup or numeric types, keep the dictionary for lookup types, then `load_dpns` |
| DataPackIndex reader | `Attribute.load_dpns`, `DP.__init__` (l. 106-143, 287-309) | `packs`, `last_pack_a`, `last_pack_b`; per record `file_no`, `has_file`, `filename`, statistics | size checks, the two reserved records, the read loop, the trailing append |
| Reporter | `main`, `get_datadir`, `StoneTable.show`, `Attribute.show`, `DP.show`, `AttrType.name` (l. 73-104, 145-157, 311-325, 383-400, 437-472) | the `OPT` flags | parse arguments, read `datadir` from my.cnf, build the table, print the three levels |
| Heartbeat monitor | `src/scripts/monitor.py` | `nodes`: IP -> time of last datagram | receive a datagram, record its time, print the nodes sorted by last report |
| Load generators | `src/tool/generate_mysql_record.py`, `generate_stonedb_record.py`, `generate_stonedb_gaode.py` | `table_field_list`, the pending `values` / the CSV file, `num` | read the columns with `desc` / `show create table`, build one row per key with `generate_record`, hand the rows over in batches of 1000 (`insert_record`) or as a CSV for `LOAD DATA` |
| Integration tests | `src/tool/tests/*.py` | a MySQLdb connection, the server pid | create, load, query and drop tables on a live server; restart it |

### How the components interact

`main` resolves the table directory from `my.cnf` and builds one
`StoneTable`, which `os.chdir`s into it, parses `Table.ctb`, and then builds
one `Attribute` per slot `0..no_attr-1`; each `Attribute` parses
`TA<n>.ctb` and then calls `load_dpns` on `TA<n>DPN.ctb`, building one `DP`
per record. Everything is a synchronous call in one process; the only
shared state is the process (working directory, the global `OPT`). The
reports are printed afterwards by `show`. The monitor, the generators and
the tests are independent programs.

### What is hard

* The decoders are sequential but their input is any byte string on disk:
  the hard cases are file layouts nobody wrote a test for (a trailing
  fragment, fewer than two index records, a missing NUL, a short tail, a
  block length of 0, a deleted column slot, a type byte outside the name
  table).
* The files belong to a running database. The tool reads them without any
  coordination (spec.md section 5): a record appended between
  `os.path.getsize` and the read loop is read but not counted.
* Loops whose termination depends on data (`parse_blocks`).
* The monitor receives UDP datagrams: lost, duplicated, reordered, stamped
  with a wall clock.

### What makes each component correct

* DataPackIndex: the public pack sequence is the ordinary records in file
  order numbered from 0 followed by the first reserved record, the second
  reserved record kept aside; badly sized files are rejected before any
  record is decoded; only sentinel records lack a storage file.
* TableDescriptor: the active flags consumed equal the count; the block
  chain is decoded block by block and consumes the data exactly; deleted
  slots are skipped; the decode terminates.
* AttributeMetadata: PF_END is checked before min/max is read; the range is
  present iff the column is lookup or numeric, the dictionary iff lookup;
  every malformed file ends in a clean format error, never a traceback.
* Reporter: every decoded range and every pack is shown; showing never
  fails on a file that parsed.
* Monitor: the table lists exactly the nodes heard from, each with the time
  of its latest datagram, in order of that time; a node whose datagrams
  outnumber the losses is eventually shown with a fresh time.
* Generators: every row reaches the database exactly once, in key order;
  each row has one value per column, the key in the `id` column.

## 2. Plan

Modules in the order they are written; the most important behaviour first.

1. **DPNIndex** (done): the index reader, with an optional database process
   appending records. Proofs of the type invariant, exact decoding and the
   size check.
2. **TableFile** (done): `StoneTable.__init__` and `parse_blocks` over an
   abstract `Table.ctb`.
3. **AttrFile**, **AttrType**, **AttrSpec** (done): `Attribute.parse` over
   an abstract `TA<n>.ctb` composed with DPNIndex, and the one-step
   specification it refines. Proofs of its type invariant, of
   `ColumnMatchesFiles` and of the safety part of the refinement.
4. **StoneTool** (done): `main`, `get_datadir`, `parse_table_file` and the
   three `show` methods.
5. **MonitorTable**, **Heartbeats**, **Monitor** (done): the UDP heartbeat
   listener with a lossy, duplicating network and a clock, and the
   abstract table (`Heartbeats`) it refines. Proofs of its type invariant
   and of the safety part of the refinement.
6. **GenRecord**, **Generator** (done): the mysql and stonedb load
   generators: the per-column dispatch and `main`.
7. **Filenames** (to do): the `TA{:05d}{:09d}` conversion as an operator on
   digit sequences, checked injective over bounded inputs.

Every safety invariant of a passing run now has a theorem (section 5).
Still to write: the step-by-step refinement for the generators' batches.

## 3. Modules

### DPNIndex (`Attribute.load_dpns`, `DP.__init__`)

State: `dpnFile` (the whole records of `TA<n>DPN.ctb`, each abstracted to its
pack-file number, the only field the decoder interprets), `dpnTail` (bytes of
a trailing fragment), and the reader's `pc`, `noDpns`, `pos` (next record
`f.read` returns), `dpNo`, `packs`, `lastPackA`, `lastPackB`.

Actions: `GetSize` (l. 288-298: `os.path.getsize`, the two `sys.exit`
checks), `Open` (l. 300-304: the two reserved records, both numbered
`no_dpns - 2`, and the first read), `ReadPack` (l. 305-308: one turn of the
loop), `ReadFragment` (a short read reaching `struct.unpack`, l. 135),
`Finish` (l. 309: end of file, `last_pack_a` appended). With `LiveWriter`,
`WriterBegin` and `WriterEnd` model the database appending a record in two
halves (from spec.md section 5; the engine is not in this repository).

### TableFile (`StoneTable.__init__`, `parse_blocks`)

`Table.ctb` is abstracted to its head (right, wrong identifier, wrong
format, cut short), `no_attr`, the mode bytes present, the number of NULs
after them, and the block chain as the declared length and table-number
value of each block plus stray bytes. Actions follow the code's order:
`Chdir` (the directory and `Table.ctb` checks), `ReadHeader`, `ReadModes`,
`Split`, `BlockStep` (one turn of `while length > 0`, which unpacks
`data[0:6]` every time: `data` is never advanced), `ReadTabNum`. The loop is
capped by `MaxBlocks` iterations so that an endless loop is a finite
lasso.

### AttrType, AttrFile, AttrSpec (`AttrType`, `Attribute.parse`)

`AttrType` holds the type codes: `RC_TYPES`, which types
`AttrType.name` can name, `is_numeric`, the lookup bit and the mask.
`AttrFile` abstracts `TA<n>.ctb` to whether it exists, its head, the type
byte, the NUL count, the tail length, the value where PF_END belongs and
min/max. Actions: `ReadHeader`, `ReadTail` (split, fragment count, PF_END),
`ReadRange` (min/max, dictionary), `LoadDpns` (one step of DPNIndex's
reader, composed by `INSTANCE DPNIndex WITH pc <- dpnPc, LiveWriter <-
FALSE`), `LoadDpnsEnd`. `AttrSpec` states what reading a column promises as
a single step `Decode`, whose result is `Outcome(file, index file)`: a
crash, a clean exit, or the column. AttrFile maps onto it by `AbsResult`
(no result until `parse` ends, then its outcome and fields).

### StoneTool (`main`, `get_datadir`, `parse_table_file`, the `show`s)

The whole run: the my.cnf kind and the three OPT flags are chosen
initially, as are the files of each slot (from `SlotFiles`). `GetDatadir`,
then TableFile's reader (`TableStep`, by `INSTANCE TableFile WITH pc <-
tpc`), `TableEnd`, `ParseAttr` (one `Attribute(self, n)` per slot, through
`AttrSpec!Outcome`: the refinement run shows that AttrFile's many steps
implement exactly that one step), `AttrsEnd`, `ShowTable`, `ShowColumn`
(`AttrType.name`, the range under `if self.i_min`, the packs under `-d`),
`ShowEnd`. The report is the sequence of facts printed (the table view, a
column with or without its range, a pack); wording and layout are left
out. The lines printed before an `IndexError` in `ShowColumn` are left
out too.

### MonitorTable, Heartbeats, Monitor (`scripts/monitor.py`)

`MonitorTable` holds the dict `nodes` (`Reports`: a time or `NoReport` per
address) and what the loop prints: `ByTime` is every address heard from
exactly once, ordered by time (`sorted(..., key=itemgetter(1))`; equal
times come out in either order, the dict's hash order), and `Listings`
the rows of that order.

`Monitor` is the program: `pc` (`start`, `loop`, `exit`, `crash`),
`nodes`, and `table`, the listing printed last. `Start` (l. 14-23) binds
the socket or crashes. `Receive(n)` (l. 25-48) is one whole turn of the
loop: take a datagram from `n`, set `nodes[n]` to the clock, print the
sorted table. `Interrupt` (l. 10-12) is Ctrl-C: `sys.exit(0)` in the loop,
or a crash before the handler is installed. The environment is not in
this repository and is modelled from the socket semantics: `Send(n)`
(dropped by the kernel before `bind` and after exit), `Lose(n)`,
`Duplicate(n)` and `Tick`. `net[n]` counts the datagrams from `n` queued
at the socket; `sent`, `lost`, `dups` count the fault budget, bounded by
`MaxSends`, `MaxLoss`, `MaxDup`, and the clock by `MaxTime`.

`Heartbeats` is what the monitor promises, without a network: nodes come
up (`NodeUp`), and the monitor hears (`Hear`) only nodes that are up,
recording the current time and printing one of `Listings`. Monitor maps
onto it by `up <- {n : sent[n] > 0}` and `heard <- nodes`: a loss or a
duplicate is a stutter, the first send of a node is `NodeUp`.

### GenRecord, Generator (`tool/generate_mysql_record.py`, `tool/generate_stonedb_record.py`)

`GenRecord` abstracts a column to what `generate_record` looks at: its
name (the special names `id`, `date_id`, an address name), the words of
its type text that `str.find` tests (`TypeWords`: `bigint` contains `int`,
`datetime` contains `date`), the `lookup` comment, and what
`int(t.split('(')[1].split(')')[0])` makes of it (a number, `NoParen`,
`NotInt`). A value is abstracted to its origin (`Key(k)`, random, clock,
date id, address, lookup string). `MysqlValue` and `StoneValue` are the
two if-chains, with every exception as `Crash` (a missing width,
`random_int` on an empty range); `GenerateRecord` is the loop over the columns,
which stops at the first exception. Whether a row raises depends on the columns
alone, never on its key, so a table whose rows raise fails on its first
row: no run sees a crash in the middle of a run, and `DeliveredExactlyOnce`
says nothing about what such a crash loses. The key lines of `show create
table` are kept in `fields`, where `RecordsMatchColumns` counts them as
columns; it therefore cannot tell whether a value is emitted for one.

`Generator` is `main` of both scripts, the script chosen in `Init`:
`Usage`, `BadBegin` (`int(argv[3])`), `ReadTable` (the column lines;
`desc` prints no key lines, `show create table` does), `Open` (the CSV),
`BadCount` (`int(recordnum)`), `GenerateFails`, `GenerateMysql` (append
to `values`, insert and clear it every `BatchSize` rows), `GenerateStone`
(`fd.write`), `FinishMysql` (insert the rest if any, close the cursor),
`FinishStone` (close, count, `LOAD DATA`; a failed `select count(*)`
raises `IndexError` before the load). `Handler` is the except clause,
which itself raises a `NameError` when `cur` or `fd` was never bound.
`insert_record` swallows every exception, so the call is its only effect.

## 4. Runs

| Run | Checks | Shows |
|---|---|---|
| `dpn_static` (pass) | TypeOK, DecodeExact, OutcomeMatchesSize | exact two-slot decoding and the size checks on all index files of at most five records over five pack-file numbers, with and without a 5-byte fragment |
| `dpn_live` (pass) | PacksMatchFile | with a writer appending up to the bound, ordinary packs stay aligned with the file; also reaches the `struct.error` on a half-written record |
| `dpn_live_numbering` (violation) | ReservedSlotNumberedLast | a record appended after `getsize` gets the same number as the appended reserved slot |
| `table_pass` (pass) | TypeOK, AttrModeMatchesFile, MysqlTabNumDecoded | mode bytes read back are the file's; a table number is reported only from a leading 10-byte block |
| `table_verbatim` (violation) | BlocksVerbatim | `parse_blocks` records every block as a copy of the first (spec.md section 3) |
| `table_termination` (violation) | Termination | a first block length of 0 or less keeps `parse_blocks` looping forever (spec.md section 5) |
| `attr_pass` (pass) | TypeOK, ColumnMatchesFiles, TerminatorCheckedFirst, RefinesAttrSpec | a parsed column reports its files' range, dictionary and packs; a bad PF_END stops the parse before min/max and the index file; the step-by-step reader implements `AttrSpec` (including that it ends) |
| `tool_pass` (pass) | TypeOK, ColumnsInSlotOrder | a run that reaches the report holds one column per slot in slot order, each the one its files decode to; so nothing is printed for a table with a failed column |
| `tool_deleted` (violation) | DeletedSlotsSkipped | deleted slots (mode byte 0) are parsed and listed, against spec.md section 8 |
| `tool_range` (violation) | RangeShown | a lookup column with `range_min = 0` is shown without its range (`if self.i_min`) |
| `monitor_pass` (pass) | TypeOK, EventuallyRefreshed, RefinesHeartbeats | with losses, duplicates and sends before `bind`, the table only ever lists nodes that sent, sorted by last report; a node with more datagrams than losses is eventually shown with a time no older than when it was still queued; the monitor implements `Heartbeats` |
| `gen_pass` (pass) | TypeOK, DeliveredExactlyOnce, RecordsMatchColumns | both generators hand every row over exactly once in key order, in full batches of `BatchSize` but the last, and a finished run has inserted the remainder; every row has one value per column and the key in the `id` column |

The findings in PROJECT.json record what each violation shows. Further
disagreements met while modelling were not made into runs:

* spec.md section 8 numbers the appended reserved slot as a duplicate of
  the last ordinary pack, while section 4.3 and the code number it
  `no_dpns - 2`.
* `-d` prints packs only together with `-c`, since `DP.show` is called
  from `Attribute.show`.
* A wrong RS10 tag ends in a `NameError` (stonedb_tool.py l. 214 formats
  its message with an undefined `attr`), not the format error of spec.md
  section 4.2. `AttrFile.BadTag` models it, and `BadTagExitsCleanly` states
  the spec; TLC finds it violated with `BadTagExitsCleanly` as the only
  invariant of `AttrFile_pass.cfg`.
* A type byte outside `RC_TYPES` (e.g. 255) parses, then `show` dies with
  `IndexError`; spec.md section 4.2 wants a format error at parse time.
  `ShowNeverFails` in StoneTool states it; TLC finds it violated with it
  as the only invariant of `StoneTool_pass.cfg`.
* `generate_stonedb_gaode.py` appends no value for a date column not named
  `d_datetime` (l. 49-51), so every later value lands one column left. The
  mutant `StoneValueSkipDate` has exactly this shape, and
  `RecordsMatchColumns` catches it.
* `generate_stonedb_record.py` fills a `bigint` column named `id` with
  `int(time.time())`: every row generated in the same second gets the same
  key.

Bounds:

* DPNIndex: five records is two reserved plus three ordinary packs, enough
  for the first, a middle and the last ordinary pack to differ. The
  pack-file numbers cover a real file, file 0, two sentinels and a
  negative non-sentinel. Fragment lengths 0 and 5 cover both outcomes of
  the modulo check.
* TableFile: block lengths -6, 0, 4, 10 and 16 cover a negative block, a
  zero block, one shorter than its header, the table-number block and a
  longer one. Chains have up to two blocks. `MaxBlocks = 10` exceeds the
  9 turns the longest terminating loop takes, so reaching it means the
  loop does not end.
* AttrFile: the six type bytes cover lookup and non-lookup, numeric and
  text, the last name (21) and 255. The four tail lengths cover too short
  for PF_END, exactly PF_END, a range without a dictionary, and a
  dictionary.
* StoneTool: tables of 0, 1 and 3 slots with every mode-byte pattern; five
  kinds of slot files (a lookup INT with range 0..999, a numeric INT, a
  text column, type byte 255, missing files); every combination of flags.
  This is 1,068,760 states.
* Monitor: two nodes, clock readings 0..2, two sends per node, one loss
  and one duplicate: enough for a node to be refreshed twice, for a loss
  and a duplicate to hit the same node, and for two nodes to tie in time.
  5,004 states. Three nodes give 105,000 states and show nothing new.
* Generator: six tables that take every branch of both dispatches (key,
  date, `varchar(2)`, lookup `char`, `decimal`, `bigint id`), 0, 1 and 3
  rows with `BatchSize = 2`, so a run has a full batch and a remainder.

Fairness: every `Spec` of the inspection tool has weak fairness on the
reader's steps. The tool is one synchronous process that runs until it
exits, so nothing else can take its turn. No run checks deadlock, because
every reader stops. The monitor has weak fairness on `Start` and on
`Receive`: it is one process blocked only in `recvfrom`, which returns
while a datagram is queued. Senders, the network, the clock and Ctrl-C get
no fairness: nobody has to send, and a datagram may always be lost (up to
`MaxLoss`). The generators' `Spec` has no fairness, since only safety is
checked. The monitor and generator runs do not check deadlock, because
the programs stop (`exit`, `crash`, a traceback, or the end of `main`).

## 5. Proofs

`DPNIndex_proofs` proves, for every `FileNos`, `MaxRecords` and `TailLens`:

* `TypeCorrect`: `Spec => []TypeOK`. It goes through `TypeInv`, which adds
  that `noDpns >= 2` when the file is opened and that `lastPackA` is a
  record in the loop. TypeOK alone is not inductive, because `Open`
  computes `noDpns - 2`.
* `DecodeCorrect`: with no writer, `Spec => []DecodeExact`. The inductive
  invariant `DecodeInv` says what the reader holds at each `pc`:
  * the size taken equals the file's;
  * the reserved records are records 1 and 2, numbered n-2;
  * in the loop, `packs` is records 3..pos-1 numbered from 0, with
    `pos = dpNo + 3`.

  `Finish` then yields `Decoded(file)`, proved with `SeqEqual` and
  `AppendProperties` of SequenceTheorems. The lemma `SizeDivMod` gives the
  quotient and remainder of the file size.
* `SizeCheckCorrect`: with no writer, `Spec => []OutcomeMatchesSize`, from
  the same invariant.
* `LiveDecodeCorrect`: `Spec => []PacksMatchFile` for every value of
  `LiveWriter`, so also while the database appends records (a partial
  tail first, then the whole record) between the reader's reads.
  `DecodeInv` does not hold then (the file outgrows the size the reader
  took), so this rests on `LiveInv`: the type invariant, `PacksMatchFile`
  itself, no packs before the loop, and in the loop `pos = dpNo + 3`,
  `Len(packs) = dpNo` and `pos <= Len(file) + 1`. The last conjunct is what
  is needed: the writer only appends, so a record the reader has read
  stays at its position, and every kept pack is still the file's.

`AttrFile_proofs` proves, for every set of heads, type bytes, tail
lengths, terminators, values and index files:

* `AttrTypeCorrect`: `Spec => []TypeOK`.
* `ColumnCorrect`: `Spec => []ColumnMatchesFiles`.
* `Refinement`: `Spec => Abs!Init /\ [][Abs!Decode]_Abs!vars`. This is the
  safety part of `RefinesAttrSpec`.
* `TerminatorFirstCorrect`: `Spec => []TerminatorCheckedFirst`. It is not
  a consequence of `AInv` alone: it uses `NoPfEndUntouched`, which drops
  the `Terminated` hypothesis (a file without PF_END never has min, max or
  the index read, ended or not). That is inductive next to `AInv`, because
  the only steps that set them run at "range" and "dpns", where `InvTail`
  gives PF_END.

All three rest on one inductive invariant, `AInv`. It is needed because
`ColumnMatchesFiles` speaks only of the end, while each step sets one
field. `AInv` says what `parse` holds at each `apc`:

* `InvFresh`: before min and max are read, nothing is set and
  `load_dpns` has not started.
* `InvHeader`: after the header, the file exists, has the tag, and
  `lookup` and `atype` come from its type byte.
* `InvTail`: after the tail, there are two NULs, the pack-file count and
  PF_END.
* `InvRange`: after min and max, they and the dictionary are set as the
  type requires.
* `InvResult`: once `parse` has ended, the refinement mapping `AbsResult`
  equals `AttrSpec`'s `Outcome` of the two files.
* DPNIndex's `DecodeInv`, reused through
  `INSTANCE DPNIndex_proofs WITH ...`. With no writer it gives that
  `load_dpns` ends with the decoded packs, or exits exactly on a badly
  sized file.

The lemmas `OutcomeHeadCrash` to `OutcomeDone` evaluate `Outcome` one
branch at a time, in the order `parse` meets the checks.

* `ColumnCorrect` follows because only the last branch has status "done".
* `Refinement` follows because no step changes either file, and a step
  that ends `parse` turns `AbsResult` from `None` to that outcome. Every
  other step leaves `AbsResult` alone.

Only model-checked, out of the provers' reach:

* `Termination`, and the liveness part of `RefinesAttrSpec`: they need
  fairness and ENABLED.
* With the live writer, `DecodeExact` and `OutcomeMatchesSize` do not
  hold and are not claimed; `PacksMatchFile` is proved (above).
* `BlocksVerbatim` and the other violation runs: they state what the
  spec says and the code does not do, so there is nothing to prove.
* The monitor's `EventuallyRefreshed` and the liveness part of
  `RefinesHeartbeats` (fairness).

Induction over data. `Ends` (the block offsets of a chain) and the row
of `GenerateRecord` are recursive functions, `f[i \in 0..n] == IF i = 0
THEN c ELSE Def(f[i-1], i)`. The proofs get their defining equation from
`FiniteNatInductiveDef` of NaturalsInduction (the function is written once
more as `CHOOSE g : g = [i \in 0..n |-> ...]`, which equals it by
definition). Induction itself is a least-counterexample argument: the set
of indices where the claim fails is a set of naturals, `LeastNat` (from
`WFMin` and `NatLessThanWellFounded` of WellFoundedInduction) picks its
least element, which cannot be 0 and whose predecessor satisfies the
claim. The library's `NatInduction` takes the claim as an operator
parameter, which the installed provers cannot instantiate; this argument
needs none.

`GenRecord_proofs` proves, for every table and every key:

* `RecordShape`: a row `generate_record` returns without raising has one
  value per column, and every `int` column named `id` holds the key. The
  induction (`RowInduction`) is over the columns of the loop; `ValueShape`
  says every branch of `MysqlValue` and `StoneValue` that does not raise
  yields one value, `KeyValue` that an `int` column named `id` gets the
  key in both scripts (`bigint` and `varchar` are tested first in the
  if-chain, and neither matches).

`TableFile_proofs` proves, for every set of attribute counts, heads and
block chains:

* `TableInvariant`: `Spec => []TInv`, and from it
* `AttrModeCorrect`: `Spec => []AttrModeMatchesFile`. `TInv` is needed
  because `ReadModes` copies the right bytes only because `ReadHeader`
  stored the file's count in `noAttr`, and a file has a count only when
  `Chdir` found it. `TInv` records, per `pc`, that the table file is
  there, that `noAttr` is its count, and that `attrMode` is its modes
  with `Len(attrMode) = noAttr`. `ModesRead` shows that reading exactly
  the count of bytes yields all of them.
* `BlocksInvariant`: `Spec => [](TInv /\ BInv)`, and from it
* `TableTypeCorrect`: `Spec => []TypeOK`, and
* `TabNumCorrect`: `Spec => []MysqlTabNumDecoded`.

  `BInv` is needed because `parse_blocks` never advances `data`: every
  entry it stores is the first block's header and payload (`Entry`), and
  after k turns `length` is the data length less k times the first
  `blk_len`. A block is stored only when the data holds a full header,
  nothing is stored before the loop, and when the reader is done the
  first payload spanned four bytes and `length` is not positive. From
  that, `TabNumFromInv` argues: k >= 1 and `length <= 0` make `blk_len`
  positive; `EndsFacts` (by induction over the chain) makes the data at
  least as long as the first block, so `blk_len` is within the data and
  the payload `data[6:blk_len]` spans `blk_len - 6` bytes, which is 4 only
  for `blk_len = 10` (`PayloadFacts`). `DataLenFacts` says a chain-less
  file has less than a header of data.

`StoneTool_proofs` proves, for every table file, slot count and set of
column files:

* `ToolInvariant`: `Spec => []SInv`, and from it
* `SlotOrderCorrect`: `Spec => []ColumnsInSlotOrder`.

  `SInv` holds TableFile's `TInv` for the table reader StoneTool runs
  (through `INSTANCE TableFile_proofs WITH ...`; `TableStepTInv` shows a
  step of one instance is a step of the other). It adds that the loop of
  `parse_table_file` keeps one column per slot read so far
  (`Len(attrs) = slot <= noAttr`, in slot order, each parsed). It also
  adds that nothing is printed before the loop ends with `no_attr`
  columns. `slot` reaches `no_attr` exactly because `TInv` makes
  `no_attr` a natural number once the table reader is done.
  `StoneTool.tla` states the table reader's constant assumptions for the
  constants it passes (`TableAssumption`), so that TLC checks them on
  every StoneTool run.
* `ToolTypeInvariant`: `Spec => []TypeInv`, and from it
* `ToolTypeCorrect`: `Spec => []TypeOK`.

  `TypeInv` adds to `SInv` TableFile's `BInv` for the table reader
  (`TableStepBInv`, `TableTypeOK`), that every parsed column is in
  `ColumnRecs` and every printed fact in `FactRecs`. `ColumnRecs` holds
  the one fact `TypeOK` does not imply and `Attribute.show` needs: a
  column has `i_min` only with `i_max`, so a printed range is a pair of
  values. `OutcomeColumn` shows every column `AttrSpec`'s `Outcome`
  yields is one (`DecodedPacks` for the packs). It rests on
  `ColumnFilesAssumption` (a type byte is a byte, tail lengths and the
  record bound are natural numbers, as AttrFile assumes).

`Generator_proofs` proves, for every table, row count, first key and batch
size:

* `GeneratorInvariant`: `Spec => []GInv`, and from it
* `DeliveredCorrect`: `Spec => []DeliveredExactlyOnce`.

  `GInv` is needed because `DeliveredExactlyOnce` speaks of the rows and of
  the end. It adds that nothing is generated before the table is read,
  that the stonedb script never buffers, and that `values` holds the
  `num % BatchSize` rows since the last full batch. Its last additions
  are that `out \o values` is every row generated so far, and that only
  the last `insert_record` call may be short. The lemmas `ConcatAppend`,
  `PrefixOfConcat` and `ModStep` carry the sequence and modulus
  arithmetic.
* `RowsInvariant`: `Spec => [](GInv /\ FieldsType /\ GenOK)`, and from it
* `GeneratorTypeCorrect`: `Spec => []TypeOK`, and
* `RecordsCorrect`: `Spec => []RecordsMatchColumns`.

  `GenOK` records that no row generated so far raised (a raising row
  sends the run to the handler), so every row is one `RecordShape`
  describes; `FieldsType` gives `fields` its type (`TablesAssumption`:
  a table is a sequence of column lines) and keeps `sizes` a sequence of
  batch sizes.

`Monitor_proofs` proves, for every set of nodes and every bound:

* `MonitorTypeCorrect`: `Spec => []TypeOK`. The inductive invariant
  `MInv` adds `QueuedFromSenders`: a node has a datagram queued only if it
  has sent. `ListingsType` shows that every listing is a sequence of
  (node, time) pairs, from the bijection in `ByTime`.
* `Refinement`: `Spec => Abs!Init /\ [][Abs!Next]_Abs!vars`. `Receive(n)`
  is `Hear(n)`: `n` is up because a datagram is queued
  (`QueuedFromSenders`), and `SameListings` shows that the instantiated
  `Abs!Listings` is `Listings`. A node's first `Send` is `NodeUp`; later
  sends, `Lose` and `Duplicate` are stutters.

## 6. Not modelled

* `generate_stonedb_gaode.py`: its `main` is the stonedb one with the key
  replaced by the `day` argument for every row; its dispatch disagreement
  is listed in section 4.
* What the generators print (times, counts) and the values themselves
  (random strings, the clock); the `LOAD DATA` and `INSERT` outcomes on
  the server.
* In the monitor: the address `gethostbyname(gethostname())` resolves to
  (often 127.0.1.1, so the socket listens on loopback only), the wall
  clock stepping backwards, and datagram contents (ignored by the code).
* The integration tests (see PROJECT.json): I/O glue around a live server
  that is not in this repository.
* The statistics fields of a pack, the counters, flag bits and offsets of a
  column, and the dictionary bytes: the tool prints them and interprets
  nothing.
* The storage file name `DP.filename`: planned (step 6).
