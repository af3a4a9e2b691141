----------------------------- MODULE StoneTool -----------------------------
(***************************************************************************)
(* The whole run of scripts/stonedb_tool.py: main resolves the table       *)
(* directory from my.cnf (get_datadir), StoneTable reads Table.ctb (the    *)
(* TableFile reader), parse_table_file builds one Attribute per slot       *)
(* 0..no_attr-1, and show prints the table, column and data-pack views the *)
(* OPT flags select.  A column is read in one step, by AttrSpec's Outcome, *)
(* which the step-by-step reader AttrFile is checked to implement.         *)
(*                                                                         *)
(* The printed report is abstracted to a sequence of facts: the table      *)
(* view, one fact per column shown (with the range if it is printed) and   *)
(* one per data pack shown.                                                *)
(***************************************************************************)
EXTENDS Integers, Sequences, FiniteSets, AttrType

CONSTANTS
    TableHeads, AttrCounts, BlkLens, TabNums, MaxChain, Slacks, MaxBlocks,
    AttrHeads, TypeBytes, TailLens, PfEnds, Vals, FileNos, MaxRecords, DpnTailLens,
    MaxAttr,     \* bound on no_attr
    SlotFiles,   \* the TA<n>.ctb / TA<n>DPN.ctb pairs a slot may hold
    Configs,     \* kinds of my.cnf: "datadir", "default", "no_section", "missing"
    None

VARIABLES
    cnf,         \* the my.cnf the tool reads
    opts,        \* the OPT flags set by -t, -c and -d
    slotFiles,   \* slot n -> its two files
    tpc,         \* where the table reader is
    tbl, noAttr, attrMode, blocks, length, mysqlTabNum,
    pc,          \* where the run is
    slot,        \* the slot parse_table_file reads next
    attrs,       \* self.attrs: the parsed columns, with their slot
    shown,       \* how many columns show has printed
    out          \* the facts printed

T == INSTANCE TableFile WITH Heads <- TableHeads, pc <- tpc

A == INSTANCE AttrSpec
        WITH Heads <- AttrHeads, afile <- None, dpnFile <- <<>>, dpnTail <- 0,
             result <- None

\* The table reader's assumptions, for the constants given to it.
ASSUME TableAssumption ==
    /\ TableHeads \subseteq {"ok", "bad_ident", "bad_format", "short"}
    /\ BlkLens \subseteq Int
    /\ MaxChain \in Nat
    /\ MaxBlocks \in Nat
    /\ Slacks \subseteq 0..(T!BLK_HDR - 1)

ASSUME MaxAttrAssumption == MaxAttr \in Nat /\ AttrCounts \subseteq Int /\ \A n \in AttrCounts : n <= MaxAttr
ASSUME SlotFilesAssumption ==
    SlotFiles \subseteq [attr : A!AttrFiles, dpn : A!D!Files, tail : DpnTailLens]
\* The column files' assumptions (AttrFile's): a type byte is a byte, a
\* tail length and the number of index records are byte counts.
ASSUME ColumnFilesAssumption ==
    TypeBytes \subseteq 0..255 /\ TailLens \subseteq Nat /\ MaxRecords \in Nat
ASSUME ConfigsAssumption == Configs \subseteq {"datadir", "default", "no_section", "missing"}

Slots == 0..(MaxAttr - 1)

\* A decoded data pack (DP).
PackRec == [no : Nat, file_no : FileNos, has_file : BOOLEAN]

tableVars == <<tbl, noAttr, attrMode, blocks, length, mysqlTabNum>>
vars == <<cnf, opts, slotFiles, tpc, tableVars, pc, slot, attrs, shown, out>>

\* What Attribute(self, n) yields for slot n.
SlotOutcome(n) ==
    A!Outcome(slotFiles[n].attr, slotFiles[n].dpn, slotFiles[n].tail)

\* A printed fact: the view it belongs to, the column's slot, the range
\* printed with it, the pack printed.
Fact(kind, n, range, pack) == [kind |-> kind, slot |-> n, range |-> range, pack |-> pack]

Init ==
    /\ cnf \in Configs
    /\ opts \in [table : BOOLEAN, column : BOOLEAN, dp : BOOLEAN]
    /\ slotFiles \in [Slots -> SlotFiles]
    /\ T!Init
    /\ pc = "config"
    /\ slot = 0
    /\ attrs = <<>>
    /\ shown = 0
    /\ out = <<>>

\* get_datadir: config.readfp(open(OPT.cnf_file)) raises IOError on a
\* missing file, config.get raises NoSectionError without [mysqld]; a
\* missing datadir key falls back to the default.
GetDatadir ==
    /\ pc = "config"
    /\ pc' = IF cnf \in {"datadir", "default"} THEN "table" ELSE "crash"
    /\ UNCHANGED <<cnf, opts, slotFiles, tpc, tableVars, slot, attrs, shown, out>>

\* StoneTable(datadir) up to parse_blocks: one step of the table reader.
TableStep ==
    /\ pc = "table"
    /\ T!Reader
    /\ UNCHANGED <<cnf, opts, slotFiles, pc, slot, attrs, shown, out>>

\* The table reader has returned (into parse_table_file) or left the run.
TableEnd ==
    /\ pc = "table"
    /\ tpc \in {"done", "exit", "crash"}
    /\ pc' = IF tpc = "done" THEN "attrs" ELSE tpc
    /\ UNCHANGED <<cnf, opts, slotFiles, tpc, tableVars, slot, attrs, shown, out>>

\* parse_attr_file(attr): Attribute(self, attr), appended to self.attrs;
\* an exit or an exception in it ends the run.
ParseAttr ==
    /\ pc = "attrs"
    /\ slot < noAttr
    /\ IF SlotOutcome(slot).status = "done"
         THEN /\ attrs' = Append(attrs, [no |-> slot, col |-> SlotOutcome(slot).column])
              /\ slot' = slot + 1
              /\ UNCHANGED pc
         ELSE /\ pc' = SlotOutcome(slot).status
              /\ UNCHANGED <<attrs, slot>>
    /\ UNCHANGED <<cnf, opts, slotFiles, tpc, tableVars, shown, out>>

\* Mutant of AttrsEnd: range(0, self.no_attr - 1).
AttrsEndEarly ==
    /\ pc = "attrs"
    /\ slot >= noAttr - 1
    /\ pc' = "show"
    /\ UNCHANGED <<cnf, opts, slotFiles, tpc, tableVars, slot, attrs, shown, out>>

\* for attr in range(0, self.no_attr) is over; main calls tab.show().
AttrsEnd ==
    /\ pc = "attrs"
    /\ slot >= noAttr
    /\ pc' = "show"
    /\ UNCHANGED <<cnf, opts, slotFiles, tpc, tableVars, slot, attrs, shown, out>>

\* StoneTable.show: the table view when -t is given.
ShowTable ==
    /\ pc = "show"
    /\ out' = IF opts.table THEN Append(out, Fact("table", None, None, None)) ELSE out
    /\ pc' = "columns"
    /\ UNCHANGED <<cnf, opts, slotFiles, tpc, tableVars, slot, attrs, shown>>

\* Mutant of ShowColumn: the range printed "if self.i_min != 0", so also
\* for a column without one.
ShowColumnRangeNotZero ==
    LET a     == attrs[shown + 1]
        range == IF a.col.min # 0 THEN <<a.col.min, a.col.max>> ELSE None
        packs == IF opts.dp
                   THEN [k \in 1..Len(a.col.packs) |-> Fact("pack", a.no, None, a.col.packs[k])]
                   ELSE <<>>
    IN  /\ pc = "columns"
        /\ opts.column
        /\ shown < Len(attrs)
        /\ IF Nameable(a.col.type)
             THEN /\ out' = Append(out, Fact("column", a.no, range, None)) \o packs
                  /\ shown' = shown + 1
                  /\ UNCHANGED pc
             ELSE /\ pc' = "crash"
                  /\ UNCHANGED <<out, shown>>
        /\ UNCHANGED <<cnf, opts, slotFiles, tpc, tableVars, slot, attrs>>

\* With -c, one column: Attribute.show prints the type by AttrType.name
\* (IndexError for a type outside RC_TYPES), the range "if self.i_min",
\* then DP.show for every pack, which prints only with -d.
ShowColumn ==
    LET a     == attrs[shown + 1]
        range == IF a.col.min # None /\ a.col.min # 0 THEN <<a.col.min, a.col.max>> ELSE None
        packs == IF opts.dp
                   THEN [k \in 1..Len(a.col.packs) |-> Fact("pack", a.no, None, a.col.packs[k])]
                   ELSE <<>>
    IN  /\ pc = "columns"
        /\ opts.column
        /\ shown < Len(attrs)
        /\ IF Nameable(a.col.type)
             THEN /\ out' = Append(out, Fact("column", a.no, range, None)) \o packs
                  /\ shown' = shown + 1
                  /\ UNCHANGED pc
             ELSE /\ pc' = "crash"
                  /\ UNCHANGED <<out, shown>>
        /\ UNCHANGED <<cnf, opts, slotFiles, tpc, tableVars, slot, attrs>>

\* show returns and the run ends.
ShowEnd ==
    /\ pc = "columns"
    /\ ~opts.column \/ shown >= Len(attrs)
    /\ pc' = "done"
    /\ UNCHANGED <<cnf, opts, slotFiles, tpc, tableVars, slot, attrs, shown, out>>

Next ==
    \/ GetDatadir \/ TableStep \/ TableEnd \/ ParseAttr \/ AttrsEnd
    \/ ShowTable \/ ShowColumn \/ ShowEnd

\* One synchronous process: its steps are weakly fair.
Spec == Init /\ [][Next]_vars /\ WF_vars(Next)

(***************************************************************************)
(* Properties.                                                             *)
(***************************************************************************)

\* Type invariant.
TypeOK ==
    /\ cnf \in Configs
    /\ slotFiles \in [Slots -> SlotFiles]
    /\ T!TypeOK
    /\ pc \in {"config", "table", "attrs", "show", "columns", "done", "exit", "crash"}
    /\ slot \in Slots \cup {MaxAttr}
    /\ attrs \in Seq([no : Slots, col : [lookup : BOOLEAN, type : 0..127,
                                         min : Vals \cup {None}, max : Vals \cup {None},
                                         dict : Nat \cup {None}, packs : Seq(PackRec)]])
    /\ shown \in 0..Len(attrs)
    /\ out \in Seq([kind : {"table", "column", "pack"}, slot : Slots \cup {None},
                    range : (Vals \X Vals) \cup {None}, pack : PackRec \cup {None}])

\* No partial results (spec.md section 7): the report is printed only for
\* a table whose every slot parsed, and the model then holds one column per
\* slot 0..no_attr-1, in slot order, each what Attribute(self, n) yields.
ColumnsInSlotOrder ==
    pc \in {"show", "columns", "done"} =>
        /\ tpc = "done"
        /\ Len(attrs) = noAttr
        /\ \A i \in 1..Len(attrs) :
              /\ attrs[i].no = i - 1
              /\ SlotOutcome(i - 1).status = "done"
              /\ attrs[i].col = SlotOutcome(i - 1).column

(***************************************************************************)
(* What spec.md says of the tool, checked against the code.                *)
(***************************************************************************)

\* The slots the table file marks active (attr_mode byte non-zero).
ActiveSlots == {n \in 0..(noAttr - 1) : attrMode[n + 1] # 0}

\* spec.md section 8: a table with active flags [1,0,1] yields a model of
\* exactly 2 columns, in slot order, skipping the deleted slot.
DeletedSlotsSkipped ==
    pc \in {"show", "columns", "done"} =>
        {attrs[i].no : i \in 1..Len(attrs)} = ActiveSlots

\* spec.md section 8: a lookup column with range_min = 0 exposes its range;
\* the column view prints the range of every column that has one.
RangeShown ==
    (pc = "done" /\ opts.column) =>
        \A i \in 1..Len(attrs) :
            attrs[i].col.min # None =>
                \E k \in 1..Len(out) :
                    out[k].kind = "column" /\ out[k].slot = attrs[i].no /\ out[k].range # None

\* spec.md section 4.2 and 4.4: an unknown type byte fails the parse with a
\* format error; a table that parsed is always rendered.  The run may only
\* die while the files are being read.
ShowNeverFails ==
    pc = "crash" => tpc # "done" \/ slot < noAttr


=============================================================================
