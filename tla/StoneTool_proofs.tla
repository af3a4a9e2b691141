-------------------------- MODULE StoneTool_proofs --------------------------
(***************************************************************************)
(* Proofs about the whole run of stonedb_tool.py (StoneTool): for every    *)
(* table file, every number of slots and every column file, the report is *)
(* printed only for a table all of whose columns parsed.                   *)
(***************************************************************************)
EXTENDS StoneTool, SequenceTheorems, TLAPS

\* The table reader's proofs, for the table reader StoneTool runs.
TP == INSTANCE TableFile_proofs WITH Heads <- TableHeads, pc <- tpc

\* The column parse_attr_file(n) appends for slot n.
ColRec(n) == [no |-> n, col |-> SlotOutcome(n).column]

\* self.attrs holds the columns of slots 0, 1, ... in order, each parsed.
InOrder ==
    \A i \in 1..Len(attrs) :
        /\ attrs[i].no = i - 1
        /\ SlotOutcome(i - 1).status = "done"
        /\ attrs[i].col = SlotOutcome(i - 1).column

\* The table reader returned and every one of its no_attr slots parsed.
Parsed ==
    /\ tpc = "done"
    /\ noAttr \in Nat
    /\ Len(attrs) = noAttr
    /\ InOrder

(***************************************************************************)
(* ColumnsInSlotOrder is not inductive: the loop of parse_table_file keeps *)
(* one column per slot read so far (Len(attrs) = slot), starts from slot 0 *)
(* with nothing printed, and reaches no_attr only because no_attr is a     *)
(* natural number once the table reader is done (the table reader's own    *)
(* invariant TInv).  Output, once there, keeps Parsed because nothing      *)
(* changes attrs or the table after the loop.                              *)
(***************************************************************************)
SInv ==
    /\ TP!TInv
    /\ pc \in {"config", "table", "attrs", "show", "columns", "done", "exit", "crash"}
    /\ slot \in Nat
    /\ attrs \in Seq({ColRec(n) : n \in Nat})
    /\ pc \in {"config", "table"} => attrs = <<>> /\ slot = 0
    /\ pc \in {"config", "table", "attrs"} => out = <<>>
    /\ pc \in {"attrs", "show", "columns", "done"} => tpc = "done"
    /\ pc = "attrs" => /\ Len(attrs) = slot
                       /\ slot <= noAttr
                       /\ InOrder
    /\ pc \in {"show", "columns", "done"} => Parsed
    /\ out # <<>> => Parsed

(***************************************************************************)
(* TypeOK is not inductive either.  The table reader's part needs the      *)
(* reader's own invariants (TInv and BInv), and a column fact printed by   *)
(* Attribute.show has a range of two values only because Attribute reads  *)
(* i_min and i_max together: either both or neither.                       *)
(***************************************************************************)
ColumnRecs ==
    {c \in [lookup : BOOLEAN, type : 0..127, min : Vals \cup {None}, max : Vals \cup {None},
            dict : Nat \cup {None}, packs : Seq(PackRec)] :
        c.min # None => c.max \in Vals}

FactRecs ==
    [kind : {"table", "column", "pack"}, slot : Slots \cup {None},
     range : (Vals \X Vals) \cup {None}, pack : PackRec \cup {None}]

TypeInv ==
    /\ SInv
    /\ TP!BInv
    /\ cnf \in Configs
    /\ opts \in [table : BOOLEAN, column : BOOLEAN, dp : BOOLEAN]
    /\ slotFiles \in [Slots -> SlotFiles]
    /\ slot \in 0..MaxAttr
    /\ attrs \in Seq([no : Slots, col : ColumnRecs])
    /\ shown \in 0..Len(attrs)
    /\ out \in Seq(FactRecs)

\* Attribute(self, n) ends in a column, a clean exit or an exception.
LEMMA OutcomeStatus ==
    ASSUME NEW f, NEW d, NEW t
    PROVE  A!Outcome(f, d, t).status \in {"done", "exit", "crash"}
BY DEF A!Outcome, A!Result

\* The packs load_dpns decodes from an index file of at least two
\* records are decoded packs.
LEMMA DecodedPacks ==
    ASSUME NEW d \in A!D!Files, Len(d) >= 2
    PROVE  A!D!Decoded(d) \in Seq(PackRec)
<1>1. PICK n \in 0..MaxRecords : d \in [1..n -> FileNos]
    BY DEF A!D!Files
<1>2. n \in Nat /\ Len(d) = n
    BY <1>1, ColumnFilesAssumption
<1>3. \A i \in 1..(n - 1) :
        (IF i < n - 1 THEN A!D!DP(d[i + 2], i - 1) ELSE A!D!DP(d[1], n - 2)) \in PackRec
    BY <1>1, <1>2 DEF A!D!DP, PackRec
<1>4. A!D!Decoded(d) \in [1..(n - 1) -> PackRec]
    BY <1>2, <1>3 DEF A!D!Decoded
<1>5. n - 1 \in Nat
    BY <1>2
<1>. QED  BY <1>4, <1>5, SeqDef

\* A column Attribute(self, n) yields has the fields show reads, and a
\* range only with both of its ends.
LEMMA OutcomeColumn ==
    ASSUME NEW f \in A!AttrFiles, NEW d \in A!D!Files, NEW t,
           A!Outcome(f, d, t).status = "done"
    PROVE  A!Outcome(f, d, t).column \in ColumnRecs
<1> DEFINE lk     == A!LookupBit(f.typeByte)
           ty     == A!MaskType(f.typeByte)
           ranged == lk \/ A!IsNumeric(ty)
<1>0. f.exists \in BOOLEAN /\ Len(d) \in Nat
    <2>1. PICK n \in 0..MaxRecords : d \in [1..n -> FileNos]
        BY DEF A!D!Files
    <2>2. Len(d) \in Nat
        BY <2>1, ColumnFilesAssumption
    <2>. QED  BY <2>2 DEF A!AttrFiles
<1>1. /\ f.exists
      /\ ~(ranged /\ f.tailLen < 24)
      /\ Len(d) >= 2
      /\ A!Outcome(f, d, t).column =
            A!Column(lk, ty, IF ranged THEN f.min ELSE None, IF ranged THEN f.max ELSE None,
                     IF lk THEN f.tailLen - 24 ELSE None, A!D!Decoded(d))
    <2>1. ~(~f.exists \/ f.head # "ok" \/ f.nuls < 2 \/ f.tailLen < 8)
        BY DEF A!Outcome, A!Result
    <2>2. f.pfEnd = A!D!PF_END
        BY <2>1, Zenon DEF A!Outcome, A!Result
    <2>3. ~(ranged /\ f.tailLen < 24)
        BY <2>1, <2>2, Zenon DEF A!Outcome, A!Result
    <2>4. t = 0 /\ ~(Len(d) < 2)
        BY <2>1, <2>2, <2>3, Zenon DEF A!Outcome, A!Result
    <2>5. A!Outcome(f, d, t).column =
            A!Column(lk, ty, IF ranged THEN f.min ELSE None, IF ranged THEN f.max ELSE None,
                     IF lk THEN f.tailLen - 24 ELSE None, A!D!Decoded(d))
        BY <2>1, <2>2, <2>3, <2>4, Zenon DEF A!Outcome, A!Result
    <2>. QED  BY <1>0, <2>1, <2>3, <2>4, <2>5
<1>2. f \in [exists : {TRUE}, head : AttrHeads, typeByte : TypeBytes, nuls : 0..2,
             tailLen : TailLens, pfEnd : PfEnds, min : Vals, max : Vals]
    BY <1>1 DEF A!AttrFiles
<1>3. f.typeByte \in 0..255 /\ f.tailLen \in Nat /\ f.min \in Vals /\ f.max \in Vals
    BY <1>2, ColumnFilesAssumption
<1>4. lk \in BOOLEAN /\ ty \in 0..127
    BY <1>3 DEF A!LookupBit, A!MaskType
<1>5. (IF lk THEN f.tailLen - 24 ELSE None) \in Nat \cup {None}
    BY <1>1, <1>3
<1>6. A!D!Decoded(d) \in Seq(PackRec)
    BY <1>1, DecodedPacks
<1>. QED  BY <1>1, <1>3, <1>4, <1>5, <1>6 DEF A!Column, ColumnRecs

\* StoneTool starts its table reader where TableFile starts.
LEMMA TableInit == T!Init => TP!TInv
<1>1. T!Init => TP!Init
    BY DEF T!Init, TP!Init, T!TableFiles, TP!TableFiles, T!ModeBytes, TP!ModeBytes,
           T!Chains, TP!Chains
<1>. QED  BY <1>1, TP!TInvInit, TableAssumption, MaxAttrAssumption DEF T!BLK_HDR, TP!BLK_HDR

\* A step of StoneTool's table reader is a step of TableFile's.
LEMMA TableNext == [T!Next]_T!vars => [TP!Next]_TP!vars
<1>1. ASSUME NEW t, NEW b
      PROVE  /\ T!DataLen(t) = TP!DataLen(t)
             /\ T!Payload(t, b) = TP!Payload(t, b)
             /\ T!FirstBlkLen(t) = TP!FirstBlkLen(t)
    BY DEF T!DataLen, TP!DataLen, T!Ends, TP!Ends, T!BlockSize, TP!BlockSize,
           T!BLK_HDR, TP!BLK_HDR, T!Payload, TP!Payload, T!SliceEnd, TP!SliceEnd,
           T!FirstBlkLen, TP!FirstBlkLen
<1>2. /\ T!Chdir = TP!Chdir
      /\ T!ReadHeader = TP!ReadHeader
      /\ T!ReadModes = TP!ReadModes
    BY DEF T!Chdir, TP!Chdir, T!ReadHeader, TP!ReadHeader, T!ReadModes, TP!ReadModes
<1>3. /\ T!Split = TP!Split
      /\ T!BlockStep = TP!BlockStep
      /\ T!ReadTabNum = TP!ReadTabNum
    BY <1>1 DEF T!Split, TP!Split, T!BlockStep, TP!BlockStep, T!ReadTabNum, TP!ReadTabNum,
                T!BLK_HDR, TP!BLK_HDR
<1>. QED  BY <1>2, <1>3 DEF T!Next, TP!Next, T!Reader, TP!Reader, T!vars, TP!vars

\* So it keeps TableFile's invariants.
LEMMA TableStepTInv == TP!TInv /\ [T!Next]_T!vars => TP!TInv'
BY TableNext, TP!TInvStep, TableAssumption, MaxAttrAssumption DEF T!BLK_HDR, TP!BLK_HDR

LEMMA TableStepBInv ==
    TP!TInv /\ TP!TInv' /\ TP!BInv /\ [T!Next]_T!vars => TP!BInv'
BY TableNext, TP!BInvStep, TableAssumption, MaxAttrAssumption DEF T!BLK_HDR, TP!BLK_HDR

\* StoneTool's table reader starts where TableFile's does.
LEMMA TableInitBInv == T!Init => TP!BInv
<1>1. T!Init => TP!Init
    BY DEF T!Init, TP!Init, T!TableFiles, TP!TableFiles, T!ModeBytes, TP!ModeBytes,
           T!Chains, TP!Chains
<1>. QED  BY <1>1, TP!BInvInit, TableAssumption, MaxAttrAssumption DEF T!BLK_HDR, TP!BLK_HDR

\* The table reader's type invariant, from TableFile's two invariants.
LEMMA TableTypeOK == TP!TInv /\ TP!BInv => T!TypeOK
<1>1. TP!TypeOK => T!TypeOK
    BY DEF T!TypeOK, TP!TypeOK, T!TableFiles, TP!TableFiles, T!ModeBytes, TP!ModeBytes,
           T!Chains, TP!Chains
<1>. QED  BY <1>1, TP!TypeFromInv, TableAssumption, MaxAttrAssumption DEF T!BLK_HDR, TP!BLK_HDR

LEMMA SInvInit == Init => SInv
<1> SUFFICES ASSUME Init PROVE SInv
    OBVIOUS
<1>1. TP!TInv
    BY TableInit DEF Init
<1>. QED  BY <1>1 DEF Init, SInv

LEMMA SInvStep == SInv /\ [Next]_vars => SInv'
<1> SUFFICES ASSUME SInv, [Next]_vars PROVE SInv'
    OBVIOUS
<1>0. TP!TInv'
    <2>1. [T!Next]_T!vars
        BY DEF Next, vars, tableVars, T!vars, T!Next, GetDatadir, TableStep, TableEnd,
               ParseAttr, AttrsEnd, ShowTable, ShowColumn, ShowEnd
    <2>. QED  BY <2>1, TableStepTInv DEF SInv
<1>b. slotFiles' = slotFiles
    BY DEF Next, vars, GetDatadir, TableStep, TableEnd, ParseAttr, AttrsEnd,
           ShowTable, ShowColumn, ShowEnd
<1>c. {ColRec(n) : n \in Nat}' = {ColRec(n) : n \in Nat}
    BY <1>b DEF ColRec, SlotOutcome
<1>a. UNCHANGED <<attrs, tpc, noAttr, slotFiles>> =>
          /\ Parsed' = Parsed
          /\ InOrder' = InOrder
    BY DEF Parsed, InOrder, SlotOutcome
<1>1. CASE GetDatadir
    BY <1>0, <1>b, <1>c, <1>1, <1>a DEF SInv, GetDatadir, tableVars
<1>2. CASE TableStep
    BY <1>0, <1>b, <1>c, <1>2 DEF SInv, TableStep
<1>3. CASE TableEnd
    <2>1. tpc = "done" => noAttr \in Nat
        BY DEF SInv, TP!TInv
    <2>2. InOrder
        BY <1>3 DEF SInv, TableEnd, InOrder
    <2>. QED  BY <1>0, <1>b, <1>c, <1>3, <1>a, <2>1, <2>2 DEF SInv, TableEnd, tableVars
<1>4. CASE ParseAttr
    <2>0. noAttr \in Nat
        BY <1>4 DEF SInv, ParseAttr, TP!TInv
    <2>1. pc = "attrs" /\ slot < noAttr /\ Len(attrs) = slot /\ InOrder
          /\ attrs \in Seq({ColRec(n) : n \in Nat}) /\ slot \in Nat
        BY <1>4 DEF SInv, ParseAttr
    <2>2. CASE SlotOutcome(slot).status = "done"
        <3>1. attrs' = Append(attrs, ColRec(slot)) /\ slot' = slot + 1 /\ pc' = "attrs"
            BY <1>4, <2>2 DEF ParseAttr, ColRec
        <3>2. ColRec(slot) \in {ColRec(n) : n \in Nat}
            BY <2>1
        <3>3. attrs' \in Seq({ColRec(n) : n \in Nat}) /\ Len(attrs') = slot + 1
              /\ attrs'[slot + 1] = ColRec(slot)
              /\ \A i \in 1..slot : attrs'[i] = attrs[i]
            BY <2>1, <3>1, <3>2, AppendProperties
        <3>4. InOrder'
            <4> SUFFICES ASSUME NEW i \in 1..Len(attrs')
                         PROVE  /\ attrs'[i].no = i - 1
                                /\ SlotOutcome(i - 1)'.status = "done"
                                /\ attrs'[i].col = SlotOutcome(i - 1)'.column
                BY DEF InOrder
            <4>1. \A n : SlotOutcome(n)' = SlotOutcome(n)
                BY <1>b DEF SlotOutcome
            <4>2. CASE i <= slot
                <5>1. attrs'[i] = attrs[i] /\ i \in 1..Len(attrs)
                    BY <2>1, <3>3, <4>2
                <5>. QED  BY <2>1, <4>1, <5>1 DEF InOrder
            <4>3. CASE i = slot + 1
                <5>1. attrs'[i] = ColRec(slot) /\ i - 1 = slot
                    BY <2>1, <3>3, <4>3
                <5>. QED  BY <2>2, <4>1, <5>1 DEF ColRec
            <4>. QED  BY <2>1, <3>3, <4>2, <4>3
        <3>5. tpc' = "done" /\ out' = <<>> /\ noAttr' = noAttr /\ slot' \in Nat
              /\ slot' <= noAttr'
            BY <1>4, <2>0, <2>1, <3>1 DEF SInv, ParseAttr, tableVars
        <3>. QED  BY <1>0, <1>b, <1>c, <3>1, <3>3, <3>4, <3>5 DEF SInv
    <2>3. CASE SlotOutcome(slot).status # "done"
        <3>1. pc' \in {"exit", "crash"}
            BY <1>4, <2>3, OutcomeStatus DEF ParseAttr, SlotOutcome
        <3>. QED  BY <1>0, <1>b, <1>c, <1>4, <1>a, <2>3, <3>1 DEF SInv, ParseAttr, tableVars
    <2>. QED  BY <2>2, <2>3
<1>5. CASE AttrsEnd
    <2>1. noAttr \in Nat
        BY <1>5 DEF SInv, AttrsEnd, TP!TInv
    <2>2. Parsed'
        BY <1>5, <1>a, <2>1 DEF SInv, AttrsEnd, tableVars, Parsed
    <2>. QED  BY <1>0, <1>b, <1>c, <1>5, <1>a, <2>2 DEF SInv, AttrsEnd, tableVars
<1>6. CASE ShowTable
    BY <1>0, <1>b, <1>c, <1>6, <1>a DEF SInv, ShowTable, tableVars
<1>7. CASE ShowColumn
    <2>1. pc = "columns" /\ pc' \in {"columns", "crash"}
          /\ UNCHANGED <<slotFiles, tpc, tableVars, slot, attrs>>
        BY <1>7 DEF ShowColumn
    <2>. QED  BY <1>0, <1>b, <1>c, <1>a, <2>1 DEF SInv, tableVars
<1>8. CASE ShowEnd
    BY <1>0, <1>b, <1>c, <1>8, <1>a DEF SInv, ShowEnd, tableVars
<1>9. CASE UNCHANGED vars
    BY <1>0, <1>b, <1>c, <1>9, <1>a DEF SInv, vars, tableVars
<1>. QED  BY <1>1, <1>2, <1>3, <1>4, <1>5, <1>6, <1>7, <1>8, <1>9 DEF Next

-----------------------------------------------------------------------------

\* SInv holds in every state of a run of stonedb_tool.py.
THEOREM ToolInvariant == Spec => []SInv
<1>1. Init => SInv
    BY SInvInit
<1>2. SInv /\ [Next]_vars => SInv'
    BY SInvStep
<1>. QED  BY <1>1, <1>2, PTL DEF Spec

\* For every Table.ctb and every set of column files: once show runs, the
\* model holds one column per slot 0..no_attr-1, in slot order, each the
\* column Attribute(self, n) yields (parse_table_file's loop never skips
\* or reorders a slot and stops at the first failure).
THEOREM SlotOrderCorrect == Spec => []ColumnsInSlotOrder
<1>1. SInv => ColumnsInSlotOrder
    BY DEF SInv, Parsed, InOrder, ColumnsInSlotOrder
<1>. QED  BY <1>1, ToolInvariant, PTL


-----------------------------------------------------------------------------

LEMMA TypeInvInit == Init => TypeInv
<1> SUFFICES ASSUME Init PROVE TypeInv
    OBVIOUS
<1>1. SInv /\ TP!BInv
    BY SInvInit, TableInitBInv DEF Init
<1>2. 0 \in 0..MaxAttr
    BY MaxAttrAssumption
<1>. QED  BY <1>1, <1>2 DEF Init, TypeInv

\* A printed column: its fact and the facts of its packs.
LEMMA ColumnFacts ==
    ASSUME NEW a \in [no : Slots, col : ColumnRecs], NEW dp \in BOOLEAN
    PROVE  /\ Fact("column", a.no,
                   IF a.col.min # None /\ a.col.min # 0 THEN <<a.col.min, a.col.max>> ELSE None,
                   None) \in FactRecs
           /\ (IF dp THEN [k \in 1..Len(a.col.packs) |-> Fact("pack", a.no, None, a.col.packs[k])]
               ELSE <<>>) \in Seq(FactRecs)
<1>1. a.col.packs \in Seq(PackRec)
    BY DEF ColumnRecs
<1>2. [k \in 1..Len(a.col.packs) |-> Fact("pack", a.no, None, a.col.packs[k])]
        \in [1..Len(a.col.packs) -> FactRecs]
    BY <1>1 DEF Fact, FactRecs
<1>3. [k \in 1..Len(a.col.packs) |-> Fact("pack", a.no, None, a.col.packs[k])] \in Seq(FactRecs)
    BY <1>1, <1>2, LenProperties, SeqDef
<1>4. <<>> \in Seq(FactRecs)
    OBVIOUS
<1>5. a.col.min # None => a.col.min \in Vals /\ a.col.max \in Vals
    BY DEF ColumnRecs
<1>. QED  BY <1>3, <1>4, <1>5 DEF Fact, FactRecs

LEMMA TypeInvStep == TypeInv /\ [Next]_vars => TypeInv'
<1> SUFFICES ASSUME TypeInv, [Next]_vars PROVE TypeInv'
    OBVIOUS
<1>1. SInv'
    BY SInvStep DEF TypeInv
<1>2. TP!BInv'
    <2>1. [T!Next]_T!vars
        BY DEF Next, vars, tableVars, T!vars, T!Next, GetDatadir, TableStep, TableEnd,
               ParseAttr, AttrsEnd, ShowTable, ShowColumn, ShowEnd
    <2>. QED  BY <1>1, <2>1, TableStepBInv DEF TypeInv, SInv
<1>3. UNCHANGED <<cnf, opts, slotFiles>>
    BY DEF Next, vars, GetDatadir, TableStep, TableEnd, ParseAttr, AttrsEnd,
           ShowTable, ShowColumn, ShowEnd
<1> USE <1>1, <1>2, <1>3
<1>4. CASE GetDatadir \/ TableStep \/ TableEnd \/ AttrsEnd \/ ShowEnd \/ UNCHANGED vars
    BY <1>4 DEF TypeInv, GetDatadir, TableStep, TableEnd, AttrsEnd, ShowEnd, vars
<1>5. CASE ShowTable
    <2>1. Fact("table", None, None, None) \in FactRecs
        BY DEF Fact, FactRecs
    <2>. QED  BY <1>5, <2>1 DEF TypeInv, ShowTable
<1>6. CASE ParseAttr
    <2>1. pc = "attrs" /\ slot < noAttr /\ tpc = "done" /\ slot \in 0..MaxAttr
          /\ noAttr \in Int
        BY <1>6 DEF ParseAttr, TypeInv, SInv, TP!TInv
    <2>2. noAttr <= MaxAttr
        <3>1. tbl \in TP!TableFiles /\ tbl.dir = "table" /\ noAttr = tbl.noAttr
            BY <2>1 DEF TypeInv, SInv, TP!TInv
        <3>2. tbl.noAttr \in AttrCounts
            BY <3>1, TP!TableFields, TableAssumption, MaxAttrAssumption DEF TP!BLK_HDR, T!BLK_HDR
        <3>. QED  BY <3>1, <3>2, MaxAttrAssumption
    <2>3. slot \in Slots
        BY <2>1, <2>2, MaxAttrAssumption DEF Slots
    <2>4. slotFiles[slot].attr \in A!AttrFiles /\ slotFiles[slot].dpn \in A!D!Files
        BY <2>3, SlotFilesAssumption DEF TypeInv
    <2>5. CASE SlotOutcome(slot).status = "done"
        <3>1. SlotOutcome(slot).column \in ColumnRecs
            BY <2>4, <2>5, OutcomeColumn DEF SlotOutcome
        <3>2. /\ attrs' = Append(attrs, [no |-> slot, col |-> SlotOutcome(slot).column])
              /\ slot' = slot + 1
              /\ UNCHANGED <<shown, out>>
            BY <1>6, <2>5 DEF ParseAttr
        <3>3. [no |-> slot, col |-> SlotOutcome(slot).column] \in [no : Slots, col : ColumnRecs]
            BY <2>3, <3>1
        <3>4. attrs' \in Seq([no : Slots, col : ColumnRecs]) /\ Len(attrs') = Len(attrs) + 1
            BY <3>2, <3>3, AppendProperties DEF TypeInv
        <3>5. slot' \in 0..MaxAttr /\ shown' \in 0..Len(attrs')
            <4>1. Len(attrs) \in Nat /\ shown \in 0..Len(attrs)
                BY LenProperties DEF TypeInv
            <4>. QED  BY <2>1, <2>2, <3>2, <3>4, <4>1, MaxAttrAssumption
        <3>. QED  BY <3>2, <3>4, <3>5 DEF TypeInv
    <2>6. CASE SlotOutcome(slot).status # "done"
        BY <1>6, <2>6 DEF TypeInv, ParseAttr
    <2>. QED  BY <2>5, <2>6
<1>7. CASE ShowColumn
    <2> DEFINE a     == attrs[shown + 1]
               range == IF a.col.min # None /\ a.col.min # 0 THEN <<a.col.min, a.col.max>> ELSE None
               packs == IF opts.dp
                          THEN [k \in 1..Len(a.col.packs) |-> Fact("pack", a.no, None, a.col.packs[k])]
                          ELSE <<>>
    <2>1. shown < Len(attrs) /\ shown \in Nat
        BY <1>7 DEF ShowColumn, TypeInv
    <2>2. a \in [no : Slots, col : ColumnRecs]
        <3>1. attrs \in Seq([no : Slots, col : ColumnRecs]) /\ shown + 1 \in 1..Len(attrs)
            BY <2>1 DEF TypeInv
        <3>. QED  BY <3>1, ElementOfSeq
    <2>3. Fact("column", a.no, range, None) \in FactRecs /\ packs \in Seq(FactRecs)
        BY <2>2, ColumnFacts DEF TypeInv
    <2>4. Append(out, Fact("column", a.no, range, None)) \o packs \in Seq(FactRecs)
        BY <2>3, ConcatProperties, AppendProperties DEF TypeInv
    <2>5. CASE Nameable(a.col.type)
        <3>1. out' = Append(out, Fact("column", a.no, range, None)) \o packs
              /\ shown' = shown + 1 /\ UNCHANGED <<slot, attrs>>
            BY <1>7, <2>5 DEF ShowColumn
        <3>. QED  BY <2>1, <2>4, <3>1 DEF TypeInv
    <2>6. CASE ~Nameable(a.col.type)
        BY <1>7, <2>6 DEF ShowColumn, TypeInv
    <2>. QED  BY <2>5, <2>6
<1>. QED  BY <1>4, <1>5, <1>6, <1>7 DEF Next

\* TypeInv holds in every state of a run of stonedb_tool.py.
THEOREM ToolTypeInvariant == Spec => []TypeInv
<1>1. Init => TypeInv
    BY TypeInvInit
<1>2. TypeInv /\ [Next]_vars => TypeInv'
    BY TypeInvStep
<1>. QED  BY <1>1, <1>2, PTL DEF Spec

\* For every table file, every set of column files and every choice of
\* flags, the run keeps its types: the reader's state is TableFile's, the
\* slot never passes no_attr's bound, and every printed fact is a table
\* view, a column of a slot with a range of two values or none, or a
\* decoded pack.
THEOREM ToolTypeCorrect == Spec => []TypeOK
<1>1. TypeInv => TypeOK
    <2> SUFFICES ASSUME TypeInv PROVE TypeOK
        OBVIOUS
    <2>1. T!TypeOK
        BY TableTypeOK DEF TypeInv, SInv
    <2>2. slot \in Slots \cup {MaxAttr}
        BY MaxAttrAssumption DEF TypeInv, Slots
    <2>3. [no : Slots, col : ColumnRecs] \subseteq
            [no : Slots, col : [lookup : BOOLEAN, type : 0..127,
                                min : Vals \cup {None}, max : Vals \cup {None},
                                dict : Nat \cup {None}, packs : Seq(PackRec)]]
        BY DEF ColumnRecs
    <2>4. attrs \in Seq([no : Slots, col : [lookup : BOOLEAN, type : 0..127,
                                         min : Vals \cup {None}, max : Vals \cup {None},
                                         dict : Nat \cup {None}, packs : Seq(PackRec)]])
        BY <2>3, SeqMonotonic DEF TypeInv
    <2>. QED  BY <2>1, <2>2, <2>4 DEF TypeInv, SInv, TypeOK, FactRecs
<1>. QED  BY <1>1, ToolTypeInvariant, PTL

=============================================================================
