------------------------------ MODULE TableFile ------------------------------
(***************************************************************************)
(* The table-descriptor reader of scripts/stonedb_tool.py: StoneTable's    *)
(* constructor up to parse_table_file, and parse_blocks.  It enters the    *)
(* table directory, checks that Table.ctb is there, checks the "RScT"     *)
(* identifier and format "2", reads the attribute count and one mode byte *)
(* per attribute, splits the rest on NUL into name, description and block *)
(* data, runs the block loop, and decodes the MySQL table number from the *)
(* first block.                                                            *)
(*                                                                         *)
(* The file is abstracted to what these steps tell apart: whether the     *)
(* identifier and format are right and the fixed header complete, the     *)
(* attribute count and the mode bytes present, how many NULs the rest     *)
(* holds, and the block chain as the declared length and table-number     *)
(* value of each block, followed by a number of stray bytes.               *)
(***************************************************************************)
EXTENDS Integers, Sequences

CONSTANTS
    Heads,       \* kinds of file head: "ok", "bad_ident", "bad_format", "short"
    AttrCounts,  \* values of the no_attr field
    BlkLens,     \* declared block lengths (blk_len)
    TabNums,     \* values of the 4-byte payload of a block
    MaxChain,    \* bound on the number of blocks written
    Slacks,      \* stray bytes after the last block
    MaxBlocks    \* iterations of the block loop after which it is deemed endless

ASSUME HeadsAssumption == Heads \subseteq {"ok", "bad_ident", "bad_format", "short"}
ASSUME AttrCountsAssumption == AttrCounts \subseteq Int
ASSUME BlkLensAssumption == BlkLens \subseteq Int
ASSUME MaxChainAssumption == MaxChain \in Nat
ASSUME MaxBlocksAssumption == MaxBlocks \in Nat

\* The size of a block header: blk_len (4), blk_type (1), has_next (1).
BLK_HDR == 6

\* Stray bytes are fewer than a block header (more would be read as one).
ASSUME SlacksAssumption == Slacks \subseteq 0..(BLK_HDR - 1)

\* A block occupies its declared length, and at least its header.
BlockSize(b) == IF b.len >= BLK_HDR THEN b.len ELSE BLK_HDR

\* End offsets of the blocks of chain c in the block data: block i spans
\* Ends(c)[i - 1] .. Ends(c)[i].
Ends(c) ==
    LET e[i \in 0..Len(c)] == IF i = 0 THEN 0 ELSE e[i - 1] + BlockSize(c[i])
    IN  e

\* Python's end index of s[start:e] for a string of length n.
SliceEnd(e, n) ==
    IF e < 0 THEN (IF n + e < 0 THEN 0 ELSE n + e)
    ELSE (IF e < n THEN e ELSE n)

\* The table files the tool may find: the state of the directory, then the
\* file's fields.  A file holding fewer mode bytes than no_attr ends there.
Chains == UNION {[1..k -> [len : BlkLens, val : TabNums]] : k \in 0..MaxChain}
ModeBytes(n) == UNION {[1..k -> {0, 1}] : k \in 0..n}
TableFiles ==
    [dir : {"missing", "no_table_file"}]
    \cup
    UNION {[dir : {"table"}, head : Heads, noAttr : {n}, modes : ModeBytes(n),
            nuls : 0..2, chain : Chains, slack : Slacks] : n \in AttrCounts}

\* The byte length of the block data left[2].
DataLen(t) == Ends(t.chain)[Len(t.chain)] + t.slack

\* The slice data[6:blk_len] that parse_blocks stores, as the pair of
\* offsets it spans in the block data.
Payload(t, blkLen) ==
    LET n == DataLen(t)
        s == IF BLK_HDR < n THEN BLK_HDR ELSE n
        e == SliceEnd(blkLen, n)
    IN  <<s, IF e < s THEN s ELSE e>>

VARIABLES
    tbl,          \* the table directory and Table.ctb
    pc,           \* where the reader is
    noAttr,       \* self.no_attr
    attrMode,     \* self.attr_mode
    blocks,       \* self.blocks: <<blk_len, payload>> per entry
    length,       \* the local length of parse_blocks
    mysqlTabNum   \* self.mysql_tab_num

vars == <<tbl, pc, noAttr, attrMode, blocks, length, mysqlTabNum>>

Init ==
    /\ tbl \in TableFiles
    /\ pc = "chdir"
    /\ noAttr = 0
    /\ attrMode = <<>>
    /\ blocks = <<>>
    /\ length = 0
    /\ mysqlTabNum = -1

\* os.chdir(path) and the listing: OSError on a missing directory, a
\* clean exit when Table.ctb is absent.
Chdir ==
    /\ pc = "chdir"
    /\ pc' = CASE tbl.dir = "missing"       -> "crash"
               [] tbl.dir = "no_table_file" -> "exit"
               [] OTHER                     -> "header"
    /\ UNCHANGED <<tbl, noAttr, attrMode, blocks, length, mysqlTabNum>>

\* The identifier and format checks (clean exits), then the reserved
\* fields and no_attr and block_offset, whose struct.unpack raises on a
\* file that ends inside them.
ReadHeader ==
    /\ pc = "header"
    /\ pc' = CASE tbl.head \in {"bad_ident", "bad_format"} -> "exit"
               [] tbl.head = "short"                      -> "crash"
               [] OTHER                                   -> "modes"
    /\ noAttr' = IF tbl.head = "ok" THEN tbl.noAttr ELSE noAttr
    /\ UNCHANGED <<tbl, attrMode, blocks, length, mysqlTabNum>>

\* Mutant of ReadModes: one mode byte fewer than no_attr is read.
ReadModesShort ==
    /\ pc = "modes"
    /\ IF noAttr < 0 \/ noAttr > Len(tbl.modes)
         THEN /\ pc' = "crash"
              /\ UNCHANGED attrMode
         ELSE /\ pc' = "split"
              /\ attrMode' = [i \in 1..(noAttr - 1) |-> tbl.modes[i]]
    /\ UNCHANGED <<tbl, noAttr, blocks, length, mysqlTabNum>>

\* f.read(no_attr) and struct.unpack('=<no_attr>b'): a negative count reads
\* the rest of the file and makes a bad format string, a count beyond the
\* mode bytes present meets the end of the file; both raise.
ReadModes ==
    /\ pc = "modes"
    /\ IF noAttr < 0 \/ noAttr > Len(tbl.modes)
         THEN /\ pc' = "crash"
              /\ UNCHANGED attrMode
         ELSE /\ pc' = "split"
              /\ attrMode' = [i \in 1..noAttr |-> tbl.modes[i]]
    /\ UNCHANGED <<tbl, noAttr, blocks, length, mysqlTabNum>>

\* string.split(rest, '\0', 2): without two NULs left[2] raises IndexError;
\* otherwise parse_blocks starts on the block data.
Split ==
    /\ pc = "split"
    /\ IF tbl.nuls < 2
         THEN /\ pc' = "crash"
              /\ UNCHANGED length
         ELSE /\ pc' = "blocks"
              /\ length' = DataLen(tbl)
    /\ UNCHANGED <<tbl, noAttr, attrMode, blocks, mysqlTabNum>>

\* The blk_len at the head of the block data, as struct.unpack reads it.
FirstBlkLen(t) == t.chain[1].len

\* One turn of "while length > 0": unpack the header at data[0:6] (the data
\* is never advanced), store the entry, subtract blk_len.  Fewer than six
\* bytes of data make struct.unpack raise.
BlockStep ==
    /\ pc = "blocks"
    /\ length > 0
    /\ Len(blocks) < MaxBlocks
    /\ IF DataLen(tbl) < BLK_HDR
         THEN /\ pc' = "crash"
              /\ UNCHANGED <<blocks, length>>
         ELSE /\ blocks' = Append(blocks, <<FirstBlkLen(tbl), Payload(tbl, FirstBlkLen(tbl))>>)
              /\ length' = length - FirstBlkLen(tbl)
              /\ UNCHANGED pc
    /\ UNCHANGED <<tbl, noAttr, attrMode, mysqlTabNum>>

\* Mutant of ReadTabNum: the number is taken from the entry's blk_len
\* instead of its payload.
ReadTabNumFromHeader ==
    /\ pc = "blocks"
    /\ length <= 0
    /\ IF blocks = <<>> \/ blocks[1][2][2] - blocks[1][2][1] # 4
         THEN /\ pc' = "crash"
              /\ UNCHANGED mysqlTabNum
         ELSE /\ pc' = "done"
              /\ mysqlTabNum' = blocks[1][1]
    /\ UNCHANGED <<tbl, noAttr, attrMode, blocks, length>>

\* Mutant of ReadTabNum: the payload is cut to four bytes, unchecked.
ReadTabNumUnchecked ==
    /\ pc = "blocks"
    /\ length <= 0
    /\ IF blocks = <<>> \/ blocks[1][2][2] - blocks[1][2][1] < 4
         THEN /\ pc' = "crash"
              /\ UNCHANGED mysqlTabNum
         ELSE /\ pc' = "done"
              /\ mysqlTabNum' = tbl.chain[1].val
    /\ UNCHANGED <<tbl, noAttr, attrMode, blocks, length>>

\* The loop ends; the first block's payload is unpacked as one signed
\* 32-bit integer: IndexError with no block, struct.error unless the
\* payload is exactly four bytes.
ReadTabNum ==
    /\ pc = "blocks"
    /\ length <= 0
    /\ IF blocks = <<>> \/ blocks[1][2][2] - blocks[1][2][1] # 4
         THEN /\ pc' = "crash"
              /\ UNCHANGED mysqlTabNum
         ELSE /\ pc' = "done"
              /\ mysqlTabNum' = tbl.chain[1].val
    /\ UNCHANGED <<tbl, noAttr, attrMode, blocks, length>>

Reader == Chdir \/ ReadHeader \/ ReadModes \/ Split \/ BlockStep \/ ReadTabNum

Next == Reader

\* One synchronous process: its steps are weakly fair.
Spec == Init /\ [][Next]_vars /\ WF_vars(Reader)

(***************************************************************************)
(* Properties.                                                             *)
(***************************************************************************)

Terminated == pc \in {"done", "exit", "crash"}

\* Type invariant.
TypeOK ==
    /\ tbl \in TableFiles
    /\ pc \in {"chdir", "header", "modes", "split", "blocks", "done", "exit", "crash"}
    /\ noAttr \in Int
    /\ attrMode \in Seq({0, 1})
    /\ blocks \in Seq(BlkLens \X (Nat \X Nat))
    /\ length \in Int
    /\ mysqlTabNum \in TabNums \cup {-1}

\* Once the mode bytes are read, attr_mode holds exactly no_attr flags, the
\* ones the file stores after the header (spec.md section 8: the count read
\* back equals the number of flag bytes consumed).
AttrModeMatchesFile ==
    pc \in {"split", "blocks", "done"} =>
        /\ noAttr = tbl.noAttr
        /\ Len(attrMode) = noAttr
        /\ attrMode = tbl.modes

\* The tool reports a MySQL table number only when the block data starts
\* with the 10-byte table-number block, and the number is that block's
\* payload, whatever follows it in the chain.
MysqlTabNumDecoded ==
    pc = "done" =>
        /\ tbl.chain # <<>>
        /\ tbl.chain[1].len = 10
        /\ mysqlTabNum = tbl.chain[1].val

(***************************************************************************)
(* What spec.md says of the reader, checked against parse_blocks.          *)
(***************************************************************************)

\* The entries the block chain must decode to: each block's length and the
\* span of its own payload.
Verbatim(t) ==
    [i \in 1..Len(t.chain) |->
        <<t.chain[i].len,
          <<Ends(t.chain)[i - 1] + BLK_HDR, Ends(t.chain)[i - 1] + t.chain[i].len>>>>]

\* spec.md section 3: the special blocks are an ordered sequence, later
\* blocks preserved verbatim, and their lengths consume the data exactly.
BlocksVerbatim ==
    pc = "done" => blocks = Verbatim(tbl)

\* spec.md section 5: decoding a table's files is bounded: the reader ends.
Termination == <>Terminated

=============================================================================
