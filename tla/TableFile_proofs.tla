-------------------------- MODULE TableFile_proofs --------------------------
(***************************************************************************)
(* Proofs about the table-descriptor reader (TableFile), for every set of  *)
(* attribute counts, heads and block chains.                               *)
(***************************************************************************)
EXTENDS TableFile, SequenceTheorems, WellFoundedInduction, TLAPS

(***************************************************************************)
(* AttrModeMatchesFile is not inductive as it stands: ReadModes copies the *)
(* mode bytes of the file only because ReadHeader stored the file's count  *)
(* in no_attr, and only a file found by Chdir has a count at all.          *)
(***************************************************************************)
TInv ==
    /\ tbl \in TableFiles
    /\ pc \in {"chdir", "header", "modes", "split", "blocks", "done", "exit", "crash"}
    /\ noAttr \in Int
    /\ pc \in {"header", "modes", "split", "blocks", "done"} => tbl.dir = "table"
    /\ pc \in {"modes", "split", "blocks", "done"} => noAttr = tbl.noAttr
    /\ pc \in {"split", "blocks", "done"} =>
          /\ attrMode = tbl.modes
          /\ Len(attrMode) = noAttr
          /\ noAttr \in Nat

(***************************************************************************)
(* TypeOK and MysqlTabNumDecoded are not inductive either.  parse_blocks  *)
(* never advances data, so every entry it stores is the first block's     *)
(* header and payload, and after k turns length is the data length less  *)
(* k times the first blk_len; a block is stored only when the data holds  *)
(* a full header.  Before the loop nothing is stored.  When the reader is *)
(* done, the first payload was four bytes and length is not positive.     *)
(***************************************************************************)
Entry(t) == <<FirstBlkLen(t), Payload(t, FirstBlkLen(t))>>

BInv ==
    /\ attrMode \in Seq({0, 1})
    /\ pc \in {"chdir", "header", "modes", "split"} =>
          blocks = <<>> /\ length = 0 /\ mysqlTabNum = -1
    /\ pc \in {"blocks", "done"} =>
          /\ tbl.nuls >= 2
          /\ \A i \in 1..Len(blocks) : blocks[i] = Entry(tbl)
          /\ blocks # <<>> => DataLen(tbl) >= BLK_HDR
          /\ length = IF blocks = <<>> THEN DataLen(tbl)
                      ELSE DataLen(tbl) - Len(blocks) * FirstBlkLen(tbl)
    /\ pc = "blocks" => mysqlTabNum = -1
    /\ pc = "done" =>
          /\ blocks # <<>>
          /\ blocks[1][2][2] - blocks[1][2][1] = 4
          /\ length <= 0
          /\ mysqlTabNum = tbl.chain[1].val
    /\ blocks \in Seq(BlkLens \X (Nat \X Nat))
    /\ length \in Int
    /\ mysqlTabNum \in TabNums \cup {-1}

\* The fields of a Table.ctb that is there.
LEMMA TableFields ==
    ASSUME NEW t \in TableFiles, t.dir = "table"
    PROVE  /\ t.head \in Heads
           /\ t.noAttr \in AttrCounts
           /\ \E k \in 0..t.noAttr : t.modes \in [1..k -> {0, 1}]
           /\ t.nuls \in 0..2
<1>1. PICK n \in AttrCounts :
         t \in [dir : {"table"}, head : Heads, noAttr : {n}, modes : ModeBytes(n),
                nuls : 0..2, chain : Chains, slack : Slacks]
    BY DEF TableFiles
<1>. QED  BY <1>1 DEF ModeBytes

\* Reading exactly as many mode bytes as the file holds yields them all.
LEMMA ModesRead ==
    ASSUME NEW n \in Int, NEW k \in 0..n, NEW m \in [1..k -> {0, 1}],
           0 <= n, n <= Len(m)
    PROVE  /\ [i \in 1..n |-> m[i]] = m
           /\ Len(m) = n
<1>1. m \in Seq({0, 1}) /\ Len(m) = k
    OBVIOUS
<1>2. n = k
    BY <1>1
<1>. QED  BY <1>1, <1>2

\* The directory is missing, holds no Table.ctb, or holds one.
LEMMA TableDirs ==
    ASSUME NEW t \in TableFiles
    PROVE  t.dir \in {"missing", "no_table_file", "table"}
<1>1. t \in [dir : {"missing", "no_table_file"}]
      \/ \E n \in AttrCounts :
            t \in [dir : {"table"}, head : Heads, noAttr : {n}, modes : ModeBytes(n),
                   nuls : 0..2, chain : Chains, slack : Slacks]
    BY DEF TableFiles
<1>. QED  BY <1>1

\* The offsets function of Ends, out of its LET.
EndsFcn(c) ==
    CHOOSE e : e = [i \in 0..Len(c) |-> IF i = 0 THEN 0 ELSE e[i - 1] + BlockSize(c[i])]

\* The least natural number of a non-empty set of them.
LEMMA LeastNat ==
    ASSUME NEW T \in SUBSET Nat, T # {}
    PROVE  \E x \in T : \A y \in T : ~(y < x)
<1>1. \E x \in T : \A y \in T : ~(<<y, x>> \in OpToRel(<, Nat))
    BY NatLessThanWellFounded, WFMin
<1>. QED  BY <1>1 DEF OpToRel

\* The end offsets start at 0 and grow by the size of each block; from
\* the first block on, they are at least the size of the first block.
LEMMA EndsFacts ==
    ASSUME NEW c, Len(c) \in Nat, \A i \in 1..Len(c) : c[i].len \in Int
    PROVE  /\ Ends(c)[0] = 0
           /\ \A i \in 1..Len(c) : Ends(c)[i] = Ends(c)[i - 1] + BlockSize(c[i])
           /\ \A i \in 0..Len(c) : /\ Ends(c)[i] \in Nat
                                   /\ i >= 1 => Ends(c)[i] >= BlockSize(c[1])
<1> DEFINE e == EndsFcn(c)
<1>1. e = [i \in 0..Len(c) |-> IF i = 0 THEN 0 ELSE e[i - 1] + BlockSize(c[i])]
    <2> DEFINE Def(v, i) == v + BlockSize(c[i])
    <2>1. FiniteNatInductiveDefHypothesis(e, 0, Def, 0, Len(c))
        BY DEF FiniteNatInductiveDefHypothesis, EndsFcn
    <2>2. FiniteNatInductiveDefConclusion(e, 0, Def, 0, Len(c))
        BY <2>1, FiniteNatInductiveDef
    <2>. QED  BY <2>2 DEF FiniteNatInductiveDefConclusion
<1>2. Ends(c) = e
    BY DEF Ends, EndsFcn
<1>3. \A i \in 1..Len(c) : BlockSize(c[i]) \in Nat /\ BlockSize(c[i]) >= BLK_HDR
    BY DEF BlockSize, BLK_HDR
<1> DEFINE P(i) == /\ e[i] \in Nat
                   /\ i >= 1 => e[i] >= BlockSize(c[1])
           T == {i \in 0..Len(c) : ~P(i)}
<1>4. \A i \in 0..Len(c) : P(i)
    <2> SUFFICES ASSUME T # {} PROVE FALSE
        OBVIOUS
    <2>0. T \in SUBSET Nat /\ T # {}
        OBVIOUS
    <2>1. PICK x \in T : \A y \in T : ~(y < x)
        BY <2>0, LeastNat
    <2>2. x # 0
        BY <1>1, <2>1
    <2>3. P(x - 1) /\ x \in 1..Len(c)
        BY <2>1, <2>2
    <2>4. e[x] = e[x - 1] + BlockSize(c[x])
        BY <1>1, <2>3
    <2>5. ~P(x)
        BY <2>1
    <2>6. BlockSize(c[x]) \in Nat
        BY <1>3, <2>3
    <2>7. CASE x = 1
        <3>1. e[x - 1] = 0
            BY <1>1, <2>7
        <3>2. P(x)
            BY <2>3, <2>4, <2>6, <2>7, <3>1
        <3>. QED  BY <3>2, <2>5
    <2>8. CASE x > 1
        <3>1. e[x - 1] \in Nat /\ e[x - 1] >= BlockSize(c[1])
            BY <2>3, <2>8
        <3>2. BlockSize(c[1]) \in Nat
            BY <1>3, <2>3, <2>8
        <3>3. e[x] \in Nat /\ e[x] >= BlockSize(c[1])
            BY <2>4, <2>6, <3>1, <3>2
        <3>4. P(x)
            BY <2>8, <3>3
        <3>. QED  BY <3>4, <2>5
    <2>. QED  BY <2>3, <2>7, <2>8
<1>. QED  BY <1>1, <1>2, <1>4

\* The block data of a Table.ctb: its length, and that it holds at least
\* the first block when the chain has one, and less than a header when not.
LEMMA DataLenFacts ==
    ASSUME NEW t \in TableFiles, t.dir = "table"
    PROVE  /\ DataLen(t) \in Nat
           /\ t.chain = <<>> => DataLen(t) < BLK_HDR
           /\ t.chain # <<>> => /\ DataLen(t) >= BlockSize(t.chain[1])
                                /\ t.chain[1].len \in BlkLens
                                /\ t.chain[1].val \in TabNums
<1>1. t.chain \in Chains /\ t.slack \in Slacks
    <2>1. PICK n \in AttrCounts :
             t \in [dir : {"table"}, head : Heads, noAttr : {n}, modes : ModeBytes(n),
                    nuls : 0..2, chain : Chains, slack : Slacks]
        BY DEF TableFiles
    <2>. QED  BY <2>1
<1>2. PICK k \in 0..MaxChain : t.chain \in [1..k -> [len : BlkLens, val : TabNums]]
    BY <1>1 DEF Chains
<1> DEFINE c == t.chain
<1>3. Len(c) = k /\ c \in Seq([len : BlkLens, val : TabNums])
    <2>1. k \in Nat
        BY MaxChainAssumption
    <2>2. c \in Seq([len : BlkLens, val : TabNums])
        <3>1. t.chain \in UNION {[1..n -> [len : BlkLens, val : TabNums]] : n \in Nat}
            BY <1>2, <2>1
        <3>. QED  BY <3>1, SeqDef
    <2>3. DOMAIN c = 1..k
        BY <1>2
    <2>. QED  BY <2>1, <2>2, <2>3, LenProperties
<1>4. \A i \in 1..Len(c) : c[i].len \in Int
    BY <1>2, <1>3, BlkLensAssumption
<1>5. /\ Ends(c)[0] = 0
      /\ \A i \in 0..Len(c) : /\ Ends(c)[i] \in Nat
                              /\ i >= 1 => Ends(c)[i] >= BlockSize(c[1])
    BY <1>3, <1>4, EndsFacts
<1>6. t.slack \in 0..(BLK_HDR - 1)
    BY <1>1, SlacksAssumption
<1>7. DataLen(t) = Ends(c)[Len(c)] + t.slack
    BY DEF DataLen
<1>8. CASE c = <<>>
    <2>1. Len(c) = 0
        BY <1>3, <1>8
    <2>. QED  BY <1>5, <1>6, <1>7, <1>8, <2>1 DEF BLK_HDR
<1>9. CASE c # <<>>
    <2>1. Len(c) \in 1..MaxChain /\ 1 \in 1..Len(c)
        BY <1>2, <1>3, <1>9
    <2>2. c[1] \in [len : BlkLens, val : TabNums]
        BY <1>2, <2>1
    <2>3. Ends(c)[Len(c)] \in Nat /\ Ends(c)[Len(c)] >= BlockSize(c[1])
        BY <1>5, <2>1
    <2>4. BlockSize(c[1]) \in Int
        <3>1. c[1].len \in Int
            BY <2>2, BlkLensAssumption
        <3>. QED  BY <3>1 DEF BlockSize, BLK_HDR
    <2>. QED  BY <1>6, <1>7, <1>9, <2>2, <2>3, <2>4 DEF BLK_HDR
<1>. QED  BY <1>8, <1>9

\* What parse_blocks stores as the payload of a block of declared length
\* L when the data holds a full header: a pair of offsets that starts at 6,
\* and that spans four bytes for a positive L inside the data only if L
\* is 10.
LEMMA PayloadFacts ==
    ASSUME NEW t, DataLen(t) \in Nat, DataLen(t) >= BLK_HDR, NEW L \in Int
    PROVE  /\ Payload(t, L) \in Nat \X Nat
           /\ Payload(t, L)[1] = BLK_HDR
           /\ (/\ Payload(t, L)[2] - Payload(t, L)[1] = 4
               /\ L > 0 /\ L <= DataLen(t)) => L = 10
<1> DEFINE n == DataLen(t)
<1>1. SliceEnd(L, n) \in 0..n
    BY DEF SliceEnd
<1>2. L > 0 /\ L <= n => SliceEnd(L, n) = L
    BY DEF SliceEnd
<1>. QED  BY <1>1, <1>2 DEF Payload, BLK_HDR

LEMMA TInvInit == Init => TInv
BY DEF Init, TInv

LEMMA TInvStep == TInv /\ [Next]_vars => TInv'
<1> SUFFICES ASSUME TInv, [Next]_vars PROVE TInv'
    OBVIOUS
<1>1. CASE Chdir
    <2>1. tbl.dir \in {"missing", "no_table_file", "table"}
        BY TableDirs DEF TInv
    <2>. QED  BY <1>1, <2>1 DEF TInv, Chdir
<1>2. CASE ReadHeader
    <2>1. tbl.dir = "table"
        BY <1>2 DEF TInv, ReadHeader
    <2>2. tbl.head \in Heads /\ tbl.noAttr \in AttrCounts
        BY <2>1, TableFields DEF TInv
    <2>3. pc' = "modes" => tbl.head = "ok"
        BY <1>2, <2>2, HeadsAssumption DEF ReadHeader
    <2>. QED  BY <1>2, <2>1, <2>2, <2>3, AttrCountsAssumption DEF TInv, ReadHeader
<1>3. CASE ReadModes
    <2>1. tbl.dir = "table" /\ noAttr = tbl.noAttr
        BY <1>3 DEF TInv, ReadModes
    <2>2. PICK k \in 0..tbl.noAttr : tbl.modes \in [1..k -> {0, 1}]
        BY <2>1, TableFields DEF TInv
    <2>3. CASE noAttr < 0 \/ noAttr > Len(tbl.modes)
        BY <1>3, <2>3 DEF TInv, ReadModes
    <2>4. CASE ~(noAttr < 0 \/ noAttr > Len(tbl.modes))
        <3>1. attrMode' = [i \in 1..noAttr |-> tbl.modes[i]] /\ pc' = "split"
            BY <1>3, <2>4 DEF ReadModes
        <3>2. attrMode' = tbl.modes /\ Len(tbl.modes) = noAttr
            BY <2>1, <2>2, <2>4, <3>1, ModesRead DEF TInv
        <3>. QED  BY <1>3, <2>1, <3>1, <3>2 DEF TInv, ReadModes
    <2>. QED  BY <2>3, <2>4
<1>4. CASE Split
    BY <1>4 DEF TInv, Split
<1>5. CASE BlockStep
    BY <1>5 DEF TInv, BlockStep
<1>6. CASE ReadTabNum
    BY <1>6 DEF TInv, ReadTabNum
<1>7. CASE UNCHANGED vars
    BY <1>7 DEF TInv, vars
<1>. QED  BY <1>1, <1>2, <1>3, <1>4, <1>5, <1>6, <1>7 DEF Next, Reader

LEMMA BInvInit == Init => BInv
<1> SUFFICES ASSUME Init PROVE BInv
    OBVIOUS
<1>1. <<>> \in Seq({0, 1}) /\ <<>> \in Seq(BlkLens \X (Nat \X Nat))
    OBVIOUS
<1>. QED  BY <1>1 DEF Init, BInv

LEMMA BInvStep == TInv /\ TInv' /\ BInv /\ [Next]_vars => BInv'
<1> SUFFICES ASSUME TInv, TInv', BInv, [Next]_vars PROVE BInv'
    OBVIOUS
<1>1. CASE Chdir
    BY <1>1 DEF BInv, Chdir
<1>2. CASE ReadHeader
    BY <1>2 DEF BInv, ReadHeader
<1>3. CASE ReadModes
    <2>1. pc' = "split" => attrMode' \in Seq({0, 1})
        <3>1. tbl.dir = "table"
            BY <1>3 DEF TInv, ReadModes
        <3>2. PICK k \in 0..tbl.noAttr : tbl.modes \in [1..k -> {0, 1}]
            BY <3>1, TableFields DEF TInv
        <3>3. k \in Nat
            BY <3>1, TableFields, AttrCountsAssumption DEF TInv
        <3>4. tbl.modes \in Seq({0, 1})
            BY <3>2, <3>3, SeqDef
        <3>. QED  BY <1>3, <3>4 DEF TInv, ReadModes
    <2>. QED  BY <1>3, <2>1 DEF BInv, ReadModes
<1>4. CASE Split
    <2>1. tbl.dir = "table"
        BY <1>4 DEF TInv, Split
    <2>2. DataLen(tbl) \in Nat
        BY <2>1, DataLenFacts DEF TInv
    <2>3. CASE tbl.nuls < 2
        BY <1>4, <2>3 DEF BInv, Split
    <2>4. CASE ~(tbl.nuls < 2)
        <3>1. pc = "split" /\ pc' = "blocks" /\ length' = DataLen(tbl)
              /\ UNCHANGED <<tbl, attrMode, blocks, mysqlTabNum>>
            BY <1>4, <2>4 DEF Split
        <3>2. tbl.nuls >= 2
            BY <2>1, <2>4, TableFields DEF TInv
        <3>. QED  BY <2>2, <3>1, <3>2 DEF BInv
    <2>. QED  BY <2>3, <2>4
<1>5. CASE BlockStep
    <2>1. pc = "blocks" /\ tbl.dir = "table"
        BY <1>5 DEF TInv, BlockStep
    <2>2. CASE DataLen(tbl) < BLK_HDR
        BY <1>5, <2>2 DEF BInv, BlockStep
    <2>3. CASE ~(DataLen(tbl) < BLK_HDR)
        <3> DEFINE L == FirstBlkLen(tbl)
        <3>1. /\ blocks' = Append(blocks, Entry(tbl))
              /\ length' = length - L
              /\ UNCHANGED <<tbl, pc, attrMode, mysqlTabNum>>
            BY <1>5, <2>3 DEF BlockStep, Entry
        <3>2. /\ DataLen(tbl) \in Nat
              /\ tbl.chain # <<>>
              /\ L \in BlkLens
            BY <2>1, <2>3, DataLenFacts DEF TInv, FirstBlkLen
        <3>3. L \in Int
            BY <3>2, BlkLensAssumption
        <3>4. Entry(tbl) \in BlkLens \X (Nat \X Nat)
            <4>0. DataLen(tbl) \in Nat /\ DataLen(tbl) >= BLK_HDR
                BY <3>2, <2>3 DEF BLK_HDR
            <4>1. Payload(tbl, L) \in Nat \X Nat
                BY <3>3, <4>0, PayloadFacts
            <4>. QED  BY <3>2, <4>1 DEF Entry
        <3>5. /\ blocks \in Seq(BlkLens \X (Nat \X Nat))
              /\ \A i \in 1..Len(blocks) : blocks[i] = Entry(tbl)
              /\ length = IF blocks = <<>> THEN DataLen(tbl)
                          ELSE DataLen(tbl) - Len(blocks) * L
              /\ mysqlTabNum \in TabNums \cup {-1}
              /\ mysqlTabNum = -1
              /\ tbl.nuls >= 2
              /\ attrMode \in Seq({0, 1})
            BY <2>1 DEF BInv
        <3>6. /\ blocks' \in Seq(BlkLens \X (Nat \X Nat))
              /\ Len(blocks') = Len(blocks) + 1
              /\ \A i \in 1..Len(blocks') : blocks'[i] = Entry(tbl)
              /\ blocks' # <<>>
            BY <3>1, <3>4, <3>5, AppendProperties
        <3>7. /\ length' = DataLen(tbl) - Len(blocks') * L
              /\ length' \in Int
            <4>1. Len(blocks) \in Nat
                BY <3>5, LenProperties
            <4>2. CASE blocks = <<>>
                <5>1. Len(blocks) = 0
                    BY <4>2
                <5>. QED  BY <3>1, <3>2, <3>3, <3>5, <3>6, <4>2, <5>1
            <4>3. CASE blocks # <<>>
                <5>1. (Len(blocks) + 1) * L = Len(blocks) * L + L
                    BY <3>3, <4>1
                <5>2. length = DataLen(tbl) - Len(blocks) * L
                    BY <3>5, <4>3
                <5>. QED  BY <3>1, <3>2, <3>3, <3>6, <4>1, <5>1, <5>2
            <4>. QED  BY <4>2, <4>3
        <3>8. pc' = "blocks"
            BY <2>1, <3>1
        <3>9. DataLen(tbl') >= BLK_HDR /\ Entry(tbl') = Entry(tbl) /\ tbl'.nuls >= 2
            BY <2>3, <3>1, <3>2, <3>5 DEF BLK_HDR
        <3>. QED  BY <3>1, <3>5, <3>6, <3>7, <3>8, <3>9 DEF BInv
    <2>. QED  BY <2>2, <2>3
<1>6. CASE ReadTabNum
    <2>1. pc = "blocks" /\ tbl.dir = "table"
        BY <1>6 DEF TInv, ReadTabNum
    <2>2. CASE blocks = <<>> \/ blocks[1][2][2] - blocks[1][2][1] # 4
        BY <1>6, <2>2 DEF BInv, ReadTabNum
    <2>3. CASE ~(blocks = <<>> \/ blocks[1][2][2] - blocks[1][2][1] # 4)
        <3>1. pc' = "done" /\ mysqlTabNum' = tbl.chain[1].val
              /\ UNCHANGED <<tbl, attrMode, blocks, length>> /\ length <= 0
            BY <1>6, <2>3 DEF ReadTabNum
        <3>2. DataLen(tbl) >= BLK_HDR
            BY <2>1, <2>3 DEF BInv
        <3>3. tbl.chain # <<>> /\ tbl.chain[1].val \in TabNums
            BY <2>1, <3>2, DataLenFacts DEF TInv, BLK_HDR
        <3>. QED  BY <2>1, <2>3, <3>1, <3>3 DEF BInv
    <2>. QED  BY <2>2, <2>3
<1>7. CASE UNCHANGED vars
    BY <1>7 DEF BInv, vars
<1>. QED  BY <1>1, <1>2, <1>3, <1>4, <1>5, <1>6, <1>7 DEF Next, Reader

\* TInv holds in every state of StoneTable's constructor and parse_blocks.
THEOREM TableInvariant == Spec => []TInv
<1>1. Init => TInv
    BY TInvInit
<1>2. TInv /\ [Next]_vars => TInv'
    BY TInvStep
<1>. QED  BY <1>1, <1>2, PTL DEF Spec

\* For every attribute count and every Table.ctb, once the mode bytes are
\* read (struct.unpack('=<no_attr>b')), attr_mode holds exactly no_attr
\* flags, and they are the ones the file stores after the header.
THEOREM AttrModeCorrect == Spec => []AttrModeMatchesFile
<1>1. TInv => AttrModeMatchesFile
    BY DEF TInv, AttrModeMatchesFile
<1>. QED  BY <1>1, TableInvariant, PTL


\* The type invariant follows from the two inductive invariants.
LEMMA TypeFromInv == TInv /\ BInv => TypeOK
BY DEF TInv, BInv, TypeOK

\* When the reader is done, the first block is the 10-byte table-number
\* block: parse_blocks stored k >= 1 copies of its header, so length is
\* the data length less k times its blk_len, not positive, and blk_len is
\* positive and within the data; its payload spanned four bytes.
LEMMA TabNumFromInv == TInv /\ BInv => MysqlTabNumDecoded
<1> SUFFICES ASSUME TInv, BInv, pc = "done" PROVE MysqlTabNumDecoded
    BY DEF MysqlTabNumDecoded
<1> DEFINE L == FirstBlkLen(tbl)
           n == Len(blocks)
<1>1. /\ tbl \in TableFiles /\ tbl.dir = "table"
      /\ blocks # <<>> /\ blocks \in Seq(BlkLens \X (Nat \X Nat))
      /\ blocks[1][2][2] - blocks[1][2][1] = 4
      /\ length <= 0 /\ length = DataLen(tbl) - n * L
      /\ DataLen(tbl) >= BLK_HDR
      /\ mysqlTabNum = tbl.chain[1].val
    BY DEF TInv, BInv, FirstBlkLen
<1>2. blocks[1] = Entry(tbl)
    <2>1. n \in Nat /\ n >= 1
        BY <1>1, LenProperties, EmptySeq
    <2>. QED  BY <2>1 DEF BInv
<1>3. /\ DataLen(tbl) \in Nat
      /\ tbl.chain # <<>>
      /\ DataLen(tbl) >= BlockSize(tbl.chain[1])
      /\ L \in BlkLens
    BY <1>1, DataLenFacts DEF FirstBlkLen, BLK_HDR
<1>4. L \in Int /\ n \in Nat /\ n >= 1
    <2>1. L \in Int
        BY <1>3, BlkLensAssumption
    <2>2. n \in Nat /\ n >= 1
        BY <1>1, LenProperties, EmptySeq
    <2>. QED  BY <2>1, <2>2
<1>5. L > 0
    <2> SUFFICES ASSUME L <= 0 PROVE FALSE
        BY <1>4
    <2>1. n * L <= 0
        BY <1>4
    <2>. QED  BY <1>1, <1>3, <1>4, <2>1 DEF BLK_HDR
<1>6. L <= DataLen(tbl)
    BY <1>3, <1>4 DEF BlockSize, FirstBlkLen, BLK_HDR
<1>7. Payload(tbl, L)[2] - Payload(tbl, L)[1] = 4
    BY <1>1, <1>2 DEF Entry
<1>8. L = 10
    BY <1>1, <1>3, <1>4, <1>5, <1>6, <1>7, PayloadFacts
<1>. QED  BY <1>1, <1>3, <1>8 DEF MysqlTabNumDecoded, FirstBlkLen

\* TInv and BInv hold together in every state of the reader.
THEOREM BlocksInvariant == Spec => [](TInv /\ BInv)
<1>1. Init => TInv /\ BInv
    BY TInvInit, BInvInit
<1>2. TInv /\ BInv /\ [Next]_vars => TInv' /\ BInv'
    BY TInvStep, BInvStep
<1>. QED  BY <1>1, <1>2, PTL DEF Spec

\* For every table file, the reader's variables keep their types: the
\* entries parse_blocks stores are a block length and a span of offsets,
\* and mysql_tab_num is -1 or a table number of the file.
THEOREM TableTypeCorrect == Spec => []TypeOK
BY BlocksInvariant, TypeFromInv, PTL

\* For every table file, StoneTable reports a MySQL table number only when
\* the block data starts with a 10-byte block, and the number is that
\* block's payload, whatever blocks follow it in the chain.
THEOREM TabNumCorrect == Spec => []MysqlTabNumDecoded
BY BlocksInvariant, TabNumFromInv, PTL

=============================================================================
