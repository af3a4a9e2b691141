-------------------------- MODULE DPNIndex_proofs --------------------------
(***************************************************************************)
(* Proofs about the data-pack index reader (DPNIndex), for every bound on  *)
(* the file and every set of pack-file numbers.                            *)
(***************************************************************************)
EXTENDS DPNIndex, SequenceTheorems, TLAPS

DPRec == [no : Nat, file_no : FileNos, has_file : BOOLEAN]

(***************************************************************************)
(* Type correctness.  TypeOK alone is not inductive: Open numbers the      *)
(* reserved records no_dpns - 2, which is a natural number only because    *)
(* GetSize let the reader on with at least two records; and Finish        *)
(* appends last_pack_a, which is a record because Open set it.             *)
(***************************************************************************)
TypeInv ==
    /\ TypeOK
    /\ pc = "open" => noDpns >= 2
    /\ pc \in {"loop", "done"} => lastPackA \in DPRec

\* The files Init may start from are sequences of pack-file numbers.
LEMMA FilesAreSeqs == Files \subseteq Seq(FileNos)
BY SeqDef DEF Files

\* A decoded record has the type of a pack.
LEMMA DPType ==
    ASSUME NEW f \in FileNos, NEW n \in Nat
    PROVE  DP(f, n) \in DPRec
BY DEF DP, DPRec

LEMMA TypeInvInit == Init => TypeInv
BY FilesAreSeqs, EmptySeq, TailLensAssumption
   DEF Init, TypeInv, TypeOK

LEMMA TypeInvStep == TypeInv /\ [Next]_vars => TypeInv'
<1> SUFFICES ASSUME TypeInv, [Next]_vars PROVE TypeInv'
    OBVIOUS
<1> USE DEF TypeInv, TypeOK
<1>1. CASE GetSize
    BY <1>1, FileNosAssumption DEF GetSize, FileSize, DPN_PACK_SIZE
<1>2. CASE Open
    <2>1. Len(dpnFile) >= 2 /\ noDpns - 2 \in Nat
        BY <1>2 DEF Open, Chunk
    <2>2. dpnFile[1] \in FileNos /\ dpnFile[2] \in FileNos
        BY <2>1, ElementOfSeq
    <2>3. lastPackA' \in DPRec /\ lastPackB' \in DPRec
        BY <1>2, <2>1, <2>2, DPType DEF Open
    <2>4. QED
        BY <1>2, <2>3 DEF Open, DPRec
<1>3. CASE ReadPack
    <2>1. pos \in 1..Len(dpnFile)
        BY <1>3 DEF ReadPack, Chunk
    <2>2. DP(dpnFile[pos], dpNo) \in DPRec
        BY <2>1, ElementOfSeq, DPType
    <2>3. QED
        BY <1>3, <2>2, AppendProperties DEF ReadPack, DPRec
<1>4. CASE ReadFragment
    BY <1>4 DEF ReadFragment
<1>5. CASE Finish
    <2>1. packs' \in Seq(DPRec)
        BY <1>5, AppendProperties DEF Finish, DPRec
    <2>2. QED
        BY <1>5, <2>1 DEF Finish, DPRec
<1>6. CASE WriterBegin
    BY <1>6, TailLensAssumption DEF WriterBegin, readerVars
<1>7. CASE WriterEnd
    <2>1. PICK f \in FileNos : dpnFile' = Append(dpnFile, f)
        BY <1>7 DEF WriterEnd
    <2>2. dpnFile' \in Seq(FileNos)
        BY <2>1, AppendProperties
    <2>3. QED
        BY <1>7, <2>2 DEF WriterEnd, readerVars, DPN_PACK_SIZE
<1>8. CASE UNCHANGED vars
    BY <1>8 DEF vars
<1>9. QED
    BY <1>1, <1>2, <1>3, <1>4, <1>5, <1>6, <1>7, <1>8
       DEF Next, Reader, Writer

\* The reader's state always has its type, with or without a live writer.
THEOREM TypeCorrect == Spec => []TypeOK
<1>1. Init => TypeInv
    BY TypeInvInit
<1>2. TypeInv /\ [Next]_vars => TypeInv'
    BY TypeInvStep
<1>3. TypeInv => TypeOK
    BY DEF TypeInv
<1>4. QED
    BY <1>1, <1>2, <1>3, PTL DEF Spec

(***************************************************************************)
(* Exact decoding of a file nobody writes.  The invariant says what the    *)
(* reader holds at each point of load_dpns: after getsize the size it took *)
(* is the file's, after open the reserved records are the first two, and  *)
(* in the loop the packs decoded so far are records 3..pos-1 numbered from *)
(* 0.  DecodeExact is the case pc = "done" of it.                          *)
(***************************************************************************)
DecodeInv ==
    /\ TypeInv
    /\ pc \in {"getsize", "open"} => packs = <<>>
    /\ pc \in {"open", "loop", "done"} =>
          /\ dpnTail = 0
          /\ noDpns = Len(dpnFile)
          /\ noDpns >= 2
    /\ pc \in {"loop", "done"} =>
          /\ lastPackA = DP(dpnFile[1], noDpns - 2)
          /\ lastPackB = DP(dpnFile[2], noDpns - 2)
    /\ pc = "loop" =>
          /\ pos = dpNo + 3
          /\ pos <= Len(dpnFile) + 1
          /\ packs = [i \in 1..dpNo |-> DP(dpnFile[i + 2], i - 1)]
    /\ pc = "done" => packs = Decoded(dpnFile)
    /\ pc = "error" => dpnTail # 0 \/ Len(dpnFile) < 2
    /\ pc # "crash"

\* The size of n whole records and a fragment of t bytes, divided by the
\* record size, gives back n and t.
LEMMA SizeDivMod ==
    ASSUME NEW n \in Nat, NEW t \in 0..(DPN_PACK_SIZE - 1)
    PROVE  /\ (DPN_PACK_SIZE * n + t) % DPN_PACK_SIZE = t
           /\ (DPN_PACK_SIZE * n + t) \div DPN_PACK_SIZE = n
BY DEF DPN_PACK_SIZE

LEMMA DecodeInvInit == Init => DecodeInv
BY TypeInvInit DEF Init, DecodeInv

LEMMA DecodeInvStep ==
    ASSUME ~LiveWriter
    PROVE  DecodeInv /\ [Next]_vars => DecodeInv'
<1> SUFFICES ASSUME DecodeInv, [Next]_vars PROVE DecodeInv'
    OBVIOUS
<1>0. TypeInv'
    BY TypeInvStep DEF DecodeInv
<1> USE DEF DecodeInv
<1> Len(dpnFile) \in Nat
    BY LenProperties DEF TypeInv, TypeOK
<1>1. CASE GetSize
    <2>0. FileSize % DPN_PACK_SIZE = dpnTail /\ FileSize \div DPN_PACK_SIZE = Len(dpnFile)
        BY SizeDivMod DEF FileSize, TypeInv, TypeOK
    <2>1. CASE FileSize % DPN_PACK_SIZE # 0 \/ FileSize \div DPN_PACK_SIZE < 2
        <3>1. dpnTail # 0 \/ Len(dpnFile) < 2
            BY <2>0, <2>1
        <3>2. QED
            BY <1>0, <1>1, <2>1, <3>1 DEF GetSize
    <2>2. CASE ~(FileSize % DPN_PACK_SIZE # 0 \/ FileSize \div DPN_PACK_SIZE < 2)
        <3>1. dpnTail = 0 /\ FileSize \div DPN_PACK_SIZE = Len(dpnFile)
            BY <2>0, <2>2
        <3>2. QED
            BY <1>0, <1>1, <2>2, <3>1 DEF GetSize
    <2>3. QED
        BY <2>1, <2>2
<1>2. CASE Open
    <2>1. [i \in 1..0 |-> DP(dpnFile[i + 2], i - 1)] = <<>>
        OBVIOUS
    <2>2. QED
        BY <1>0, <1>2, <2>1 DEF Open
<1>3. CASE ReadPack
    <2>1. pos \in 1..Len(dpnFile) /\ pos = dpNo + 3 /\ dpNo \in Nat
        BY <1>3 DEF ReadPack, Chunk, TypeInv, TypeOK
    <2>2. /\ pc = "loop"
          /\ packs' = Append(packs, DP(dpnFile[pos], dpNo))
          /\ dpNo' = dpNo + 1 /\ pos' = pos + 1
          /\ UNCHANGED <<dpnFile, dpnTail, pc, noDpns, lastPackA, lastPackB>>
        BY <1>3 DEF ReadPack
    <2>3. packs = [i \in 1..dpNo |-> DP(dpnFile[i + 2], i - 1)]
        BY <2>2
    <2>4. packs' = [i \in 1..(dpNo + 1) |-> DP(dpnFile[i + 2], i - 1)]
        BY <2>1, <2>2, <2>3
    <2>5. QED
        BY <1>0, <2>1, <2>2, <2>4
<1>4. CASE ReadFragment
    BY <1>4 DEF ReadFragment, Chunk
<1>5. CASE Finish
    <2>1. pos = Len(dpnFile) + 1 /\ dpNo = Len(dpnFile) - 2
        BY <1>5 DEF Finish, Chunk, TypeInv, TypeOK
    <2>2. /\ packs \in Seq(DPRec)
          /\ Len(packs) = dpNo
          /\ lastPackA \in DPRec
        BY <1>5, <2>1 DEF Finish, TypeInv, TypeOK, DPRec
    <2>3. /\ packs' \in Seq(DPRec)
          /\ Len(packs') = Len(dpnFile) - 1
          /\ \A i \in 1..dpNo : packs'[i] = DP(dpnFile[i + 2], i - 1)
          /\ packs'[dpNo + 1] = lastPackA
        BY <1>5, <2>1, <2>2, AppendProperties DEF Finish
    <2>4. \A i \in 1..(Len(dpnFile) - 1) : dpnFile[i] \in FileNos
        BY ElementOfSeq DEF TypeInv, TypeOK
    <2>5. Decoded(dpnFile) \in Seq(DPRec) /\ Len(Decoded(dpnFile)) = Len(dpnFile) - 1
        BY <2>1, <2>4, ElementOfSeq, DPType DEF Decoded, TypeInv, TypeOK
    <2>6. \A i \in 1..Len(packs') : packs'[i] = Decoded(dpnFile)[i]
        BY <1>5, <2>1, <2>3 DEF Decoded, Finish
    <2>7. packs' = Decoded(dpnFile)
        BY <2>3, <2>5, <2>6, SeqEqual
    <2>8. QED
        BY <1>0, <1>5, <2>7 DEF Finish
<1>6. CASE Writer
    BY <1>6 DEF Writer, WriterBegin, WriterEnd
<1>7. CASE UNCHANGED vars
    BY <1>0, <1>7 DEF vars
<1>8. QED
    BY <1>1, <1>2, <1>3, <1>4, <1>5, <1>6, <1>7 DEF Next, Reader

\* On a file nobody writes, every completed read of TA<n>DPN.ctb yields the
\* decoded sequence of the file: ordinary packs in file order numbered from
\* 0, the first reserved record appended last, the second kept aside.
THEOREM DecodeCorrect ==
    ASSUME ~LiveWriter
    PROVE  Spec => []DecodeExact
<1>1. Init => DecodeInv
    BY DecodeInvInit
<1>2. DecodeInv /\ [Next]_vars => DecodeInv'
    BY DecodeInvStep
<1>3. DecodeInv => DecodeExact
    BY DEF DecodeInv, DecodeExact
<1>4. QED
    BY <1>1, <1>2, <1>3, PTL DEF Spec

\* On a file nobody writes, the reader exits cleanly on exactly the files
\* whose size is not a whole number of at least two records, and never dies
\* inside struct.unpack.
THEOREM SizeCheckCorrect ==
    ASSUME ~LiveWriter
    PROVE  Spec => []OutcomeMatchesSize
<1>1. DecodeInv => OutcomeMatchesSize
    BY DEF DecodeInv, OutcomeMatchesSize, Terminated
<1>2. QED
    BY <1>1, DecodeInvInit, DecodeInvStep, PTL DEF Spec

(***************************************************************************)
(* Reading a file a live writer appends to.  PacksMatchFile is not         *)
(* inductive: ReadPack numbers its record dp_no and takes it from place    *)
(* pos, which agree with the packs so far only because pos = dp_no + 3 and *)
(* one pack is kept per turn; Open must start from no packs at all.  The   *)
(* writer only appends, so a record already decoded keeps its place.       *)
(***************************************************************************)
LiveInv ==
    /\ TypeInv
    /\ PacksMatchFile
    /\ pc \in {"getsize", "open", "error"} => packs = <<>>
    /\ pc = "loop" => /\ pos = dpNo + 3
                      /\ Len(packs) = dpNo
                      /\ pos <= Len(dpnFile) + 1

LEMMA LiveInvInit == Init => LiveInv
BY TypeInvInit DEF Init, LiveInv, PacksMatchFile

LEMMA LiveInvStep == LiveInv /\ [Next]_vars => LiveInv'
<1> SUFFICES ASSUME LiveInv, [Next]_vars PROVE LiveInv'
    OBVIOUS
<1>0. TypeInv'
    BY TypeInvStep DEF LiveInv
<1>t. /\ dpnFile \in Seq(FileNos) /\ packs \in Seq(DPRec)
      /\ dpNo \in Nat /\ pos \in Nat
    BY DEF LiveInv, TypeInv, TypeOK, DPRec
<1>1. CASE GetSize
    BY <1>0, <1>1 DEF GetSize, LiveInv, PacksMatchFile
<1>2. CASE Open
    BY <1>0, <1>2 DEF Open, Chunk, LiveInv, PacksMatchFile
<1>3. CASE ReadPack
    <2>1. pc = "loop" /\ pos = dpNo + 3 /\ Len(packs) = dpNo /\ pos \in 1..Len(dpnFile)
        BY <1>3, <1>t DEF ReadPack, Chunk, LiveInv
    <2>2. DP(dpnFile[pos], dpNo) \in DPRec
        BY <1>t, <2>1, ElementOfSeq, DPType
    <2>3. /\ Len(packs') = dpNo + 1
          /\ packs'[dpNo + 1] = DP(dpnFile[pos], dpNo)
          /\ \A i \in 1..dpNo : packs'[i] = packs[i]
        BY <1>3, <1>t, <2>1, <2>2, AppendProperties DEF ReadPack
    <2>4. PacksMatchFile'
        BY <1>3, <2>1, <2>3 DEF ReadPack, LiveInv, PacksMatchFile
    <2>. QED  BY <1>0, <1>3, <2>1, <2>3, <2>4 DEF ReadPack, LiveInv
<1>4. CASE ReadFragment
    BY <1>0, <1>4 DEF ReadFragment, LiveInv, PacksMatchFile
<1>5. CASE Finish
    <2>1. pc = "loop" /\ lastPackA \in DPRec
        BY <1>5 DEF Finish, LiveInv, TypeInv
    <2>2. /\ Len(packs') = Len(packs) + 1
          /\ packs'[Len(packs) + 1] = lastPackA
          /\ \A i \in 1..Len(packs) : packs'[i] = packs[i]
        BY <1>5, <1>t, <2>1, AppendProperties DEF Finish
    <2>3. PacksMatchFile'
        BY <1>5, <2>1, <2>2 DEF Finish, LiveInv, PacksMatchFile
    <2>. QED  BY <1>0, <1>5, <2>3 DEF Finish, LiveInv
<1>6. CASE WriterBegin
    BY <1>0, <1>6 DEF WriterBegin, readerVars, LiveInv, PacksMatchFile
<1>7. CASE WriterEnd
    <2>1. PICK f \in FileNos : dpnFile' = Append(dpnFile, f)
        BY <1>7 DEF WriterEnd
    <2>2. /\ Len(dpnFile') = Len(dpnFile) + 1
          /\ \A j \in 1..Len(dpnFile) : dpnFile'[j] = dpnFile[j]
        BY <1>t, <2>1, AppendProperties
    <2>3. PacksMatchFile'
        BY <1>7, <2>2 DEF WriterEnd, readerVars, LiveInv, PacksMatchFile
    <2>. QED  BY <1>0, <1>7, <2>2, <2>3 DEF WriterEnd, readerVars, LiveInv
<1>8. CASE UNCHANGED vars
    BY <1>0, <1>8 DEF vars, LiveInv, PacksMatchFile
<1>. QED
    BY <1>1, <1>2, <1>3, <1>4, <1>5, <1>6, <1>7, <1>8 DEF Next, Reader, Writer

\* With or without a database appending to TA<n>DPN.ctb while load_dpns
\* reads it, every ordinary pack decoded so far is the record at its place
\* in the file, numbered from 0, and a completed read ends with the first
\* reserved record.
THEOREM LiveDecodeCorrect == Spec => []PacksMatchFile
<1>1. Init => LiveInv
    BY LiveInvInit
<1>2. LiveInv /\ [Next]_vars => LiveInv'
    BY LiveInvStep
<1>3. LiveInv => PacksMatchFile
    BY DEF LiveInv
<1>. QED  BY <1>1, <1>2, <1>3, PTL DEF Spec

=============================================================================
