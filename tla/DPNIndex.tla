------------------------------ MODULE DPNIndex ------------------------------
(***************************************************************************)
(* The data-pack index reader of scripts/stonedb_tool.py:                  *)
(* Attribute.load_dpns and the DP constructor.  The reader takes the size  *)
(* of TA<n>DPN.ctb, rejects a size that is not a multiple of the 37-byte   *)
(* record or holds fewer than two records, opens the file, decodes the two *)
(* reserved records first, then every further record in file order, and   *)
(* finally appends the first reserved record to the public sequence.       *)
(*                                                                         *)
(* A record is abstracted to its pack-file number (the only field the      *)
(* decoder interprets); the file is the sequence of whole records plus the *)
(* length of a trailing fragment.  When LiveWriter is TRUE a database      *)
(* process may append records to the file while the tool reads it; its     *)
(* append is observed in two halves (a fragment, then the whole record).   *)
(***************************************************************************)
EXTENDS Integers, Sequences

CONSTANTS
    FileNos,        \* the pack-file numbers a record may carry
    MaxRecords,     \* bound on the number of records in the file
    TailLens,       \* lengths of a trailing fragment found on disk
    LiveWriter,     \* whether a database process appends meanwhile
    None            \* last_pack_a and last_pack_b before they are read

DPN_PACK_SIZE == 37

ASSUME FileNosAssumption == FileNos \subseteq Int
ASSUME MaxRecordsAssumption == MaxRecords \in Nat
ASSUME TailLensAssumption == TailLens \subseteq 0..(DPN_PACK_SIZE - 1)
ASSUME LiveWriterAssumption == LiveWriter \in BOOLEAN
ASSUME NoneAssumption == None \notin [no : Int, file_no : Int, has_file : BOOLEAN]

PF_NULLS_ONLY == -1
PF_NO_OBJ     == -2
PF_NOT_KNOWN  == -3
PF_END        == -4
PF_DELETED    == -5

\* The pack-file numbers that stand for "no storage file" (DP.__init__).
PFSpecial == {PF_NULLS_ONLY, PF_NO_OBJ, PF_NOT_KNOWN, PF_END, PF_DELETED}

\* A decoded record: its number in the public sequence, its pack-file
\* number, and whether a data file backs it.
DP(fileNo, no) == [no |-> no, file_no |-> fileNo, has_file |-> fileNo \notin PFSpecial]

VARIABLES
    dpnFile,     \* the whole records of TA<n>DPN.ctb, in file order
    dpnTail,     \* the length of a trailing fragment after them
    pc,          \* where the reader is
    noDpns,      \* no_dpns, computed from the size taken by getsize
    pos,         \* the record the next f.read(DPN_PACK_SIZE) returns
    dpNo,        \* dp_no
    packs,       \* self.packs
    lastPackA,   \* self.last_pack_a
    lastPackB    \* self.last_pack_b

vars == <<dpnFile, dpnTail, pc, noDpns, pos, dpNo, packs, lastPackA, lastPackB>>
readerVars == <<pc, noDpns, pos, dpNo, packs, lastPackA, lastPackB>>

\* Index files with at most MaxRecords whole records.
Files == UNION {[1..n -> FileNos] : n \in 0..MaxRecords}

\* The byte size os.path.getsize returns.
FileSize == DPN_PACK_SIZE * Len(dpnFile) + dpnTail

\* What f.read(DPN_PACK_SIZE) returns at record p: a whole record, a
\* fragment of fewer than 37 bytes, or the empty string at end of file.
Chunk(p) ==
    IF p <= Len(dpnFile) THEN "whole"
    ELSE IF p = Len(dpnFile) + 1 /\ dpnTail > 0 THEN "fragment"
    ELSE "eof"

Init ==
    /\ dpnFile \in Files
    /\ dpnTail \in TailLens
    /\ pc = "getsize"
    /\ noDpns = 0
    /\ pos = 1
    /\ dpNo = 0
    /\ packs = <<>>
    /\ lastPackA = None
    /\ lastPackB = None

(***************************************************************************)
(* Reader.                                                                 *)
(***************************************************************************)

\* Mutant of GetSize: the check st % DPN_PACK_SIZE is dropped.
GetSizeNoModulo ==
    /\ pc = "getsize"
    /\ IF FileSize \div DPN_PACK_SIZE < 2
         THEN /\ pc' = "error"
              /\ UNCHANGED noDpns
         ELSE /\ pc' = "open"
              /\ noDpns' = FileSize \div DPN_PACK_SIZE
    /\ UNCHANGED <<dpnFile, dpnTail, pos, dpNo, packs, lastPackA, lastPackB>>

\* os.path.getsize and the two size checks: sys.exit on a size that is not
\* a multiple of the record, or that holds fewer than two records.
GetSize ==
    /\ pc = "getsize"
    /\ IF FileSize % DPN_PACK_SIZE # 0 \/ FileSize \div DPN_PACK_SIZE < 2
         THEN /\ pc' = "error"
              /\ UNCHANGED noDpns
         ELSE /\ pc' = "open"
              /\ noDpns' = FileSize \div DPN_PACK_SIZE
    /\ UNCHANGED <<dpnFile, dpnTail, pos, dpNo, packs, lastPackA, lastPackB>>

\* Mutant of Open: the reserved records are numbered no_dpns - 3.
OpenOffByOne ==
    /\ pc = "open"
    /\ Chunk(1) = "whole" /\ Chunk(2) = "whole"
    /\ lastPackA' = DP(dpnFile[1], noDpns - 3)
    /\ lastPackB' = DP(dpnFile[2], noDpns - 3)
    /\ pos' = 3
    /\ dpNo' = 0
    /\ pc' = "loop"
    /\ UNCHANGED <<dpnFile, dpnTail, noDpns, packs>>

\* open, then the two reserved records, both numbered no_dpns - 2, then the
\* read of the first ordinary record.  The file only grows after getsize
\* found two whole records, so both reads return whole records.
Open ==
    /\ pc = "open"
    /\ Chunk(1) = "whole" /\ Chunk(2) = "whole"
    /\ lastPackA' = DP(dpnFile[1], noDpns - 2)
    /\ lastPackB' = DP(dpnFile[2], noDpns - 2)
    /\ pos' = 3
    /\ dpNo' = 0
    /\ pc' = "loop"
    /\ UNCHANGED <<dpnFile, dpnTail, noDpns, packs>>

\* Mutant of ReadPack: dp_no is incremented before the pack is built.
ReadPackNumberedFromOne ==
    /\ pc = "loop"
    /\ Chunk(pos) = "whole"
    /\ packs' = Append(packs, DP(dpnFile[pos], dpNo + 1))
    /\ dpNo' = dpNo + 1
    /\ pos' = pos + 1
    /\ UNCHANGED <<dpnFile, dpnTail, pc, noDpns, lastPackA, lastPackB>>

\* One turn of "while bytes": decode a whole record as pack dp_no.
ReadPack ==
    /\ pc = "loop"
    /\ Chunk(pos) = "whole"
    /\ packs' = Append(packs, DP(dpnFile[pos], dpNo))
    /\ dpNo' = dpNo + 1
    /\ pos' = pos + 1
    /\ UNCHANGED <<dpnFile, dpnTail, pc, noDpns, lastPackA, lastPackB>>

\* struct.unpack on a fragment raises: the tool dies with a traceback.
ReadFragment ==
    /\ pc = "loop"
    /\ Chunk(pos) = "fragment"
    /\ pc' = "crash"
    /\ UNCHANGED <<dpnFile, dpnTail, noDpns, pos, dpNo, packs, lastPackA, lastPackB>>

\* Mutant of Finish: last_pack_b is appended instead of last_pack_a.
FinishSwapped ==
    /\ pc = "loop"
    /\ Chunk(pos) = "eof"
    /\ packs' = Append(packs, lastPackB)
    /\ pc' = "done"
    /\ UNCHANGED <<dpnFile, dpnTail, noDpns, pos, dpNo, lastPackA, lastPackB>>

\* End of file: the loop ends and last_pack_a is appended.
Finish ==
    /\ pc = "loop"
    /\ Chunk(pos) = "eof"
    /\ packs' = Append(packs, lastPackA)
    /\ pc' = "done"
    /\ UNCHANGED <<dpnFile, dpnTail, noDpns, pos, dpNo, lastPackA, lastPackB>>

Reader == GetSize \/ Open \/ ReadPack \/ ReadFragment \/ Finish

(***************************************************************************)
(* The database process appending a record while the tool reads.           *)
(***************************************************************************)

\* The first bytes of a new record reach the file.
WriterBegin ==
    /\ LiveWriter
    /\ dpnTail = 0
    /\ Len(dpnFile) < MaxRecords
    /\ \E t \in TailLens \ {0} : dpnTail' = t
    /\ UNCHANGED <<dpnFile>>
    /\ UNCHANGED readerVars

\* The rest of the record reaches the file.
WriterEnd ==
    /\ LiveWriter
    /\ dpnTail > 0
    /\ Len(dpnFile) < MaxRecords
    /\ \E f \in FileNos : dpnFile' = Append(dpnFile, f)
    /\ dpnTail' = 0
    /\ UNCHANGED readerVars

Writer == WriterBegin \/ WriterEnd

Next == Reader \/ Writer

\* The tool is one synchronous Python process: it keeps running until it
\* exits, so its steps are weakly fair.
Spec == Init /\ [][Next]_vars /\ WF_vars(Reader)

(***************************************************************************)
(* Properties.                                                             *)
(***************************************************************************)

Terminated == pc \in {"done", "error", "crash"}

\* Type invariant.
TypeOK ==
    /\ dpnFile \in Seq(FileNos)
    /\ dpnTail \in 0..(DPN_PACK_SIZE - 1)
    /\ pc \in {"getsize", "open", "loop", "done", "error", "crash"}
    /\ noDpns \in Nat
    /\ pos \in Nat \ {0}
    /\ dpNo \in Nat
    /\ packs \in Seq([no : Nat, file_no : FileNos, has_file : BOOLEAN])
    /\ lastPackA \in [no : Nat, file_no : FileNos, has_file : BOOLEAN] \cup {None}
    /\ lastPackB \in [no : Nat, file_no : FileNos, has_file : BOOLEAN] \cup {None}

\* The public sequence the reader must produce from index file f: the
\* ordinary records 3..Len(f) numbered 0, 1, ..., then the first reserved
\* record, numbered Len(f) - 2.
Decoded(f) ==
    [i \in 1..(Len(f) - 1) |->
        IF i < Len(f) - 1 THEN DP(f[i + 2], i - 1) ELSE DP(f[1], Len(f) - 2)]

\* On a file nobody writes, a completed read yields exactly the decoded
\* sequence of the file, and the second reserved record is kept aside: the
\* two-slot convention of load_dpns read back without shift or loss.
DecodeExact ==
    pc = "done" =>
        /\ packs = Decoded(dpnFile)
        /\ lastPackB = DP(dpnFile[2], Len(dpnFile) - 2)

\* The reader stops with a clean sys.exit exactly on the files whose size
\* is not a whole number of at least two records, completes on all others,
\* and never dies inside struct.unpack on a file nobody writes.
OutcomeMatchesSize ==
    Terminated =>
        /\ pc # "crash"
        /\ (pc = "done") <=> (dpnTail = 0 /\ Len(dpnFile) >= 2)

\* Each ordinary pack decoded so far is the record at its place in the
\* file, whatever the writer appended meanwhile.
PacksMatchFile ==
    \A i \in 1..Len(packs) :
        IF pc = "done" /\ i = Len(packs) THEN packs[i] = lastPackA
        ELSE i + 2 <= Len(dpnFile) /\ packs[i] = DP(dpnFile[i + 2], i - 1)

(***************************************************************************)
(* What the reader promises with a live writer, checked against load_dpns. *)
(***************************************************************************)

\* The public sequence is numbered 0, 1, ..., Len - 1 with the appended
\* reserved slot last, which is what load_dpns computes from the size it
\* took before opening the file.
ReservedSlotNumberedLast ==
    pc = "done" => packs[Len(packs)].no = Len(packs) - 1

=============================================================================
