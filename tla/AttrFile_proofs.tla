-------------------------- MODULE AttrFile_proofs --------------------------
(***************************************************************************)
(* Proofs about the attribute-metadata reader (AttrFile): its type         *)
(* invariant, that a parsed column matches its files, and that it          *)
(* implements the one-step specification AttrSpec (safety part).           *)
(***************************************************************************)
EXTENDS AttrFile, SequenceTheorems, TLAPS

\* The index reader's proofs, for the reader load_dpns runs.
DP == INSTANCE DPNIndex_proofs
        WITH TailLens <- DpnTailLens, LiveWriter <- FALSE, pc <- dpnPc

LEMMA DpnInit == DPN!Init => DP!DecodeInv
BY DP!DecodeInvInit, DpnAssumption DEF DP!DPN_PACK_SIZE, DPN!DPN_PACK_SIZE, DP!Init, DPN!Init, DP!Files, DPN!Files

LEMMA DpnStep == DP!DecodeInv /\ [DPN!Next]_DPN!vars => DP!DecodeInv'
<1>1. [DPN!Next]_DPN!vars => [DP!Next]_DP!vars
    BY DEF DP!Next, DPN!Next, DP!Reader, DPN!Reader, DP!Writer, DPN!Writer, DP!GetSize, DPN!GetSize, DP!Open, DPN!Open, DP!ReadPack, DPN!ReadPack, DP!ReadFragment, DPN!ReadFragment, DP!Finish, DPN!Finish, DP!WriterBegin, DPN!WriterBegin, DP!WriterEnd, DPN!WriterEnd, DP!Chunk, DPN!Chunk, DP!FileSize, DPN!FileSize, DP!DP, DPN!DP, DP!vars, DPN!vars, DP!readerVars, DPN!readerVars, DP!DPN_PACK_SIZE, DPN!DPN_PACK_SIZE, DP!PFSpecial, DPN!PFSpecial, DP!PF_NULLS_ONLY, DPN!PF_NULLS_ONLY, DP!PF_NO_OBJ, DPN!PF_NO_OBJ, DP!PF_NOT_KNOWN, DPN!PF_NOT_KNOWN, DP!PF_END, DPN!PF_END, DP!PF_DELETED, DPN!PF_DELETED
<1>2. QED
    BY <1>1, DP!DecodeInvStep, DpnAssumption DEF DP!DPN_PACK_SIZE, DPN!DPN_PACK_SIZE

(***************************************************************************)
(* What Attribute.parse holds at each point.  At "split" the header was   *)
(* read from a file that exists and has the tag, at "range" the tail has  *)
(* PF_END, at "dpns" min, max and the dictionary are set as the type      *)
(* requires; the index reader's own invariant holds throughout; once      *)
(* parse has ended, its outcome is AttrSpec's Outcome of the two files.   *)
(***************************************************************************)
Ranged == lookup \/ IsNumeric(atype)

\* Before the header is read: nothing set, the index file untouched.
InvFresh ==
    apc \in {"open", "split", "range"} =>
        /\ dpnPc = "getsize"
        /\ iMin = None /\ iMax = None /\ dict = None

\* After the header: the file exists with the tag, the type byte decoded.
InvHeader ==
    apc \in {"split", "range", "dpns"} =>
        /\ afile.exists /\ afile.head = "ok"
        /\ lookup = LookupBit(afile.typeByte)
        /\ atype = MaskType(afile.typeByte)

\* After the tail: two NULs, the fragment count and PF_END present.
InvTail ==
    apc \in {"range", "dpns"} =>
        /\ afile.nuls >= 2 /\ afile.tailLen >= 8
        /\ afile.pfEnd = DPN!PF_END

\* After min/max: the range and the dictionary as the type requires.
InvRange ==
    apc = "dpns" =>
        /\ ~(Ranged /\ afile.tailLen < 24)
        /\ iMin = IF Ranged THEN afile.min ELSE None
        /\ iMax = IF Ranged THEN afile.max ELSE None
        /\ dict = IF lookup THEN afile.tailLen - 24 ELSE None

\* Once parse has ended, its result is AttrSpec's.
InvResult ==
    Terminated => AbsResult = Abs!Outcome(afile, dpnFile, dpnTail)

AInv ==
    /\ TypeOK
    /\ DP!DecodeInv
    /\ InvFresh
    /\ InvHeader
    /\ InvTail
    /\ InvRange
    /\ InvResult

\* The index reader's type invariant, seen from AttrFile.
LEMMA DpnTypeOK == DP!DecodeInv => DPN!TypeOK
BY DEF DP!DecodeInv, DP!TypeInv, DP!TypeOK, DPN!TypeOK, DP!DPN_PACK_SIZE, DPN!DPN_PACK_SIZE

LEMMA AInvInit == Init => AInv
<1> SUFFICES ASSUME Init PROVE AInv
    OBVIOUS
<1>1. DP!DecodeInv
    BY DpnInit DEF Init
<1>2. TypeOK
    <2>1. DPN!TypeOK
        BY <1>1, DpnTypeOK
    <2>2. afile \in AttrFiles /\ apc = "open"
        BY DEF Init
    <2>3. lookup \in BOOLEAN
        BY Zenon DEF Init
    <2>6. atype \in 0..127
        BY DEF Init
    <2>4. iMin \in Vals \cup {None} /\ iMax \in Vals \cup {None} /\ dict \in Nat \cup {None}
        BY DEF Init
    <2>5. QED
        BY <2>1, <2>2, <2>3, <2>4, <2>6 DEF TypeOK
<1>3. dpnPc = "getsize" /\ ~Terminated
    BY DEF Init, DPN!Init, Terminated
<1>4. QED
    BY <1>1, <1>2, <1>3 DEF Init, AInv, InvFresh, InvHeader, InvTail, InvRange, InvResult

(***************************************************************************)
(* What AttrSpec's Outcome is, case by case, in the order parse meets the *)
(* cases.                                                                  *)
(***************************************************************************)
\* A file that exists has all the fields of the format.
LEMMA ExistingFile ==
    ASSUME NEW f \in AttrFiles, f.exists
    PROVE  /\ f.head \in Heads /\ f.typeByte \in 0..255 /\ f.nuls \in 0..2
           /\ f.tailLen \in Nat /\ f.pfEnd \in Int /\ f.min \in Vals /\ f.max \in Vals
<1>1. f \in [exists : {TRUE}, head : Heads, typeByte : TypeBytes, nuls : 0..2,
             tailLen : TailLens, pfEnd : PfEnds, min : Vals, max : Vals]
    BY Zenon DEF AttrFiles
<1>2. QED
    BY <1>1, TypeBytesAssumption, TailLensAssumption, PfEndsAssumption

\* The header and the tail are complete: parse reaches the PF_END check.
CheckedFile(f) ==
    /\ f \in AttrFiles
    /\ f.exists /\ f.head = "ok" /\ f.nuls >= 2 /\ f.tailLen >= 8

\* Whether the type of type byte b calls for min and max.
RangedType(b) == LookupBit(b) \/ IsNumeric(MaskType(b))

LEMMA CheckedFileNoCrash ==
    ASSUME NEW f, CheckedFile(f)
    PROVE  ~(~f.exists \/ f.head # "ok" \/ f.nuls < 2 \/ f.tailLen < 8)
BY ExistingFile DEF CheckedFile

\* A missing file, a bad head, a missing NUL or a tail short of PF_END.
LEMMA OutcomeHeadCrash ==
    ASSUME NEW f, NEW d, NEW t,
           ~f.exists \/ f.head # "ok" \/ f.nuls < 2 \/ f.tailLen < 8
    PROVE  Abs!Outcome(f, d, t) = [status |-> "crash", column |-> None]
BY DEF Abs!Outcome, Abs!Result

\* A terminator other than PF_END.
LEMMA OutcomeTerminatorExit ==
    ASSUME NEW f, NEW d, NEW t, CheckedFile(f), f.pfEnd # DPN!PF_END
    PROVE  Abs!Outcome(f, d, t) = [status |-> "exit", column |-> None]
BY CheckedFileNoCrash DEF Abs!Outcome, Abs!Result, Abs!D!PF_END, DPN!PF_END

\* A lookup or numeric column whose tail stops short of min and max.
LEMMA OutcomeRangeCrash ==
    ASSUME NEW f, NEW d, NEW t, CheckedFile(f), f.pfEnd = DPN!PF_END,
           RangedType(f.typeByte), f.tailLen < 24
    PROVE  Abs!Outcome(f, d, t) = [status |-> "crash", column |-> None]
BY CheckedFileNoCrash
   DEF Abs!Outcome, Abs!Result, Abs!D!PF_END, DPN!PF_END, RangedType,
       LookupBit, Abs!LookupBit, MaskType, Abs!MaskType, IsNumeric, Abs!IsNumeric,
       NumericTypes, Abs!NumericTypes

\* The column is read, and load_dpns exits on the index file's size.
LEMMA OutcomeIndexExit ==
    ASSUME NEW f, NEW d, NEW t, CheckedFile(f), f.pfEnd = DPN!PF_END,
           ~(RangedType(f.typeByte) /\ f.tailLen < 24), t # 0 \/ Len(d) < 2
    PROVE  Abs!Outcome(f, d, t) = [status |-> "exit", column |-> None]
BY CheckedFileNoCrash
   DEF Abs!Outcome, Abs!Result, Abs!D!PF_END, DPN!PF_END, RangedType,
       LookupBit, Abs!LookupBit, MaskType, Abs!MaskType, IsNumeric, Abs!IsNumeric,
       NumericTypes, Abs!NumericTypes

\* Both files are read through.
LEMMA OutcomeDone ==
    ASSUME NEW f, NEW d, NEW t, CheckedFile(f), f.pfEnd = DPN!PF_END,
           ~(RangedType(f.typeByte) /\ f.tailLen < 24), t = 0, Len(d) >= 2
    PROVE  Abs!Outcome(f, d, t) =
             [status |-> "done",
              column |-> [lookup |-> LookupBit(f.typeByte),
                          type |-> MaskType(f.typeByte),
                          min |-> IF RangedType(f.typeByte) THEN f.min ELSE None,
                          max |-> IF RangedType(f.typeByte) THEN f.max ELSE None,
                          dict |-> IF LookupBit(f.typeByte) THEN f.tailLen - 24 ELSE None,
                          packs |-> Abs!D!Decoded(d)]]
BY CheckedFileNoCrash
   DEF Abs!Outcome, Abs!Result, Abs!Column, Abs!D!PF_END, DPN!PF_END, RangedType,
       LookupBit, Abs!LookupBit, MaskType, Abs!MaskType, IsNumeric, Abs!IsNumeric,
       NumericTypes, Abs!NumericTypes

LEMMA AInvStep == AInv /\ [Next]_vars => AInv'
<1> SUFFICES ASSUME AInv, [Next]_vars PROVE AInv'
    OBVIOUS
<1>0. DP!DecodeInv'
    <2>1. [DPN!Next]_DPN!vars
        BY DEF Next, Parse, ReadHeader, ReadTail, ReadRange, LoadDpns, LoadDpnsEnd,
               vars, attrVars, dpnVars, DPN!Next, DPN!vars
    <2>2. QED
        BY <2>1, DpnStep DEF AInv
<1>1. DPN!TypeOK'
    BY <1>0 DEF DP!DecodeInv, DP!TypeInv, DP!TypeOK, DPN!TypeOK,
                DP!DPN_PACK_SIZE, DPN!DPN_PACK_SIZE
<1>2. afile' = afile
    BY DEF Next, Parse, ReadHeader, ReadTail, ReadRange, LoadDpns, LoadDpnsEnd, vars, attrVars
<1>3. CASE ReadHeader
    <2>1. CASE ~afile.exists \/ afile.head # "ok"
        <3>1. /\ apc' = "crash"
              /\ UNCHANGED <<afile, atype, iMin, iMax, dict, dpnVars>>
            BY <1>3, <2>1 DEF ReadHeader
        <3>2. lookup' \in BOOLEAN
            BY <1>3, Zenon DEF ReadHeader
        <3>3. InvResult'
            BY <2>1, <3>1, OutcomeHeadCrash DEF InvResult, AbsResult, Terminated, dpnVars
        <3>4. QED
            BY <1>0, <1>1, <3>1, <3>2, <3>3
            DEF AInv, TypeOK, InvFresh, InvHeader, InvTail, InvRange
    <2>2. CASE afile.exists /\ afile.head = "ok"
        <3>1. /\ apc' = "split"
              /\ UNCHANGED <<afile, iMin, iMax, dict, dpnVars>>
              /\ atype' = MaskType(afile.typeByte)
            BY <1>3, <2>2 DEF ReadHeader
        <3>2. lookup' = LookupBit(afile.typeByte)
            BY <1>3, <2>2, Zenon DEF ReadHeader, LookupBit
        <3>3. lookup' \in BOOLEAN
            BY <3>2, Zenon DEF LookupBit
        <3>4. atype' \in 0..127
            BY <2>2, <3>1, ExistingFile DEF AInv, TypeOK, MaskType
        <3>5. dpnPc = "getsize" /\ iMin = None /\ iMax = None /\ dict = None
            BY <1>3 DEF ReadHeader, AInv, InvFresh
        <3>6. QED
            BY <1>0, <1>1, <2>2, <3>1, <3>2, <3>3, <3>4, <3>5
            DEF AInv, TypeOK, InvFresh, InvHeader, InvTail, InvRange, InvResult,
                Terminated, dpnVars
    <2>3. QED
        BY <2>1, <2>2
<1>4. CASE ReadTail
    <2>0. /\ apc = "split" /\ afile.exists /\ afile.head = "ok"
          /\ dpnPc = "getsize" /\ iMin = None /\ iMax = None /\ dict = None
          /\ UNCHANGED <<afile, lookup, atype, iMin, iMax, dict, dpnVars>>
        BY <1>4 DEF ReadTail, AInv, InvHeader, InvFresh
    <2>1. CASE afile.nuls < 2 \/ afile.tailLen < 8
        <3>1. apc' = "crash"
            BY <1>4, <2>1 DEF ReadTail
        <3>2. InvResult'
            BY <2>0, <2>1, <3>1, OutcomeHeadCrash DEF InvResult, AbsResult, Terminated, dpnVars
        <3>3. QED
            BY <1>0, <1>1, <2>0, <3>1, <3>2
            DEF AInv, TypeOK, InvFresh, InvHeader, InvTail, InvRange
    <2>2. CASE ~(afile.nuls < 2 \/ afile.tailLen < 8) /\ afile.pfEnd # DPN!PF_END
        <3>1. apc' = "exit"
            BY <1>4, <2>2 DEF ReadTail
        <3>2. CheckedFile(afile)
            BY <2>0, <2>2, ExistingFile DEF CheckedFile, AInv, TypeOK
        <3>3. InvResult'
            BY <2>0, <2>2, <3>1, <3>2, OutcomeTerminatorExit
            DEF InvResult, AbsResult, Terminated, dpnVars
        <3>4. QED
            BY <1>0, <1>1, <2>0, <3>1, <3>3
            DEF AInv, TypeOK, InvFresh, InvHeader, InvTail, InvRange
    <2>3. CASE ~(afile.nuls < 2 \/ afile.tailLen < 8) /\ afile.pfEnd = DPN!PF_END
        <3>1. apc' = "range"
            BY <1>4, <2>3 DEF ReadTail
        <3>2. afile.nuls >= 2 /\ afile.tailLen >= 8
            BY <2>0, <2>3, ExistingFile DEF AInv, TypeOK
        <3>3. lookup' \in BOOLEAN
            BY <2>0, Zenon DEF AInv, TypeOK
        <3>4. InvHeader'
            BY <2>0, <3>1, Zenon DEF AInv, InvHeader
        <3>5. TypeOK'
            BY <1>1, <2>0, <3>1, <3>3 DEF AInv, TypeOK
        <3>6. InvFresh' /\ InvTail' /\ InvRange' /\ InvResult'
            BY <2>0, <2>3, <3>1, <3>2 DEF InvFresh, InvTail, InvRange, InvResult, Terminated, dpnVars
        <3>7. QED
            BY <1>0, <3>4, <3>5, <3>6 DEF AInv
    <2>4. QED
        BY <2>1, <2>2, <2>3
<1>5. CASE ReadRange
    <2>0. /\ CheckedFile(afile) /\ afile.pfEnd = DPN!PF_END
          /\ lookup = LookupBit(afile.typeByte) /\ atype = MaskType(afile.typeByte)
          /\ UNCHANGED <<afile, lookup, atype, dpnVars>>
        BY <1>5 DEF ReadRange, AInv, InvHeader, InvTail, CheckedFile, TypeOK
    <2>a. Ranged = RangedType(afile.typeByte)
        BY <2>0 DEF Ranged, RangedType
    <2>1. CASE Ranged /\ afile.tailLen < 24
        <3>1. apc' = "crash" /\ UNCHANGED <<iMin, iMax, dict>>
            BY <1>5, <2>1 DEF ReadRange, Ranged
        <3>2. InvResult'
            BY <2>0, <2>a, <2>1, <3>1, OutcomeRangeCrash
            DEF InvResult, AbsResult, Terminated, dpnVars
        <3>3. QED
            BY <1>0, <1>1, <2>0, <3>1, <3>2
            DEF AInv, TypeOK, InvFresh, InvHeader, InvTail, InvRange
    <2>2. CASE ~(Ranged /\ afile.tailLen < 24)
        <3>1. /\ apc' = "dpns"
              /\ iMin' = IF Ranged THEN afile.min ELSE None
              /\ iMax' = IF Ranged THEN afile.max ELSE None
              /\ dict' = IF lookup THEN afile.tailLen - 24 ELSE None
            BY <1>5, <2>2 DEF ReadRange, Ranged
        <3>2. /\ iMin' \in Vals \cup {None} /\ iMax' \in Vals \cup {None}
              /\ dict' \in Nat \cup {None}
            BY <2>0, <2>2, <3>1, ExistingFile DEF CheckedFile, Ranged
        <3>3. Ranged' = Ranged
            BY <2>0 DEF Ranged
        <3>4. QED
            BY <1>0, <1>1, <2>0, <2>2, <3>1, <3>2, <3>3
            DEF AInv, TypeOK, InvFresh, InvHeader, InvTail, InvRange, InvResult,
                Terminated, CheckedFile
    <2>3. QED
        BY <2>1, <2>2
<1>6. CASE LoadDpns
    <2>1. apc = "dpns" /\ UNCHANGED attrVars
        BY <1>6 DEF LoadDpns
    <2>2. QED
        BY <1>0, <1>1, <2>1
        DEF AInv, TypeOK, InvFresh, InvHeader, InvTail, InvRange, InvResult,
            Terminated, Ranged, attrVars
<1>7. CASE LoadDpnsEnd
    <2>0. /\ apc = "dpns" /\ dpnPc \in {"done", "error", "crash"}
          /\ UNCHANGED <<afile, lookup, atype, iMin, iMax, dict, dpnVars>>
        BY <1>7 DEF LoadDpnsEnd
    <2>1. /\ CheckedFile(afile) /\ afile.pfEnd = DPN!PF_END
          /\ ~(RangedType(afile.typeByte) /\ afile.tailLen < 24)
          /\ lookup = LookupBit(afile.typeByte) /\ atype = MaskType(afile.typeByte)
        BY <2>0 DEF AInv, InvHeader, InvTail, InvRange, CheckedFile, TypeOK, Ranged, RangedType
    <2>2. CASE dpnPc = "done"
        <3>1. /\ dpnTail = 0 /\ Len(dpnFile) >= 2
              /\ packs = DP!Decoded(dpnFile)
            BY <2>2 DEF AInv, DP!DecodeInv
        <3>2. DP!Decoded(dpnFile) = Abs!D!Decoded(dpnFile)
            BY DEF DP!Decoded, Abs!D!Decoded, DP!DP, Abs!D!DP, DP!PFSpecial, Abs!D!PFSpecial,
                   DP!PF_NULLS_ONLY, DP!PF_NO_OBJ, DP!PF_NOT_KNOWN, DP!PF_END, DP!PF_DELETED, Abs!D!PF_NULLS_ONLY, Abs!D!PF_NO_OBJ, Abs!D!PF_NOT_KNOWN, Abs!D!PF_END, Abs!D!PF_DELETED
        <3>3. apc' = "done"
            BY <1>7, <2>2 DEF LoadDpnsEnd
        <3>4. AbsResult' =
                [status |-> "done",
                 column |-> [lookup |-> lookup, type |-> atype, min |-> iMin,
                             max |-> iMax, dict |-> dict, packs |-> packs]]
            BY <2>0, <3>3 DEF AbsResult, Terminated, dpnVars
        <3>5. Abs!Outcome(afile, dpnFile, dpnTail) =
                [status |-> "done",
                 column |-> [lookup |-> LookupBit(afile.typeByte),
                             type |-> MaskType(afile.typeByte),
                             min |-> IF RangedType(afile.typeByte) THEN afile.min ELSE None,
                             max |-> IF RangedType(afile.typeByte) THEN afile.max ELSE None,
                             dict |-> IF LookupBit(afile.typeByte) THEN afile.tailLen - 24 ELSE None,
                             packs |-> Abs!D!Decoded(dpnFile)]]
            BY <2>1, <3>1, OutcomeDone
        <3>6. /\ iMin = IF RangedType(afile.typeByte) THEN afile.min ELSE None
              /\ iMax = IF RangedType(afile.typeByte) THEN afile.max ELSE None
              /\ dict = IF LookupBit(afile.typeByte) THEN afile.tailLen - 24 ELSE None
            BY <2>0, <2>1 DEF AInv, InvRange, Ranged, RangedType
        <3>7. InvResult'
            BY <2>0, <2>1, <3>1, <3>2, <3>4, <3>5, <3>6 DEF InvResult, dpnVars
        <3>8. QED
            BY <1>0, <1>1, <2>0, <3>3, <3>7
            DEF AInv, TypeOK, InvFresh, InvHeader, InvTail, InvRange
    <2>3. CASE dpnPc = "error"
        <3>1. dpnTail # 0 \/ Len(dpnFile) < 2
            BY <2>3 DEF AInv, DP!DecodeInv
        <3>2. apc' = "exit"
            BY <1>7, <2>3 DEF LoadDpnsEnd
        <3>3. InvResult'
            BY <2>0, <2>1, <3>1, <3>2, OutcomeIndexExit
            DEF InvResult, AbsResult, Terminated, dpnVars
        <3>4. QED
            BY <1>0, <1>1, <2>0, <3>2, <3>3
            DEF AInv, TypeOK, InvFresh, InvHeader, InvTail, InvRange
    <2>4. dpnPc # "crash"
        BY DEF AInv, DP!DecodeInv
    <2>5. QED
        BY <2>0, <2>2, <2>3, <2>4
<1>8. CASE UNCHANGED vars
    <2>1. UNCHANGED <<afile, apc, lookup, atype, iMin, iMax, dict, dpnVars>>
        BY <1>8 DEF vars, attrVars
    <2>2. lookup' \in BOOLEAN
        BY <2>1, Zenon DEF AInv, TypeOK
    <2>3. QED
        BY <1>0, <1>1, <2>1, <2>2
        DEF dpnVars, AInv, TypeOK, InvFresh, InvHeader, InvTail, InvRange,
            InvResult, AbsResult, Terminated, Ranged
<1>9. QED
    BY <1>3, <1>4, <1>5, <1>6, <1>7, <1>8 DEF Next, Parse

(***************************************************************************)
(* The theorems.                                                           *)
(***************************************************************************)

\* Attribute.parse and the load_dpns it calls keep every variable in its
\* type, on every attribute file and every index file of any size.
THEOREM AttrTypeCorrect == Spec => []TypeOK
<1>1. Init => AInv
    BY AInvInit
<1>2. AInv /\ [Next]_vars => AInv'
    BY AInvStep
<1>3. AInv => TypeOK
    BY DEF AInv
<1>4. QED
    BY <1>1, <1>2, <1>3, PTL DEF Spec

\* When parse ends with a column, the column is AttrSpec's: every other
\* outcome of Outcome has another status.
LEMMA AInvColumn == AInv => ColumnMatchesFiles
<1> SUFFICES ASSUME AInv, apc = "done" PROVE ColumnMatchesFiles
    BY DEF ColumnMatchesFiles
<1> DEFINE O == Abs!Outcome(afile, dpnFile, dpnTail)
<1>1. O = [status |-> "done",
           column |-> [lookup |-> lookup, type |-> atype, min |-> iMin,
                       max |-> iMax, dict |-> dict, packs |-> packs]]
    BY DEF AInv, InvResult, AbsResult, Terminated
<1>2. CASE ~afile.exists \/ afile.head # "ok" \/ afile.nuls < 2 \/ afile.tailLen < 8
    BY <1>1, <1>2, OutcomeHeadCrash
<1>3. CASE ~(~afile.exists \/ afile.head # "ok" \/ afile.nuls < 2 \/ afile.tailLen < 8)
    <2>1. CheckedFile(afile)
        BY <1>3, ExistingFile DEF CheckedFile, AInv, TypeOK
    <2>2. CASE afile.pfEnd # DPN!PF_END
        BY <1>1, <2>1, <2>2, OutcomeTerminatorExit
    <2>3. CASE afile.pfEnd = DPN!PF_END /\ RangedType(afile.typeByte) /\ afile.tailLen < 24
        BY <1>1, <2>1, <2>3, OutcomeRangeCrash
    <2>4. CASE afile.pfEnd = DPN!PF_END /\ ~(RangedType(afile.typeByte) /\ afile.tailLen < 24)
               /\ (dpnTail # 0 \/ Len(dpnFile) < 2)
        BY <1>1, <2>1, <2>4, OutcomeIndexExit
    <2>5. CASE afile.pfEnd = DPN!PF_END /\ ~(RangedType(afile.typeByte) /\ afile.tailLen < 24)
               /\ dpnTail = 0 /\ Len(dpnFile) >= 2
        <3>0. [lookup |-> lookup, type |-> atype, min |-> iMin,
               max |-> iMax, dict |-> dict, packs |-> packs]
              = [lookup |-> LookupBit(afile.typeByte),
                 type |-> MaskType(afile.typeByte),
                 min |-> IF RangedType(afile.typeByte) THEN afile.min ELSE None,
                 max |-> IF RangedType(afile.typeByte) THEN afile.max ELSE None,
                 dict |-> IF LookupBit(afile.typeByte) THEN afile.tailLen - 24 ELSE None,
                 packs |-> Abs!D!Decoded(dpnFile)]
            <4>1. O = [status |-> "done",
                       column |-> [lookup |-> LookupBit(afile.typeByte),
                                   type |-> MaskType(afile.typeByte),
                                   min |-> IF RangedType(afile.typeByte) THEN afile.min ELSE None,
                                   max |-> IF RangedType(afile.typeByte) THEN afile.max ELSE None,
                                   dict |-> IF LookupBit(afile.typeByte) THEN afile.tailLen - 24 ELSE None,
                                   packs |-> Abs!D!Decoded(dpnFile)]]
                BY <2>1, <2>5, OutcomeDone
            <4>2. QED
                BY <1>1, <4>1
        <3>1. /\ lookup = LookupBit(afile.typeByte)
              /\ atype = MaskType(afile.typeByte)
              /\ iMin = IF RangedType(afile.typeByte) THEN afile.min ELSE None
              /\ iMax = IF RangedType(afile.typeByte) THEN afile.max ELSE None
              /\ dict = IF LookupBit(afile.typeByte) THEN afile.tailLen - 24 ELSE None
              /\ packs = Abs!D!Decoded(dpnFile)
            BY <3>0, Zenon
        <3>2. Abs!D!Decoded(dpnFile) = DPN!Decoded(dpnFile)
            BY DEF DPN!Decoded, Abs!D!Decoded, DPN!DP, Abs!D!DP, DPN!PFSpecial, Abs!D!PFSpecial,
                   DPN!PF_NULLS_ONLY, DPN!PF_NO_OBJ, DPN!PF_NOT_KNOWN, DPN!PF_END, DPN!PF_DELETED,
                   Abs!D!PF_NULLS_ONLY, Abs!D!PF_NO_OBJ, Abs!D!PF_NOT_KNOWN, Abs!D!PF_END,
                   Abs!D!PF_DELETED
        <3>3. RangedType(afile.typeByte) <=> (lookup \/ IsNumeric(atype))
            BY <3>1, Zenon DEF RangedType
        <3>4. LookupBit(afile.typeByte) => afile.tailLen - 24 \in Nat
            BY <2>1, <2>5, ExistingFile DEF RangedType, CheckedFile
        <3>5. (dict # None) <=> lookup
            BY <3>1, <3>4, NoneAssumption
        <3>6. QED
            BY <3>1, <3>2, <3>3, <3>5 DEF ColumnMatchesFiles
    <2>6. QED
        BY <2>2, <2>3, <2>4, <2>5
<1>4. QED
    BY <1>2, <1>3

\* A column parse completes is the one its two files hold: the lookup bit
\* and type from the type byte, min and max exactly for lookup or numeric
\* columns, a dictionary exactly for lookup ones, and the packs of
\* load_dpns decoded from the index file, for files of any size.
THEOREM ColumnCorrect == Spec => []ColumnMatchesFiles
<1>1. AInv => ColumnMatchesFiles
    BY AInvColumn
<1>2. QED
    BY <1>1, AInvInit, AInvStep, PTL DEF Spec

(***************************************************************************)
(* TerminatorCheckedFirst is not inductive: a reader that has only opened *)
(* the file is not Terminated, yet must not have set min or max.  What is *)
(* kept is that a file without PF_END never gets min, max or the index    *)
(* read, terminated or not; it holds because the steps that set them run  *)
(* only at "range" and "dpns", where InvTail gives PF_END.                *)
(***************************************************************************)
NoPfEndUntouched ==
    (afile.exists /\ afile.pfEnd # DPN!PF_END) =>
        /\ iMin = None /\ iMax = None
        /\ dpnPc = "getsize"

LEMMA NoPfEndInit == Init => NoPfEndUntouched
BY DEF Init, DPN!Init, NoPfEndUntouched

LEMMA NoPfEndStep ==
    AInv /\ NoPfEndUntouched /\ [Next]_vars => NoPfEndUntouched'
<1> SUFFICES ASSUME AInv, NoPfEndUntouched, [Next]_vars
             PROVE  NoPfEndUntouched'
    OBVIOUS
<1>1. CASE ReadHeader
    BY <1>1 DEF ReadHeader, dpnVars, NoPfEndUntouched
<1>2. CASE ReadTail
    BY <1>2 DEF ReadTail, dpnVars, NoPfEndUntouched
<1>3. CASE ReadRange \/ LoadDpns \/ LoadDpnsEnd
    <2>1. apc \in {"range", "dpns"} /\ afile' = afile
        BY <1>3 DEF ReadRange, LoadDpns, LoadDpnsEnd, attrVars
    <2>2. afile.pfEnd = DPN!PF_END
        BY <2>1 DEF AInv, InvTail
    <2>. QED  BY <2>1, <2>2 DEF NoPfEndUntouched
<1>4. CASE UNCHANGED vars
    BY <1>4 DEF vars, attrVars, dpnVars, NoPfEndUntouched
<1>. QED  BY <1>1, <1>2, <1>3, <1>4 DEF Next, Parse

\* For attribute files of any size: parse rejects a file whose tail lacks
\* the -4 terminator before it reads min and max (left[8:24]) and before
\* load_dpns opens the index file; the PF_END check in ReadTail comes
\* first on every path.
THEOREM TerminatorFirstCorrect == Spec => []TerminatorCheckedFirst
<1>1. Init => AInv /\ NoPfEndUntouched
    BY AInvInit, NoPfEndInit
<1>2. AInv /\ NoPfEndUntouched /\ [Next]_vars => (AInv /\ NoPfEndUntouched)'
    BY AInvStep, NoPfEndStep
<1>3. NoPfEndUntouched => TerminatorCheckedFirst
    BY DEF NoPfEndUntouched, TerminatorCheckedFirst
<1>4. QED
    BY <1>1, <1>2, <1>3, PTL DEF Spec

(***************************************************************************)
(* Refinement: every step of parse and load_dpns is a stutter of AttrSpec  *)
(* except the one that ends parse, which is AttrSpec's Decode.             *)
(***************************************************************************)

\* No step of the reader changes the two files (nobody writes them).
LEMMA FilesUnchanged ==
    [Next]_vars => UNCHANGED <<afile, dpnFile, dpnTail>>
BY DEF Next, Parse, ReadHeader, ReadTail, ReadRange, LoadDpns, LoadDpnsEnd,
       vars, attrVars, dpnVars, DPN!Reader, DPN!GetSize, DPN!Open, DPN!ReadPack,
       DPN!ReadFragment, DPN!Finish

\* An ended parse takes no further step.
LEMMA TerminatedStutters ==
    Terminated /\ [Next]_vars => UNCHANGED vars
BY DEF Terminated, Next, Parse, ReadHeader, ReadTail, ReadRange, LoadDpns, LoadDpnsEnd

LEMMA RefineInit == Init => Abs!Init
<1> SUFFICES ASSUME Init PROVE Abs!Init
    OBVIOUS
<1>1. AbsResult = None
    BY DEF Init, AbsResult, Terminated
<1>2. QED
    BY <1>1 DEF Init, DPN!Init, DPN!Files, Abs!Init, Abs!D!Files, Abs!AttrFiles, AttrFiles

LEMMA RefineStep == AInv /\ AInv' /\ [Next]_vars => [Abs!Decode]_Abs!vars
<1> SUFFICES ASSUME AInv, AInv', [Next]_vars PROVE [Abs!Decode]_Abs!vars
    OBVIOUS
<1>1. UNCHANGED <<afile, dpnFile, dpnTail>>
    BY FilesUnchanged
<1>2. CASE Terminated
    <2>1. UNCHANGED vars
        BY <1>2, TerminatedStutters
    <2>2. AbsResult' = AbsResult
        BY <2>1 DEF vars, attrVars, dpnVars, AbsResult, Terminated
    <2>3. QED
        BY <1>1, <2>2 DEF Abs!vars
<1>3. CASE ~Terminated /\ ~Terminated'
    <2>1. AbsResult' = AbsResult
        BY <1>3 DEF AbsResult
    <2>2. QED
        BY <1>1, <2>1 DEF Abs!vars
<1>4. CASE ~Terminated /\ Terminated'
    <2>1. AbsResult = None
        BY <1>4 DEF AbsResult
    <2>2. AbsResult' = Abs!Outcome(afile, dpnFile, dpnTail)
        BY <1>1, <1>4 DEF AInv, InvResult
    <2>3. QED
        BY <1>1, <2>1, <2>2 DEF Abs!Decode
<1>5. QED
    BY <1>2, <1>3, <1>4

\* Attribute.parse with load_dpns implements the one-step reading of a
\* column: its initial states are AttrSpec's, and each of its steps leaves
\* AttrSpec's result alone or is the one Decode step that sets it to the
\* outcome of the two files (the safety part of RefinesAttrSpec).
THEOREM Refinement == Spec => Abs!Init /\ [][Abs!Decode]_Abs!vars
<1>1. Init => Abs!Init
    BY RefineInit
<1>2. AInv /\ AInv' /\ [Next]_vars => [Abs!Decode]_Abs!vars
    BY RefineStep
<1>3. QED
    BY <1>1, <1>2, AInvInit, AInvStep, PTL DEF Spec

=============================================================================
