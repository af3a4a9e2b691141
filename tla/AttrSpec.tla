------------------------------ MODULE AttrSpec ------------------------------
(***************************************************************************)
(* What reading one column promises, as a single step: from TA<n>.ctb and  *)
(* TA<n>DPN.ctb to the outcome of Attribute(...) (a column, a clean exit,  *)
(* or an exception) and, for a column, the fields the reporter uses.  The *)
(* step-by-step reader AttrFile implements this specification (see         *)
(* AttrFile's RefinesAttrSpec).                                            *)
(***************************************************************************)
EXTENDS Integers, Sequences, AttrType

CONSTANTS Heads, TypeBytes, TailLens, PfEnds, Vals, FileNos, MaxRecords,
          DpnTailLens, None

VARIABLES afile, dpnFile, dpnTail, result

\* The index-file format of DPNIndex, with no reader running.
D == INSTANCE DPNIndex
        WITH TailLens <- DpnTailLens, LiveWriter <- FALSE, pc <- "getsize",
             noDpns <- 0, pos <- 1, dpNo <- 0, packs <- <<>>,
             lastPackA <- None, lastPackB <- None

AttrFiles ==
    [exists : {FALSE}]
    \cup
    [exists : {TRUE}, head : Heads, typeByte : TypeBytes, nuls : 0..2,
     tailLen : TailLens, pfEnd : PfEnds, min : Vals, max : Vals]

\* A parsed column: lookup flag, type, i_min, i_max, the dictionary length
\* and the packs.
Column(lk, ty, mn, mx, dc, pk) ==
    [lookup |-> lk, type |-> ty, min |-> mn, max |-> mx, dict |-> dc, packs |-> pk]

Result(status, col) == [status |-> status, column |-> col]

\* The outcome of parsing column file f with index file d (trailing
\* fragment t): the format errors first, in the order the file is read,
\* then the index file's size checks.
Outcome(f, d, t) ==
    LET lk     == LookupBit(f.typeByte)
        ty     == MaskType(f.typeByte)
        ranged == lk \/ IsNumeric(ty)
    IN  IF ~f.exists \/ f.head # "ok" \/ f.nuls < 2 \/ f.tailLen < 8
          THEN Result("crash", None)
        ELSE IF f.pfEnd # D!PF_END THEN Result("exit", None)
        ELSE IF ranged /\ f.tailLen < 24 THEN Result("crash", None)
        ELSE IF t # 0 \/ Len(d) < 2 THEN Result("exit", None)
        ELSE Result("done",
                    Column(lk, ty,
                           IF ranged THEN f.min ELSE None,
                           IF ranged THEN f.max ELSE None,
                           IF lk THEN f.tailLen - 24 ELSE None,
                           D!Decoded(d)))

vars == <<afile, dpnFile, dpnTail, result>>

Init ==
    /\ afile \in AttrFiles
    /\ dpnFile \in D!Files
    /\ dpnTail \in DpnTailLens
    /\ result = None

\* Attribute(owner, no): the column is read in one step.
Decode ==
    /\ result = None
    /\ result' = Outcome(afile, dpnFile, dpnTail)
    /\ UNCHANGED <<afile, dpnFile, dpnTail>>

Spec == Init /\ [][Decode]_vars /\ WF_vars(Decode)

=============================================================================
