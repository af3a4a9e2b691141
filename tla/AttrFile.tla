------------------------------ MODULE AttrFile ------------------------------
(***************************************************************************)
(* The attribute-metadata reader of scripts/stonedb_tool.py: Attribute's   *)
(* constructor and Attribute.parse, which ends by calling load_dpns (the   *)
(* DPNIndex reader, composed here by INSTANCE).  It opens TA<n>.ctb,       *)
(* checks the "RS10" tag, decodes the type byte (bit 0x80 clear means     *)
(* lookup), reads the fixed header, splits the rest on NUL into name,     *)
(* description and tail, reads the pack-file count, checks PF_END, reads  *)
(* min and max for lookup or numeric columns and keeps the dictionary     *)
(* bytes of a lookup column.                                               *)
(*                                                                         *)
(* The file is abstracted to: whether it exists, whether the tag is right *)
(* and the fixed header complete, the type byte, the number of NULs after *)
(* the header, and the tail as its length in bytes, the value where PF_END *)
(* belongs and the min and max values.                                     *)
(***************************************************************************)
EXTENDS Integers, Sequences, AttrType

CONSTANTS
    Heads,        \* kinds of file head: "ok", "bad_tag", "short"
    TypeBytes,    \* values of the type byte
    TailLens,     \* byte lengths of the tail after the second NUL
    PfEnds,       \* values found where PF_END belongs
    Vals,         \* values of i_min and i_max
    FileNos,      \* for the index reader: pack-file numbers
    MaxRecords,   \* for the index reader: bound on its records
    DpnTailLens,  \* for the index reader: trailing fragment lengths
    None          \* an attribute field not (yet) set

ASSUME HeadsAssumption == Heads \subseteq {"ok", "bad_tag", "short"}
ASSUME TypeBytesAssumption == TypeBytes \subseteq 0..255
ASSUME TailLensAssumption == TailLens \subseteq Nat
ASSUME PfEndsAssumption == PfEnds \subseteq Int
ASSUME ValsAssumption == Vals \subseteq Nat
ASSUME NoneAssumption == None \notin Nat

VARIABLES
    afile,      \* TA<n>.ctb
    apc,        \* where Attribute.parse is
    lookup,     \* self.lookup
    atype,      \* self.type (after masking off bit 0x80)
    iMin,       \* self.i_min
    iMax,       \* self.i_max
    dict,       \* self.dict, as its length in bytes
    dpnFile, dpnTail, dpnPc, noDpns, pos, dpNo, packs, lastPackA, lastPackB

\* The data-pack index reader, started by parse; nobody writes the files.
DPN == INSTANCE DPNIndex
        WITH TailLens <- DpnTailLens, LiveWriter <- FALSE, pc <- dpnPc

\* The index reader's assumptions, for the constants given to it.
ASSUME DpnAssumption ==
    /\ FileNos \subseteq Int
    /\ MaxRecords \in Nat
    /\ DpnTailLens \subseteq 0..(DPN!DPN_PACK_SIZE - 1)
    /\ None \notin [no : Int, file_no : Int, has_file : BOOLEAN]

AttrFiles ==
    [exists : {FALSE}]
    \cup
    [exists : {TRUE}, head : Heads, typeByte : TypeBytes, nuls : 0..2,
     tailLen : TailLens, pfEnd : PfEnds, min : Vals, max : Vals]

attrVars == <<afile, apc, lookup, atype, iMin, iMax, dict>>
dpnVars == <<dpnFile, dpnTail, dpnPc, noDpns, pos, dpNo, packs, lastPackA, lastPackB>>
vars == <<attrVars, dpnVars>>

Init ==
    /\ afile \in AttrFiles
    /\ apc = "open"
    /\ lookup = FALSE
    /\ atype = 0
    /\ iMin = None
    /\ iMax = None
    /\ dict = None
    /\ DPN!Init

\* Mutant of ReadHeader: the lookup test reversed ((type & 0x80) != 0).
ReadHeaderLookupInverted ==
    /\ apc = "open"
    /\ apc' = IF ~afile.exists \/ afile.head # "ok" THEN "crash" ELSE "split"
    /\ lookup' = (afile.exists /\ afile.head = "ok" /\ ~LookupBit(afile.typeByte))
    /\ atype' = IF afile.exists /\ afile.head = "ok" THEN MaskType(afile.typeByte) ELSE atype
    /\ UNCHANGED <<afile, iMin, iMax, dict, dpnVars>>

\* open(self.file): IOError on a missing file; the tag check, whose message
\* names 'attr', which parse does not define (NameError); the header reads,
\* where struct.unpack raises on a file that ends inside them.
ReadHeader ==
    /\ apc = "open"
    /\ apc' = IF ~afile.exists \/ afile.head # "ok" THEN "crash" ELSE "split"
    /\ lookup' = (afile.exists /\ afile.head = "ok" /\ LookupBit(afile.typeByte))
    /\ atype' = IF afile.exists /\ afile.head = "ok" THEN MaskType(afile.typeByte) ELSE atype
    /\ UNCHANGED <<afile, iMin, iMax, dict, dpnVars>>

\* Mutant of ReadTail: the PF_END check is left out.
ReadTailNoPfEnd ==
    /\ apc = "split"
    /\ apc' = IF afile.nuls < 2 \/ afile.tailLen < 8 THEN "crash" ELSE "range"
    /\ UNCHANGED <<afile, lookup, atype, iMin, iMax, dict, dpnVars>>

\* string.split(rest, '\0', 2), then total_pack_files = left[:4] and the
\* PF_END check on left[4:8]: IndexError without two NULs, struct.error on
\* a tail too short for either, a clean exit when PF_END is not -4.
ReadTail ==
    /\ apc = "split"
    /\ apc' = IF afile.nuls < 2 \/ afile.tailLen < 8 THEN "crash"
              ELSE IF afile.pfEnd # DPN!PF_END THEN "exit"
              ELSE "range"
    /\ UNCHANGED <<afile, lookup, atype, iMin, iMax, dict, dpnVars>>

\* Mutant of ReadRange: min and max only for columns both lookup and numeric.
ReadRangeAnd ==
    /\ apc = "range"
    /\ IF (lookup /\ IsNumeric(atype)) /\ afile.tailLen < 24
         THEN /\ apc' = "crash"
              /\ UNCHANGED <<iMin, iMax, dict>>
         ELSE /\ apc' = "dpns"
              /\ iMin' = IF lookup /\ IsNumeric(atype) THEN afile.min ELSE None
              /\ iMax' = IF lookup /\ IsNumeric(atype) THEN afile.max ELSE None
              /\ dict' = IF lookup THEN afile.tailLen - 24 ELSE None
    /\ UNCHANGED <<afile, lookup, atype, dpnVars>>

\* min and max from left[8:16] and left[16:24] for a lookup or numeric
\* column, then the dictionary left[24:] of a lookup column.
ReadRange ==
    /\ apc = "range"
    /\ IF (lookup \/ IsNumeric(atype)) /\ afile.tailLen < 24
         THEN /\ apc' = "crash"
              /\ UNCHANGED <<iMin, iMax, dict>>
         ELSE /\ apc' = "dpns"
              /\ iMin' = IF lookup \/ IsNumeric(atype) THEN afile.min ELSE None
              /\ iMax' = IF lookup \/ IsNumeric(atype) THEN afile.max ELSE None
              /\ dict' = IF lookup THEN afile.tailLen - 24 ELSE None
    /\ UNCHANGED <<afile, lookup, atype, dpnVars>>

\* self.load_dpns(): one step of the index reader.
LoadDpns ==
    /\ apc = "dpns"
    /\ DPN!Reader
    /\ UNCHANGED attrVars

\* load_dpns returns, or has left through sys.exit or an exception.
LoadDpnsEnd ==
    /\ apc = "dpns"
    /\ dpnPc \in {"done", "error", "crash"}
    /\ apc' = CASE dpnPc = "done"  -> "done"
                [] dpnPc = "error" -> "exit"
                [] OTHER           -> "crash"
    /\ UNCHANGED <<afile, lookup, atype, iMin, iMax, dict, dpnVars>>

Parse == ReadHeader \/ ReadTail \/ ReadRange \/ LoadDpns \/ LoadDpnsEnd

Next == Parse

\* One synchronous process: its steps are weakly fair.
Spec == Init /\ [][Next]_vars /\ WF_vars(Parse)

(***************************************************************************)
(* Properties.                                                             *)
(***************************************************************************)

Terminated == apc \in {"done", "exit", "crash"}

\* Type invariant.
TypeOK ==
    /\ afile \in AttrFiles
    /\ apc \in {"open", "split", "range", "dpns", "done", "exit", "crash"}
    /\ lookup \in BOOLEAN
    /\ atype \in 0..127
    /\ iMin \in Vals \cup {None}
    /\ iMax \in Vals \cup {None}
    /\ dict \in Nat \cup {None}
    /\ DPN!TypeOK

\* A column that parsed completely reports what its two files hold: the
\* lookup bit and the type from the type byte, min and max exactly when
\* the column is lookup or numeric, a dictionary exactly when it is lookup,
\* and the two-slot decoding of its index file (spec.md section 8's lookup
\* and numeric scenarios).
ColumnMatchesFiles ==
    apc = "done" =>
        /\ lookup = LookupBit(afile.typeByte)
        /\ atype = MaskType(afile.typeByte)
        /\ IF lookup \/ IsNumeric(atype)
             THEN iMin = afile.min /\ iMax = afile.max
             ELSE iMin = None /\ iMax = None
        /\ (dict # None) <=> lookup
        /\ packs = DPN!Decoded(dpnFile)

\* spec.md section 8: a file whose terminator is not -4 is rejected without
\* reading min and max, and without touching the index file.
TerminatorCheckedFirst ==
    (Terminated /\ afile.exists /\ afile.pfEnd # DPN!PF_END) =>
        /\ iMin = None /\ iMax = None
        /\ dpnPc = "getsize"

\* The refinement mapping: the abstract result appears when parse has ended.
AbsResult ==
    IF Terminated
      THEN [status |-> apc,
            column |-> IF apc = "done"
                         THEN [lookup |-> lookup, type |-> atype, min |-> iMin,
                               max |-> iMax, dict |-> dict, packs |-> packs]
                         ELSE None]
      ELSE None

Abs == INSTANCE AttrSpec WITH result <- AbsResult

\* Attribute.parse implements reading a column in one step: it ends, and
\* with the outcome and the column AttrSpec computes from the two files
\* (no step reports a result early, none changes it afterwards).
RefinesAttrSpec == Abs!Spec

(***************************************************************************)
(* What spec.md says of the reader, checked against Attribute.parse.       *)
(***************************************************************************)

\* spec.md section 4.2: a wrong format tag fails with a format error: the
\* tool prints which attribute file is bad and exits 1.
BadTagExitsCleanly ==
    (Terminated /\ afile.exists /\ afile.head = "bad_tag") => apc = "exit"

=============================================================================
