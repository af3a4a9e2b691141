---------------------------- MODULE MC_AttrFile ----------------------------
(* Instances of the attribute-metadata reader for TLC.                     *)
EXTENDS AttrFile

MC_Heads == {"ok", "bad_tag", "short"}

\* STRING as lookup and as text, INT with bit 0x80 clear and set, type 21
\* (named UNKNOWN), and 255 (RC_UNKNOWN, masked to 127).
MC_TypeBytes == {0, 128, 2, 130, 149, 255}

\* Too short for PF_END, just PF_END, min/max with no dictionary, min/max
\* and a 6-byte dictionary.
MC_TailLens == {4, 8, 24, 30}

MC_PfEnds == {-4, 0}

MC_Vals == {0, 999}

\* A real pack file and the nulls-only sentinel; up to one ordinary pack.
MC_FileNos == {-1, 7}

MC_MaxRecords == 3

MC_DpnTailLens == {0, 5}

=============================================================================
