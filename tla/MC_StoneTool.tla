---------------------------- MODULE MC_StoneTool ----------------------------
(* Instances of the whole tool for TLC.                                    *)
EXTENDS StoneTool

\* Table.ctb: a good header with no, one or three attributes, every set of
\* active flags, and at most the 10-byte table-number block.
MC_TableHeads == {"ok"}
MC_AttrCounts == {0, 1, 3}
MC_BlkLens == {10}
MC_TabNums == {7}
MC_MaxChain == 1
MC_Slacks == {0}
MC_MaxBlocks == 2
MC_MaxAttr == 3

MC_AttrHeads == {"ok"}
MC_TypeBytes == {2, 128, 130, 255}
MC_TailLens == {8, 24, 30}
MC_PfEnds == {-4}
MC_Vals == {0, 999}
MC_FileNos == {-1, 7}
MC_MaxRecords == 3
MC_DpnTailLens == {0}

\* A lookup INT column with range 0..999 and a dictionary (spec.md section
\* 8), a numeric INT column, a non-lookup STRING column, a column of type byte 255, and a slot whose
\* files are gone.
MC_LookupCol ==
    [attr |-> [exists |-> TRUE, head |-> "ok", typeByte |-> 2, nuls |-> 2, tailLen |-> 30,
               pfEnd |-> -4, min |-> 0, max |-> 999],
     dpn |-> <<7, -1, 7>>, tail |-> 0]
MC_NumericCol ==
    [attr |-> [exists |-> TRUE, head |-> "ok", typeByte |-> 130, nuls |-> 2, tailLen |-> 24,
               pfEnd |-> -4, min |-> 999, max |-> 999],
     dpn |-> <<-1, 7>>, tail |-> 0]
MC_UnknownCol ==
    [attr |-> [exists |-> TRUE, head |-> "ok", typeByte |-> 255, nuls |-> 2, tailLen |-> 8,
               pfEnd |-> -4, min |-> 0, max |-> 0],
     dpn |-> <<7, 7>>, tail |-> 0]
MC_TextCol ==
    [attr |-> [exists |-> TRUE, head |-> "ok", typeByte |-> 128, nuls |-> 2, tailLen |-> 8,
               pfEnd |-> -4, min |-> 0, max |-> 0],
     dpn |-> <<-1, 7>>, tail |-> 0]
MC_MissingCol == [attr |-> [exists |-> FALSE], dpn |-> <<>>, tail |-> 0]

MC_SlotFiles == {MC_LookupCol, MC_NumericCol, MC_TextCol, MC_UnknownCol, MC_MissingCol}
MC_Configs == {"datadir", "missing"}

=============================================================================
