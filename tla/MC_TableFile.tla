---------------------------- MODULE MC_TableFile ----------------------------
(* Instances of the table-descriptor reader for TLC.                       *)
EXTENDS TableFile

MC_Heads == {"ok", "bad_ident", "bad_format", "short"}

\* A negative count, no attribute, two attributes.
MC_AttrCounts == {-1, 0, 2}

\* A negative and a zero length (corrupt), a length below the header, the
\* 10-byte table-number block, and a longer block.
MC_BlkLens == {-6, 0, 4, 10, 16}

MC_TabNums == {7, 8}

MC_MaxChain == 2

MC_Slacks == {0, 3}

\* The longest chain written is 32 bytes plus 3 stray bytes; the smallest
\* positive length is 4, so a terminating loop turns at most 9 times.
MC_MaxBlocks == 10

=============================================================================
