---------------------------- MODULE MC_DPNIndex ----------------------------
(* Instances of the data-pack index reader for TLC.                        *)
EXTENDS DPNIndex

\* A real pack file, pack file 0, two sentinels and a negative number that
\* is not a sentinel.
MC_FileNos == {-6, PF_NULLS_ONLY, PF_DELETED, 0, 7}

\* Up to five records: the two reserved ones and three ordinary packs.
MC_MaxRecords == 5

\* A clean file, and one ending in a 5-byte fragment.
MC_TailLens == {0, 5}

=============================================================================
