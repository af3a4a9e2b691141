------------------------------ MODULE AttrType ------------------------------
(***************************************************************************)
(* The column types of scripts/stonedb_tool.py: the RC_ codes, the type    *)
(* byte's lookup bit, and AttrType.name and AttrType.is_numeric.           *)
(***************************************************************************)
EXTENDS Integers, Sequences

\* AttrType.is_numeric: BIGINT, BYTEINT, DATE, DATETIME, DATETIME_N, FLOAT,
\* INT, MEDIUMINT, NUM, REAL, SMALLINT, TIME, TIMESTAMP, TIMESTAMP_N,
\* TIME_N and YEAR, by their RC_ codes.
NumericTypes == {20, 6, 4, 12, 14, 17, 2, 19, 3, 11, 7, 5, 13, 15, 16, 18}

IsNumeric(t) == t \in NumericTypes

\* RC_TYPES: the names AttrType.name indexes, STRING (0) to UNKNOWN (21).
RC_TYPES ==
    <<"STRING", "VARCHAR", "INT", "NUM", "DATE", "TIME", "BYTEINT", "SMALLINT",
      "BIN", "BYTE", "VARBYTE", "REAL", "DATETIME", "TIMESTAMP", "DATETIME_N",
      "TIMESTAMP_N", "TIME_N", "FLOAT", "YEAR", "MEDIUMINT", "BIGINT", "UNKNOWN">>

\* The types AttrType.name can name: RC_TYPES[self.type] raises IndexError
\* for any other.
Nameable(t) == t \in 0..(Len(RC_TYPES) - 1)

\* (type & 0x80) == 0: the column is lookup (dictionary) encoded.
LookupBit(b) == (b \div 128) % 2 = 0

\* Mutant of MaskType: type &= 0x80 in place of type &= ~0x80.
MaskTypeKeepsBit(b) == ((b \div 128) % 2) * 128

\* type &= ~0x80, for a type byte 0..255.
MaskType(b) == b % 128

=============================================================================
