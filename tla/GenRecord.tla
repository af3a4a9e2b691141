----------------------------- MODULE GenRecord -----------------------------
(***************************************************************************)
(* generate_record of the load-test data generators under tool/: the     *)
(* value each column of the target table gets in one generated row.       *)
(* A column is abstracted to what the code looks at: its name, the words  *)
(* its type text contains (the code tests them with str.find), whether it *)
(* is a lookup column, and what int(t.split('(')[1].split(')')[0]) makes  *)
(* of its width.  A value is abstracted to where it comes from: the row's *)
(* key, a random number or string, the clock, a date id, an address or a  *)
(* lookup string.  Any exception aborts the row: Crash.                    *)
(***************************************************************************)
EXTENDS Integers, Sequences

CONSTANTS
    ColumnNames,    \* the column names the tables of a run use
    IpNames,        \* those whose lower() contains 'ip'
    NoParen,        \* a type text without '(' : split('(')[1] raises IndexError
    NotInt,         \* a width int() rejects, as in decimal(10,2): ValueError
    Crash           \* generate_record raised

ASSUME GenAssumption ==
    /\ IpNames \subseteq ColumnNames
    /\ {"id", "date_id"} \subseteq ColumnNames \ IpNames
    /\ {NoParen, NotInt} \cap Int = {}

\* The type a column declares.  "key" is a PRIMARY KEY / KEY line of the
\* show create table output, which the stonedb script splits like a column.
Bases == {"bigint", "int", "varchar", "char", "date", "datetime",
          "timestamp", "decimal", "text", "key"}

\* The words of the type text that field_type.find(w) >= 0 detects.
TypeWords ==
    [b \in Bases |->
        CASE b = "bigint"   -> {"bigint", "int"}
          [] b = "int"      -> {"int"}
          [] b = "varchar"  -> {"varchar"}
          [] b \in {"date", "datetime"} -> {"date"}
          [] b = "timestamp" -> {"timestamp"}
          [] OTHER          -> {}]

Mentions(c, w) == w \in TypeWords[c.base] \/ (w = "lookup" /\ c.lookup)

\* int(field_type.split('(')[1].split(')')[0]) succeeded.
HasWidth(c) == c.width \in Int

Key(k) == <<"Key", k>>
From(tag) == <<tag, 0>>
Values == ({"Key"} \X Int) \cup ({"DateId", "Rand", "Now", "Ip", "Lookup"} \X {0})

(***************************************************************************)
(* generate_mysql_record.py: one value per column of desc's output.       *)
(***************************************************************************)
MysqlValue(c, k) ==
    CASE Mentions(c, "int") ->
            IF c.name = "id" THEN <<Key(k)>>
            ELSE IF c.name = "date_id" THEN <<From("DateId")>>
            ELSE <<From("Rand")>>
      [] Mentions(c, "varchar") ->
            IF ~HasWidth(c) THEN Crash
            ELSE IF c.name = "date_id" THEN <<From("DateId")>>
            \* random_int(1, length) raises ValueError on an empty range
            ELSE IF c.width < 1 THEN Crash
            ELSE <<From("Rand")>>
      [] OTHER ->
            IF ~HasWidth(c) THEN Crash
            ELSE IF c.name = "date_id" THEN <<From("DateId")>>
            ELSE <<From("Rand")>>

\* Mutant: the date branch appends nothing, as generate_stonedb_gaode.py
\* does for a date column not named d_datetime.
StoneValueSkipDate(c, k) ==
    IF Mentions(c, "bigint") THEN
        IF c.name \in {"_version", "version", "id"} THEN <<From("Now")>>
        ELSE <<From("Rand")>>
    ELSE IF Mentions(c, "int") THEN
        IF c.name = "id" THEN <<Key(k)>> ELSE <<From("Rand")>>
    ELSE IF Mentions(c, "date") THEN <<>>
    ELSE IF HasWidth(c) THEN <<From("Rand")>> ELSE Crash

(***************************************************************************)
(* generate_stonedb_record.py: one value per line of show create table.   *)
(* An if/elif chain: the first test that holds decides (a bigint type     *)
(* also contains 'int', an address column may also be a lookup one).      *)
(***************************************************************************)
StoneValue(c, k) ==
    IF Mentions(c, "bigint") THEN
        IF c.name \in {"_version", "version", "id"} THEN <<From("Now")>>
        ELSE <<From("Rand")>>
    ELSE IF Mentions(c, "int") THEN
        IF c.name = "id" THEN <<Key(k)>> ELSE <<From("Rand")>>
    ELSE IF Mentions(c, "varchar") THEN
        IF ~HasWidth(c) THEN Crash
        ELSE LET length == IF c.width > 10000 THEN 800 ELSE c.width
             IN IF Mentions(c, "lookup") THEN <<From("Lookup")>>
                ELSE IF c.name \in IpNames THEN <<From("Ip")>>
                ELSE IF length > 100 THEN <<From("Rand")>>
                \* random_int(3, length): ValueError below 3
                ELSE IF length < 3 THEN Crash
                ELSE <<From("Rand")>>
    ELSE IF Mentions(c, "date") \/ Mentions(c, "timestamp") THEN <<From("Now")>>
    ELSE IF ~HasWidth(c) THEN Crash
    ELSE IF Mentions(c, "lookup") THEN <<From("Lookup")>>
    ELSE <<From("Rand")>>

\* The loop over table_field_list: each column appends its value, and the
\* first exception abandons the row.  row[i] is the row after i columns.
GenerateRecord(script, fields, k) ==
    LET value(c) == IF script = "mysql" THEN MysqlValue(c, k) ELSE StoneValue(c, k)
        row[i \in 0..Len(fields)] ==
            IF i = 0 THEN <<>>
            ELSE IF row[i - 1] = Crash \/ value(fields[i]) = Crash THEN Crash
            ELSE row[i - 1] \o value(fields[i])
    IN row[Len(fields)]

=============================================================================
