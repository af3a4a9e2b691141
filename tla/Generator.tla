----------------------------- MODULE Generator -----------------------------
(***************************************************************************)
(* main() of tool/generate_mysql_record.py and of                          *)
(* tool/generate_stonedb_record.py.  Both read the columns of a table,    *)
(* generate recordnum rows with keys beginid, beginid + 1, ... and hand   *)
(* them to the database: the mysql script with an INSERT every BatchSize *)
(* rows and one for the rest, the stonedb script by writing a CSV file   *)
(* that LOAD DATA then reads.  Which script runs, the table, the count   *)
(* and the first key are chosen once in Init.                             *)
(***************************************************************************)
EXTENDS GenRecord

CONSTANTS
    Tables,         \* the column lists desc / show create table may print
    RecordNums,     \* values of argv[2]
    Begins,         \* values of argv[3]
    BatchSize,      \* the 1000 of num % 1000 == 0
    NaN             \* an argument int() rejects

ASSUME GenBoundsAssumption ==
    /\ RecordNums \cup Begins \subseteq Nat
    /\ NaN \notin Int
    /\ BatchSize \in Nat \ {0}

\* A table is the list of its column lines, each split into the fields
\* generate_record reads.
ASSUME TablesAssumption ==
    Tables \subseteq Seq([name : ColumnNames, base : Bases, lookup : BOOLEAN,
                          width : Int \cup {NoParen, NotInt}])

VARIABLES
    script,     \* "mysql" or "stonedb"
    conn,       \* the module-level MySQLdb.connect succeeded (mysql only)
    pc,
    fields,     \* table_field_list
    total,      \* int(recordnum), or NaN
    begin,      \* int(argv[3])
    num,        \* rows generated
    buf,        \* mysql: the rows of values not yet inserted
    out,        \* mysql: rows passed to insert_record; stonedb: rows written
    sizes,      \* mysql: the number of rows of each insert_record call
    fdOpen,     \* stonedb: fd is bound (open() returned)
    loaded      \* stonedb: the LOAD DATA command ran over the file

vars == <<script, conn, pc, fields, total, begin, num, buf, out, sizes,
          fdOpen, loaded>>

Terminal == {"usage", "done", "error", "traceback"}

Init ==
    /\ script \in {"mysql", "stonedb"}
    \* lines 23-28: a failed connect is printed and the script goes on
    /\ conn \in IF script = "mysql" THEN BOOLEAN ELSE {FALSE}
    /\ pc = "main"
    /\ fields = <<>>
    /\ total = 0
    /\ begin = 0
    /\ num = 0
    /\ buf = <<>>
    /\ out = <<>>
    /\ sizes = <<>>
    /\ fdOpen = FALSE
    /\ loaded = FALSE

\* The except clause of main: the mysql script calls cur.close(), the
\* stonedb script fd.close(); either raises NameError / UnboundLocalError
\* out of main when the name was never bound.
Handler ==
    IF (script = "mysql" /\ ~conn) \/ (script = "stonedb" /\ ~fdOpen)
    THEN "traceback" ELSE "error"

\* len(sys.argv) != 4: print the usage and return None.
Usage ==
    /\ pc = "main"
    /\ pc' = "usage"
    /\ UNCHANGED <<script, conn, fields, total, begin, num, buf, out, sizes,
                   fdOpen, loaded>>

\* int(sys.argv[3]) raises before anything else happens.
BadBegin ==
    /\ pc = "main"
    /\ pc' = Handler
    /\ UNCHANGED <<script, conn, fields, total, begin, num, buf, out, sizes,
                   fdOpen, loaded>>

\* The tables a script can read: desc prints one row per column, while
\* show create table also prints the key lines.
TablesOf(s) ==
    IF s = "mysql" THEN {t \in Tables : \A i \in 1..Len(t) : t[i].base # "key"}
    ELSE Tables

\* Parse beginid, run desc / show create table and keep the lines between
\* the header and the last one; the stonedb script then opens the CSV.
ReadTable ==
    /\ pc = "main"
    /\ \E t \in TablesOf(script), n \in RecordNums \cup {NaN}, b \in Begins :
        /\ fields' = t
        /\ total' = n
        /\ begin' = b
    /\ pc' = IF script = "stonedb" THEN "open" ELSE "loop"
    /\ UNCHANGED <<script, conn, num, buf, out, sizes, fdOpen, loaded>>

\* fd = open(file_name, "w"), which may raise IOError.
Open ==
    /\ pc = "open"
    /\ \/ /\ fdOpen' = TRUE
          /\ pc' = "loop"
       \/ /\ pc' = "traceback"
          /\ UNCHANGED fdOpen
    /\ UNCHANGED <<script, conn, fields, total, begin, num, buf, out, sizes,
                   loaded>>

\* range(int(recordnum)) raises ValueError.
BadCount ==
    /\ pc = "loop"
    /\ total = NaN
    /\ pc' = Handler
    /\ UNCHANGED <<script, conn, fields, total, begin, num, buf, out, sizes,
                   fdOpen, loaded>>

\* generate_record(i + beginid) raised: the rows in values are dropped.
GenerateFails ==
    /\ pc = "loop"
    /\ total \in Nat /\ num < total
    /\ GenerateRecord(script, fields, begin + num) = Crash
    /\ pc' = Handler
    /\ UNCHANGED <<script, conn, fields, total, begin, num, buf, out, sizes,
                   fdOpen, loaded>>

\* Mutant: values is not cleared after the batch insert.
GenerateMysqlNoReset ==
    LET rec == GenerateRecord(script, fields, begin + num) IN
    /\ pc = "loop" /\ script = "mysql"
    /\ total \in Nat /\ num < total
    /\ rec # Crash
    /\ num' = num + 1
    /\ IF (num + 1) % BatchSize = 0
       THEN /\ out' = out \o buf \o <<rec>>
            /\ sizes' = Append(sizes, Len(buf) + 1)
            /\ buf' = Append(buf, rec)
       ELSE /\ buf' = Append(buf, rec)
            /\ UNCHANGED <<out, sizes>>
    /\ UNCHANGED <<script, conn, pc, fields, total, begin, fdOpen, loaded>>

\* One turn of the mysql loop: append the row to values and, on every
\* BatchSize-th row, insert values (without its trailing comma) and clear
\* it.  insert_record swallows any exception, so the call is the effect.
GenerateMysql ==
    LET rec == GenerateRecord(script, fields, begin + num) IN
    /\ pc = "loop" /\ script = "mysql"
    /\ total \in Nat /\ num < total
    /\ rec # Crash
    /\ num' = num + 1
    /\ IF (num + 1) % BatchSize = 0
       THEN /\ out' = out \o buf \o <<rec>>
            /\ sizes' = Append(sizes, Len(buf) + 1)
            /\ buf' = <<>>
       ELSE /\ buf' = Append(buf, rec)
            /\ UNCHANGED <<out, sizes>>
    /\ UNCHANGED <<script, conn, pc, fields, total, begin, fdOpen, loaded>>

\* One turn of the stonedb loop: fd.write(record); the flush every 1000
\* rows does not change what the closed file holds.
GenerateStone ==
    LET rec == GenerateRecord(script, fields, begin + num) IN
    /\ pc = "loop" /\ script = "stonedb"
    /\ total \in Nat /\ num < total
    /\ rec # Crash
    /\ num' = num + 1
    /\ out' = Append(out, rec)
    /\ UNCHANGED <<script, conn, pc, fields, total, begin, buf, sizes,
                   fdOpen, loaded>>

\* Mutant: the rest is inserted without the len(values) > 1 test.
FinishMysqlAlwaysInsert ==
    /\ pc = "loop" /\ script = "mysql"
    /\ total \in Nat /\ num = total
    /\ out' = out \o buf
    /\ sizes' = Append(sizes, Len(buf))
    /\ buf' = <<>>
    /\ pc' = IF conn THEN "done" ELSE "traceback"
    /\ UNCHANGED <<script, conn, fields, total, begin, num, fdOpen, loaded>>

\* After the loop (mysql): if len(values) > 1 insert the rest, then
\* cur.close(); conn.close(), which raise NameError when connect failed.
FinishMysql ==
    /\ pc = "loop" /\ script = "mysql"
    /\ total \in Nat /\ num = total
    /\ IF buf # <<>>
       THEN /\ out' = out \o buf
            /\ sizes' = Append(sizes, Len(buf))
       ELSE UNCHANGED <<out, sizes>>
    /\ buf' = <<>>
    /\ pc' = IF conn THEN "done" ELSE "traceback"
    /\ UNCHANGED <<script, conn, fields, total, begin, num, fdOpen, loaded>>

\* After the loop (stonedb): fd.close(), create the result table, count
\* the rows with select count(*) and LOAD DATA the file.  os.popen never
\* raises; a failed select prints nothing, and selectresult[1] raises
\* IndexError before the LOAD DATA command is built.
FinishStone ==
    /\ pc = "loop" /\ script = "stonedb"
    /\ total \in Nat /\ num = total
    /\ \/ /\ loaded' = TRUE
          /\ pc' = "done"
       \/ /\ pc' = Handler
          /\ UNCHANGED loaded
    /\ UNCHANGED <<script, conn, fields, total, begin, num, buf, out, sizes,
                   fdOpen>>

Next ==
    \/ Usage \/ BadBegin \/ ReadTable \/ Open \/ BadCount
    \/ GenerateFails \/ GenerateMysql \/ GenerateStone
    \/ FinishMysql \/ FinishStone

\* Both scripts run to completion on their own: no fairness is needed for
\* the safety properties below.
Spec == Init /\ [][Next]_vars

-----------------------------------------------------------------------------

\* Type invariant; in particular every insert_record call carries between
\* one and BatchSize rows (the len(values) > 1 test skips an empty one).
TypeOK ==
    /\ script \in {"mysql", "stonedb"}
    /\ conn \in BOOLEAN
    /\ pc \in {"main", "open", "loop"} \cup Terminal
    /\ fields \in Tables \cup {<<>>}
    /\ total \in RecordNums \cup {0, NaN}
    /\ begin \in Begins \cup {0}
    /\ num \in Nat
    /\ buf \in Seq(Seq(Values))
    /\ out \in Seq(Seq(Values))
    /\ sizes \in Seq(1..BatchSize)
    /\ fdOpen \in BOOLEAN
    /\ loaded \in BOOLEAN

\* The rows the loop has produced so far: rows for keys begin .. begin +
\* num - 1, in that order.
Generated == [j \in 1..num |-> GenerateRecord(script, fields, begin + j - 1)]

\* Every generated row reaches the database exactly once and in key order:
\* the mysql script hands each row to exactly one insert_record call, every
\* call but the last carries BatchSize rows, and a run that finishes has
\* inserted the remainder too; the stonedb script writes every row once to
\* the CSV and runs LOAD DATA on it before it reports success.
DeliveredExactlyOnce ==
    /\ out \o buf = Generated
    /\ \A i \in 1..Len(sizes) : i < Len(sizes) => sizes[i] = BatchSize
    /\ pc = "done" => /\ num = total
                      /\ buf = <<>>
                      /\ script = "stonedb" => loaded

\* A key column: an int column named id, which both scripts fill with the
\* key passed to generate_record.
KeyColumn(c) == c.name = "id" /\ c.base = "int"

\* Every row produced has exactly one value per column of the table, in
\* column order, so the INSERT or LOAD DATA lines up with the table, and
\* the key column of the j-th row holds key begin + j - 1.
RecordsMatchColumns ==
    \A j \in 1..Len(out \o buf) :
        LET r == (out \o buf)[j] IN
        /\ Len(r) = Len(fields)
        /\ \A c \in 1..Len(fields) :
              KeyColumn(fields[c]) => r[c] = Key(begin + j - 1)

=============================================================================
