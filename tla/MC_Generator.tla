---------------------------- MODULE MC_Generator ----------------------------
EXTENDS Generator

\* Columns: the names of the code's special cases and one ordinary name.
MC_ColumnNames == {"id", "date_id", "client_ip", "other"}
MC_IpNames == {"client_ip"}

Col(n, b, l, w) == [name |-> n, base |-> b, lookup |-> l, width |-> w]

\* Tables on which each branch of both scripts is taken, and on which each
\* script fails on a column the other one fills.
MC_Tables ==
    { <<Col("id", "int", FALSE, 11), Col("other", "varchar", FALSE, 20)>>,
      \* mysql: a date has no width to parse; stonedb: the clock
      <<Col("id", "int", FALSE, 11), Col("other", "datetime", FALSE, NoParen)>>,
      \* stonedb: random_int(3, 2); mysql: random_int(1, 2)
      <<Col("client_ip", "varchar", FALSE, 2), Col("id", "int", FALSE, 11)>>,
      <<Col("date_id", "int", FALSE, 11), Col("id", "bigint", FALSE, 20),
        Col("other", "char", TRUE, 4)>>,
      \* stonedb: the PRIMARY KEY line; mysql: an unparsable decimal width
      <<Col("id", "int", FALSE, 11), Col("id", "key", FALSE, NoParen)>>,
      <<Col("date_id", "varchar", TRUE, 0), Col("other", "decimal", FALSE, NotInt)>> }

MC_RecordNums == {0, 1, 3}
MC_Begins == {1}
MC_BatchSize == 2
=============================================================================
