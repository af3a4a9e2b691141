-------------------------- MODULE Generator_proofs --------------------------
(***************************************************************************)
(* Proofs about the generators' main loops: every generated row is handed *)
(* to the database exactly once, in key order, in full batches but the   *)
(* last (DeliveredExactlyOnce), for every table, count, first key and    *)
(* batch size.  The rows are whatever generate_record returns: the proof *)
(* never looks inside GenerateRecord.                                      *)
(***************************************************************************)
EXTENDS Generator, GenRecord_proofs, SequenceTheorems, TLAPS

\* Every row generate_record can return for some table and key.
Rows == {GenerateRecord(s, t, k) : s \in {"mysql", "stonedb"}, t \in Tables, k \in Nat}

\* Every insert_record call so far carried BatchSize rows.
AllFull == \A i \in 1..Len(sizes) : sizes[i] = BatchSize

(***************************************************************************)
(* The inductive invariant.  DeliveredExactlyOnce speaks of the rows and  *)
(* of the end; to carry it through a step one also needs that nothing is *)
(* generated before the table is read (ReadTable changes fields and      *)
(* begin, which Generated depends on), that the stonedb script never     *)
(* buffers, that values holds the rows since the last multiple of        *)
(* BatchSize, and that only FinishMysql may add a short batch.            *)
(***************************************************************************)
GInv ==
    /\ script \in {"mysql", "stonedb"}
    /\ conn \in BOOLEAN
    /\ pc \in {"main", "open", "loop"} \cup Terminal
    /\ begin \in Nat
    /\ num \in Nat
    /\ total \in Nat \cup {NaN}
    /\ buf \in Seq(Rows)
    /\ out \in Seq(Rows)
    /\ sizes \in Seq(Nat)
    /\ pc = "main" => num = 0
    /\ pc \in {"open", "loop"} => fields \in Tables
    /\ script = "stonedb" => buf = <<>>
    /\ script = "mysql" /\ pc \notin {"done", "traceback"} => Len(buf) = num % BatchSize
    /\ out \o buf = Generated
    /\ pc \notin {"done", "traceback"} => AllFull
    /\ \A i \in 1..Len(sizes) : i < Len(sizes) => sizes[i] = BatchSize
    /\ pc = "done" => /\ num = total
                      /\ buf = <<>>
                      /\ script = "stonedb" => loaded


-----------------------------------------------------------------------------
(***************************************************************************)
(* Lemmas about the operators the invariant is built from.                *)
(***************************************************************************)

\* A row for the next key extends the rows generated so far by one.
LEMMA GeneratedAppend ==
    ASSUME NEW s, NEW t, NEW b \in Nat, NEW n \in Nat
    PROVE  [j \in 1..n + 1 |-> GenerateRecord(s, t, b + j - 1)]
             = Append([j \in 1..n |-> GenerateRecord(s, t, b + j - 1)],
                      GenerateRecord(s, t, b + n))
OBVIOUS

\* The rows generated for a table of Tables are rows of Rows.
LEMMA GeneratedType ==
    ASSUME NEW s \in {"mysql", "stonedb"}, NEW t \in Tables, NEW b \in Nat,
           NEW n \in Nat
    PROVE  [j \in 1..n |-> GenerateRecord(s, t, b + j - 1)] \in Seq(Rows)
BY DEF Rows

\* How num % BatchSize moves when num grows by one.
LEMMA ModStep ==
    ASSUME NEW n \in Nat, NEW B \in Nat \ {0}
    PROVE  (n + 1) % B = IF n % B = B - 1 THEN 0 ELSE (n % B) + 1
<1> DEFINE q == n \div B
           r == n % B
<1>1. r \in 0..B - 1 /\ q \in Nat /\ n = B * q + r
    OBVIOUS
<1>2. ASSUME NEW k \in Nat, NEW m \in 0..B - 1 PROVE (B * k + m) % B = m
    OBVIOUS
<1>3. CASE r = B - 1
    <2>1. n + 1 = B * (q + 1) + 0
        BY <1>1, <1>3
    <2>2. (B * (q + 1) + 0) % B = 0
        BY <1>1, <1>2
    <2>. QED  BY <2>1, <2>2, <1>3
<1>4. CASE r # B - 1
    <2>1. n + 1 = B * q + (r + 1) /\ r + 1 \in 0..B - 1
        BY <1>1, <1>4
    <2>2. (B * q + (r + 1)) % B = r + 1
        BY <2>1, <1>1, <1>2
    <2>. QED  BY <2>1, <2>2, <1>4
<1>. QED  BY <1>3, <1>4

\* Appending a row to out \o buf, as the two branches of GenerateMysql do.
LEMMA ConcatAppend ==
    ASSUME NEW S, NEW s \in Seq(S), NEW t \in Seq(S), NEW x \in S
    PROVE  /\ s \o Append(t, x) = Append(s \o t, x)
           /\ (s \o t) \o <<x>> = Append(s \o t, x)
<1>1. s \o Append(t, x) = Append(s \o t, x)
    BY ConcatProperties, AppendProperties, SeqEqual
<1>2. (s \o t) \o <<x>> = Append(s \o t, x)
    BY ConcatProperties, AppendIsConcat
<1>. QED  BY <1>1, <1>2

-----------------------------------------------------------------------------
(***************************************************************************)
(* GInv is inductive.                                                     *)
(***************************************************************************)

\* s \o t begins with s.
LEMMA PrefixOfConcat ==
    ASSUME NEW S, NEW s \in Seq(S), NEW t \in Seq(S)
    PROVE  /\ Len(s \o t) = Len(s) + Len(t)
           /\ SubSeq(s \o t, 1, Len(s)) = s
<1>1. Len(s \o t) = Len(s) + Len(t)
      /\ \A i \in 1..Len(s) : (s \o t)[i] = s[i]
    BY ConcatProperties
<1>2. SubSeq(s \o t, 1, Len(s)) = [i \in 1..Len(s) |-> s[i]]
    BY <1>1
<1>. QED  BY <1>1, <1>2, IsASeq

LEMMA GInvInit == Init => GInv
<1> SUFFICES ASSUME Init PROVE GInv
    OBVIOUS
<1>1. Generated = <<>>
    BY DEF Init, Generated
<1>2. out \o buf = <<>>
    BY DEF Init
<1>3. Len(buf) = num % BatchSize
    BY GenBoundsAssumption DEF Init
<1>4. <<>> \in Seq(Rows) /\ <<>> \in Seq(Nat)
    OBVIOUS
<1>5. conn \in BOOLEAN
    BY Zenon DEF Init
<1>6. AllFull /\ \A i \in 1..Len(sizes) : i < Len(sizes) => sizes[i] = BatchSize
    BY DEF Init, AllFull
<1>. QED  BY <1>1, <1>2, <1>3, <1>4, <1>5, <1>6 DEF Init, GInv, Terminal

\* The row the loop generates next is a row of Rows.
LEMMA NextRowType ==
    ASSUME GInv, pc = "loop"
    PROVE  GenerateRecord(script, fields, begin + num) \in Rows
<1>1. script \in {"mysql", "stonedb"} /\ fields \in Tables /\ begin + num \in Nat
    BY DEF GInv
<1>2. \E s \in {"mysql", "stonedb"}, t \in Tables, k \in Nat :
          GenerateRecord(script, fields, begin + num) = GenerateRecord(s, t, k)
    BY <1>1
<1>. QED  BY <1>2 DEF Rows

LEMMA GInvStep == GInv /\ [Next]_vars => GInv'
<1> SUFFICES ASSUME GInv, [Next]_vars PROVE GInv'
    OBVIOUS
<1>1. CASE Usage
    BY <1>1 DEF GInv, Usage, Generated, AllFull, Terminal
<1>2. CASE BadBegin
    BY <1>2 DEF GInv, BadBegin, Handler, Generated, AllFull, Terminal
<1>3. CASE ReadTable
    <2>1. PICK t \in TablesOf(script), n \in RecordNums \cup {NaN}, b \in Begins :
              fields' = t /\ total' = n /\ begin' = b
        BY <1>3 DEF ReadTable
    <2>2. fields' \in Tables /\ begin' \in Nat /\ total' \in Nat \cup {NaN}
        BY <2>1, GenBoundsAssumption DEF TablesOf
    <2>3. num = 0 /\ Generated = <<>> /\ Generated' = <<>>
        BY <1>3 DEF GInv, ReadTable, Generated
    <2>. QED
        BY <1>3, <2>2, <2>3 DEF GInv, ReadTable, AllFull, Terminal
<1>4. CASE Open
    BY <1>4 DEF GInv, Open, Generated, AllFull, Terminal
<1>5. CASE BadCount
    BY <1>5 DEF GInv, BadCount, Handler, Generated, AllFull, Terminal
<1>6. CASE GenerateFails
    BY <1>6 DEF GInv, GenerateFails, Handler, Generated, AllFull, Terminal
<1>7. CASE GenerateMysql
    <2> DEFINE rec == GenerateRecord(script, fields, begin + num)
               B == BatchSize
    <2>0. out \in Seq(Rows) /\ buf \in Seq(Rows) /\ sizes \in Seq(Nat) /\ num \in Nat
        BY DEF GInv
    <2>1. rec \in Rows
        BY <1>7, NextRowType DEF GenerateMysql
    <2>2. Generated' = Append(Generated, rec)
        BY <1>7, GeneratedAppend DEF GInv, GenerateMysql, Generated
    <2>3. /\ out \o Append(buf, rec) = Append(out \o buf, rec)
          /\ (out \o buf) \o <<rec>> = Append(out \o buf, rec)
          /\ Append(out \o buf, rec) \in Seq(Rows)
          /\ Append(buf, rec) \in Seq(Rows)
        <3>1. out \o buf \in Seq(Rows)
            BY <2>0, ConcatProperties
        <3>. QED  BY <2>0, <2>1, <3>1, ConcatAppend, AppendProperties
    <2>4. Len(buf) = num % B
        BY <1>7 DEF GInv, GenerateMysql
    <2>7. (num + 1) % B = IF num % B = B - 1 THEN 0 ELSE (num % B) + 1
        <3>1. B \in Nat \ {0}
            BY GenBoundsAssumption
        <3>. QED  BY <2>0, <3>1, ModStep, Zenon
    <2>8. /\ pc = "loop" /\ script = "mysql" /\ AllFull
          /\ num' = num + 1
          /\ UNCHANGED <<script, conn, pc, fields, total, begin, fdOpen, loaded>>
        BY <1>7 DEF GInv, GenerateMysql, Terminal
    <2>5. CASE (num + 1) % B = 0
        <3>1. out' = Append(out \o buf, rec) /\ buf' = <<>>
              /\ sizes' = Append(sizes, Len(buf) + 1)
            BY <1>7, <2>5, <2>3 DEF GenerateMysql
        <3>2. out' \o buf' = out' /\ out' \in Seq(Rows)
            BY <3>1, <2>3, ConcatEmptySeq
        <3>3. Len(buf) + 1 = B
            BY <2>0, <2>4, <2>5, <2>7, GenBoundsAssumption
        <3>4. AllFull' /\ sizes' \in Seq(Nat)
            <4>1. B \in Nat
                BY GenBoundsAssumption
            <4>2. /\ sizes' \in Seq(Nat)
                  /\ Len(sizes') = Len(sizes) + 1
                  /\ sizes'[Len(sizes) + 1] = B
                  /\ \A i \in 1..Len(sizes) : sizes'[i] = sizes[i]
                BY <2>0, <3>1, <3>3, <4>1, AppendProperties
            <4>3. ASSUME NEW i \in 1..Len(sizes') PROVE sizes'[i] = B
                <5>1. CASE i = Len(sizes) + 1
                    BY <4>2, <5>1
                <5>2. CASE i \in 1..Len(sizes)
                    BY <2>8, <4>2, <5>2 DEF AllFull
                <5>. QED  BY <2>0, <4>2, <5>1, <5>2
            <4>. QED  BY <4>2, <4>3 DEF AllFull
        <3>5. Len(buf') = num' % B
            BY <3>1, <2>5, <2>8
        <3>. QED
            BY <2>2, <2>8, <3>1, <3>2, <3>4, <3>5 DEF GInv, AllFull, Terminal
    <2>6. CASE (num + 1) % B # 0
        <3>1. out' = out /\ buf' = Append(buf, rec) /\ sizes' = sizes
            BY <1>7, <2>6 DEF GenerateMysql
        <3>2. Len(buf') = Len(buf) + 1 /\ num' = num + 1
            BY <2>0, <2>1, <3>1, <1>7, AppendProperties DEF GenerateMysql
        <3>3. Len(buf') = num' % B
            BY <2>4, <2>6, <2>7, <3>2
        <3>4. out' \o buf' = Generated' /\ buf' \in Seq(Rows)
            BY <2>2, <2>3, <3>1 DEF GInv
        <3>5. /\ out' \in Seq(Rows) /\ sizes' \in Seq(Nat) /\ AllFull'
              /\ \A i \in 1..Len(sizes') : i < Len(sizes') => sizes'[i] = BatchSize
            BY <2>0, <2>8, <3>1 DEF GInv, AllFull
        <3>6. num' \in Nat
            BY <2>0, <3>2
        <3>. QED
            BY <2>8, <3>3, <3>4, <3>5, <3>6 DEF GInv, Terminal
    <2>. QED  BY <2>5, <2>6
<1>8. CASE GenerateStone
    <2> DEFINE rec == GenerateRecord(script, fields, begin + num)
    <2>1. rec \in Rows
        BY <1>8, NextRowType DEF GenerateStone
    <2>2. Generated' = Append(Generated, rec)
        BY <1>8, GeneratedAppend DEF GInv, GenerateStone, Generated
    <2>3. out' \o buf' = Append(out \o buf, rec)
        BY <1>8, <2>1, ConcatEmptySeq, AppendProperties DEF GInv, GenerateStone
    <2>. QED
        BY <1>8, <2>1, <2>2, <2>3, AppendProperties DEF GInv, GenerateStone, AllFull, Terminal
<1>9. CASE FinishMysql
    <2>0. out \in Seq(Rows) /\ buf \in Seq(Rows) /\ sizes \in Seq(Nat) /\ AllFull
        BY <1>9 DEF GInv, FinishMysql, Terminal
    <2>1. CASE buf # <<>>
        <3>1. out' = out \o buf /\ buf' = <<>> /\ sizes' = Append(sizes, Len(buf))
            BY <1>9, <2>1 DEF FinishMysql
        <3>2. out' \o buf' = out \o buf /\ out' \in Seq(Rows)
            BY <2>0, <3>1, ConcatProperties, ConcatEmptySeq
        <3>3. sizes' \in Seq(Nat)
              /\ \A i \in 1..Len(sizes') : i < Len(sizes') => sizes'[i] = BatchSize
            BY <2>0, <3>1, AppendProperties DEF AllFull
        <3>. QED
            BY <1>9, <3>1, <3>2, <3>3 DEF GInv, FinishMysql, Generated, Terminal
    <2>2. CASE buf = <<>>
        <3>1. out' = out /\ buf' = <<>> /\ sizes' = sizes
            BY <1>9, <2>2 DEF FinishMysql
        <3>. QED
            BY <1>9, <2>2, <3>1 DEF GInv, FinishMysql, Generated, Terminal
    <2>. QED  BY <2>1, <2>2
<1>10. CASE FinishStone
    BY <1>10 DEF GInv, FinishStone, Handler, Generated, AllFull, Terminal
<1>11. CASE UNCHANGED vars
    BY <1>11 DEF GInv, vars, Generated, AllFull
<1>. QED
    BY <1>1, <1>2, <1>3, <1>4, <1>5, <1>6, <1>7, <1>8, <1>9, <1>10, <1>11 DEF Next

\* What one step may do to the rows inserted and the insert_record calls:
\* leave them alone, or make one call that appends 1..BatchSize rows.
InsertStep ==
    script = "mysql" =>
        \/ out' = out /\ sizes' = sizes
        \/ \E n \in 1..BatchSize :
              /\ sizes' = Append(sizes, n)
              /\ Len(out') = Len(out) + n
              /\ SubSeq(out', 1, Len(out)) = out

\* Under GInv, every step is an InsertStep.
LEMMA InsertStepHolds == GInv /\ [Next]_vars => [InsertStep]_vars
<1> SUFFICES ASSUME GInv, [Next]_vars, script = "mysql"
             PROVE  InsertStep
    BY DEF InsertStep
<1> DEFINE rec == GenerateRecord(script, fields, begin + num)
           B == BatchSize
<1>0. out \in Seq(Rows) /\ buf \in Seq(Rows) /\ sizes \in Seq(Nat)
      /\ num \in Nat /\ B \in Nat \ {0}
    BY GenBoundsAssumption DEF GInv
<1>1. CASE GenerateMysql /\ (num + 1) % B = 0
    <2>1. rec \in Rows
        BY <1>1, NextRowType DEF GenerateMysql
    <2>2. Append(buf, rec) \in Seq(Rows) /\ Len(Append(buf, rec)) = Len(buf) + 1
        BY <1>0, <2>1, AppendProperties
    <2>3. out' = out \o Append(buf, rec) /\ sizes' = Append(sizes, Len(buf) + 1)
        <3>1. out' = (out \o buf) \o <<rec>> /\ sizes' = Append(sizes, Len(buf) + 1)
            BY <1>1 DEF GenerateMysql
        <3>2. out \o Append(buf, rec) = (out \o buf) \o <<rec>>
            <4>1. out \in Seq(Rows) /\ buf \in Seq(Rows) /\ rec \in Rows
                BY <1>0, <2>1
            <4>. QED  BY <4>1, ConcatAppend
        <3>. QED  BY <3>1, <3>2
    <2>4. Len(buf) + 1 = B
        <3>1. Len(buf) = num % B
            BY <1>1 DEF GInv, GenerateMysql
        <3>2. num \in Nat /\ B \in Nat \ {0}
            BY <1>0
        <3>3. (num + 1) % B = IF num % B = B - 1 THEN 0 ELSE (num % B) + 1
            BY <3>2, ModStep, Zenon
        <3>. QED  BY <1>0, <1>1, <3>1, <3>3
    <2>5. Len(out') = Len(out) + B /\ SubSeq(out', 1, Len(out)) = out
        BY <1>0, <2>2, <2>3, <2>4, PrefixOfConcat
    <2>6. /\ B \in 1..BatchSize
          /\ sizes' = Append(sizes, B)
          /\ Len(out') = Len(out) + B
          /\ SubSeq(out', 1, Len(out)) = out
        BY <1>0, <2>3, <2>4, <2>5
    <2>. QED  BY <2>6 DEF InsertStep
<1>2. CASE FinishMysql /\ buf # <<>>
    <2>1. out' = out \o buf /\ sizes' = Append(sizes, Len(buf))
        BY <1>2 DEF FinishMysql
    <2>2. Len(buf) \in 1..B
        <3>1. Len(buf) = num % B
            BY <1>2 DEF GInv, FinishMysql, Terminal
        <3>2. Len(buf) # 0
            BY <1>0, <1>2, EmptySeq
        <3>. QED  BY <1>0, <3>1, <3>2
    <2>3. Len(out') = Len(out) + Len(buf) /\ SubSeq(out', 1, Len(out)) = out
        BY <1>0, <2>1, PrefixOfConcat
    <2>. QED  BY <2>1, <2>2, <2>3 DEF InsertStep
<1>3. CASE ~(GenerateMysql /\ (num + 1) % B = 0) /\ ~(FinishMysql /\ buf # <<>>)
    <2>1. out' = out /\ sizes' = sizes
        BY <1>3 DEF GInv, Next, vars, Usage, BadBegin, ReadTable, Open, BadCount,
                    GenerateFails, GenerateMysql, GenerateStone, FinishMysql,
                    FinishStone
    <2>. QED  BY <2>1 DEF InsertStep
<1>. QED  BY <1>1, <1>2, <1>3


-----------------------------------------------------------------------------
(***************************************************************************)
(* TypeOK and RecordsMatchColumns.  GInv leaves out what the rows are:    *)
(* for that one needs that no row generated so far raised (GenOK), that  *)
(* the table read is one of Tables, and RecordShape, which says what     *)
(* generate_record returns when it does not raise.  sizes stays within   *)
(* 1..BatchSize because every step is an InsertStep.                      *)
(***************************************************************************)

\* Every row the loop generated so far was returned, not raised.
GenOK == \A j \in 1..num : GenerateRecord(script, fields, begin + j - 1) # Crash

\* The arguments read in main and the batch sizes, as TypeOK has them.
FieldsType ==
    /\ fields \in Tables \cup {<<>>}
    /\ total \in RecordNums \cup {0, NaN}
    /\ begin \in Begins \cup {0}
    /\ sizes \in Seq(1..BatchSize)
    /\ fdOpen \in BOOLEAN
    /\ loaded \in BOOLEAN

\* The two parts of a concatenation are sequences over what it holds.
LEMMA ConcatParts ==
    ASSUME NEW S, NEW T, NEW s \in Seq(S), NEW t \in Seq(S), s \o t \in Seq(T)
    PROVE  s \in Seq(T) /\ t \in Seq(T)
<1>1. /\ Len(s \o t) = Len(s) + Len(t)
      /\ \A i \in 1..Len(s) : (s \o t)[i] = s[i]
      /\ \A i \in 1..Len(t) : (s \o t)[Len(s) + i] = t[i]
    BY ConcatProperties
<1>2. \A i \in 1..Len(s) : s[i] \in T
    BY <1>1
<1>3. \A i \in 1..Len(t) : t[i] \in T
    BY <1>1
<1>. QED  BY <1>2, <1>3, IsASeq

LEMMA FieldsInit == Init => FieldsType /\ GenOK
<1> SUFFICES ASSUME Init PROVE FieldsType /\ GenOK
    OBVIOUS
<1>1. <<>> \in Seq(1..BatchSize) /\ sizes = <<>> /\ num = 0
    BY DEF Init
<1>2. fields = <<>> /\ total = 0 /\ begin = 0 /\ fdOpen = FALSE /\ loaded = FALSE
    BY DEF Init
<1>3. GenOK
    BY <1>1 DEF GenOK
<1>4. FieldsType
    BY <1>1, <1>2, Zenon DEF FieldsType
<1>. QED  BY <1>3, <1>4

LEMMA GenOKStep == GInv /\ GenOK /\ [Next]_vars => GenOK'
<1> SUFFICES ASSUME GInv, GenOK, [Next]_vars PROVE GenOK'
    OBVIOUS
<1>1. CASE ReadTable
    BY <1>1 DEF GInv, ReadTable, GenOK
<1>2. CASE GenerateMysql \/ GenerateStone
    <2>1. /\ num' = num + 1 /\ num \in Nat
          /\ GenerateRecord(script, fields, begin + num) # Crash
          /\ UNCHANGED <<script, fields, begin>>
        BY <1>2 DEF GInv, GenerateMysql, GenerateStone
    <2>2. ASSUME NEW j \in 1..num + 1
          PROVE  GenerateRecord(script, fields, begin + j - 1) # Crash
        <3>1. CASE j = num + 1
            BY <2>1, <3>1
        <3>2. CASE j \in 1..num
            BY <3>2 DEF GenOK
        <3>. QED  BY <2>1, <3>1, <3>2
    <2>. QED  BY <2>1, <2>2 DEF GenOK
<1>3. CASE ~ReadTable /\ ~GenerateMysql /\ ~GenerateStone
    <2>1. UNCHANGED <<script, fields, begin, num>>
        BY <1>3 DEF Next, vars, Usage, BadBegin, Open, BadCount, GenerateFails,
                    FinishMysql, FinishStone
    <2>. QED  BY <2>1 DEF GenOK
<1>. QED  BY <1>1, <1>2, <1>3

LEMMA FieldsStep == GInv /\ FieldsType /\ [Next]_vars => FieldsType'
<1> SUFFICES ASSUME GInv, FieldsType, [Next]_vars PROVE FieldsType'
    OBVIOUS
<1>1. sizes' \in Seq(1..BatchSize)
    <2>1. CASE script = "mysql"
        <3>1. [InsertStep]_vars
            BY InsertStepHolds
        <3>2. sizes' = sizes \/ \E n \in 1..BatchSize : sizes' = Append(sizes, n)
            BY <2>1, <3>1 DEF InsertStep, vars
        <3>3. sizes \in Seq(1..BatchSize)
            BY DEF FieldsType
        <3>4. ASSUME NEW n \in 1..BatchSize PROVE Append(sizes, n) \in Seq(1..BatchSize)
            BY <3>3, AppendProperties
        <3>. QED  BY <3>2, <3>3, <3>4
    <2>2. CASE script # "mysql"
        <3>1. sizes' = sizes
            BY <2>2 DEF Next, vars, Usage, BadBegin, ReadTable, Open, BadCount,
                        GenerateFails, GenerateMysql, GenerateStone, FinishMysql,
                        FinishStone
        <3>. QED  BY <3>1 DEF FieldsType
    <2>. QED  BY <2>1, <2>2
<1>2. /\ fields' \in Tables \cup {<<>>}
      /\ total' \in RecordNums \cup {0, NaN}
      /\ begin' \in Begins \cup {0}
    BY DEF FieldsType, Next, vars, Usage, BadBegin, ReadTable, TablesOf, Open,
           BadCount, GenerateFails, GenerateMysql, GenerateStone, FinishMysql,
           FinishStone
<1>3. fdOpen' \in BOOLEAN /\ loaded' \in BOOLEAN
    BY DEF FieldsType, Next, vars, Usage, BadBegin, ReadTable, Open,
           BadCount, GenerateFails, GenerateMysql, GenerateStone, FinishMysql,
           FinishStone
<1>. QED  BY <1>1, <1>2, <1>3 DEF FieldsType

\* The rows held are the generated ones, each of the table's shape.
LEMMA RowsShape ==
    ASSUME GInv, FieldsType, GenOK
    PROVE  /\ out \in Seq(Seq(Values)) /\ buf \in Seq(Seq(Values))
           /\ RecordsMatchColumns
<1> DEFINE Col == [name : ColumnNames, base : Bases, lookup : BOOLEAN,
                   width : Int \cup {NoParen, NotInt}]
<1>1. fields \in Seq(Col) /\ Len(fields) \in Nat /\ begin \in Nat /\ num \in Nat
    <2>1. fields \in Tables \cup {<<>>} /\ begin \in Nat /\ num \in Nat
        BY DEF FieldsType, GInv
    <2>2. Tables \subseteq Seq(Col)
        BY TablesAssumption
    <2>3. <<>> \in Seq(Col)
        OBVIOUS
    <2>4. fields \in Seq(Col)
        BY <2>1, <2>2, <2>3
    <2>. QED  BY <2>1, <2>4
<1>2. ASSUME NEW j \in 1..num
      PROVE  LET r == Generated[j] IN
             /\ r \in Seq(Values)
             /\ Len(r) = Len(fields)
             /\ \A c \in 1..Len(fields) :
                   (fields[c].name = "id" /\ fields[c].base = "int") => r[c] = Key(begin + j - 1)
    <2>0. begin + j - 1 \in Int
        BY <1>1
    <2>1. GenerateRecord(script, fields, begin + j - 1) # Crash
        BY DEF GenOK
    <2>2. Generated[j] = GenerateRecord(script, fields, begin + j - 1)
        BY DEF Generated
    <2>3. LET r == GenerateRecord(script, fields, begin + j - 1) IN
          /\ r \in Seq(Values)
          /\ Len(r) = Len(fields)
          /\ \A c \in 1..Len(fields) :
                (fields[c].name = "id" /\ fields[c].base = "int") => r[c] = Key(begin + j - 1)
        BY <1>1, <2>0, <2>1, RecordShape
    <2>. QED  BY <2>2, <2>3
<1>3. out \o buf = Generated /\ Len(Generated) = num
    BY <1>1 DEF GInv, Generated
<1>4. Generated \in Seq(Seq(Values))
    <2>1. \A j \in 1..num : Generated[j] \in Seq(Values)
        BY <1>2
    <2>2. Generated \in [1..num -> Seq(Values)]
        BY <2>1 DEF Generated
    <2>. QED  BY <1>1, <2>2
<1>5. out \in Seq(Seq(Values)) /\ buf \in Seq(Seq(Values))
    <2>1. out \in Seq(Rows) /\ buf \in Seq(Rows)
        BY DEF GInv
    <2>. QED  BY <1>3, <1>4, <2>1, ConcatParts
<1>6. RecordsMatchColumns
    BY <1>2, <1>3 DEF RecordsMatchColumns, KeyColumn
<1>. QED  BY <1>5, <1>6

-----------------------------------------------------------------------------

\* GInv holds in every state of either script's main(): the loop's buffer
\* always holds the num % BatchSize rows since the last insert_record call.
THEOREM GeneratorInvariant == Spec => []GInv
<1>1. Init => GInv
    BY GInvInit
<1>2. GInv /\ [Next]_vars => GInv'
    BY GInvStep
<1>. QED  BY <1>1, <1>2, PTL DEF Spec

\* For every table, count, first key and BatchSize: every row the loop of
\* generate_mysql_record.py / generate_stonedb_record.py generates is handed
\* to insert_record or written to the CSV exactly once and in key order,
\* every insert but the last carries BatchSize rows, and a run that ends
\* in "done" has flushed the rest (and, for stonedb, loaded the file).
THEOREM DeliveredCorrect == Spec => []DeliveredExactlyOnce
<1>1. GInv => DeliveredExactlyOnce
    BY DEF GInv, DeliveredExactlyOnce
<1>. QED  BY <1>1, GeneratorInvariant, PTL


\* GInv with the type facts and GenOK holds in every state of main().
THEOREM RowsInvariant == Spec => [](GInv /\ FieldsType /\ GenOK)
<1>1. Init => GInv /\ FieldsType /\ GenOK
    BY GInvInit, FieldsInit
<1>2. GInv /\ FieldsType /\ GenOK /\ [Next]_vars => (GInv /\ FieldsType /\ GenOK)'
    BY GInvStep, FieldsStep, GenOKStep
<1>. QED  BY <1>1, <1>2, PTL DEF Spec

\* For every table, count, first key and BatchSize, every variable of main()
\* keeps its type; in particular every row handed over is a row of values
\* and every insert_record call carries 1..BatchSize rows.
THEOREM GeneratorTypeCorrect == Spec => []TypeOK
<1>1. GInv /\ FieldsType /\ GenOK => TypeOK
    BY RowsShape DEF GInv, FieldsType, TypeOK
<1>. QED  BY <1>1, RowsInvariant, PTL

\* For every table of column lines and every first key: every row handed
\* to insert_record or written to the CSV has exactly one value per column
\* of the table, and the row for key begin + j - 1 holds that key in its
\* int column named id, in both scripts.
THEOREM RecordsCorrect == Spec => []RecordsMatchColumns
<1>1. GInv /\ FieldsType /\ GenOK => RecordsMatchColumns
    BY RowsShape
<1>. QED  BY <1>1, RowsInvariant, PTL

=============================================================================
