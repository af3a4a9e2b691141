-------------------------- MODULE GenRecord_proofs --------------------------
(***************************************************************************)
(* What generate_record returns, for every table and every key: a row     *)
(* that did not raise has one value per column, and the key column holds  *)
(* the key.  The proof is an induction over the columns of the loop,     *)
(* carried out as a least-counterexample argument over the natural        *)
(* numbers (WFMin with the well-founded order < on Nat).                  *)
(***************************************************************************)
EXTENDS GenRecord, SequenceTheorems, WellFoundedInduction, TLAPS

\* The value the loop appends for column c.
Val(s, c, k) == IF s = "mysql" THEN MysqlValue(c, k) ELSE StoneValue(c, k)

\* The row function of GenerateRecord, out of its LET: row[i] is the row
\* after the first i columns.
RowFcn(s, t, k) ==
    CHOOSE g : g = [i \in 0..Len(t) |->
                      IF i = 0 THEN <<>>
                      ELSE IF g[i - 1] = Crash \/ Val(s, t[i], k) = Crash THEN Crash
                      ELSE g[i - 1] \o Val(s, t[i], k)]

\* What is true of row[i] when it is not Crash.
RowOK(s, t, k, i) ==
    LET r == RowFcn(s, t, k)[i] IN
    r # Crash =>
        /\ r \in Seq(Values)
        /\ Len(r) = i
        /\ \A c \in 1..i : (t[c].name = "id" /\ t[c].base = "int") => r[c] = Key(k)

-----------------------------------------------------------------------------

\* generate_record returns the last entry of its row function.
LEMMA GenerateIsRow ==
    ASSUME NEW s, NEW t, NEW k
    PROVE  GenerateRecord(s, t, k) = RowFcn(s, t, k)[Len(t)]
BY DEF GenerateRecord, RowFcn, Val

\* Every value a column gets is one value, or the row raises.
LEMMA ValueShape ==
    ASSUME NEW s, NEW c, NEW k \in Int, Val(s, c, k) # Crash
    PROVE  \E x \in Values : Val(s, c, k) = <<x>>
<1>1. Key(k) \in Values /\ \A tag \in {"DateId", "Rand", "Now", "Ip", "Lookup"} : From(tag) \in Values
    BY DEF Key, From, Values
<1>. QED  BY <1>1 DEF Val, MysqlValue, StoneValue

\* An int column named id gets the key, in both scripts.
LEMMA KeyValue ==
    ASSUME NEW s, NEW c, NEW k, c.name = "id", c.base = "int"
    PROVE  Val(s, c, k) = <<Key(k)>>
<1>1. Mentions(c, "int") /\ ~Mentions(c, "bigint") /\ ~Mentions(c, "varchar")
    BY DEF Mentions, TypeWords, Bases
<1>2. MysqlValue(c, k) = <<Key(k)>>
    BY <1>1 DEF MysqlValue
<1>3. StoneValue(c, k) = <<Key(k)>>
    BY <1>1 DEF StoneValue
<1>. QED  BY <1>2, <1>3 DEF Val

\* The least natural number of a non-empty set of them.
LEMMA LeastNat ==
    ASSUME NEW T \in SUBSET Nat, T # {}
    PROVE  \E x \in T : \A y \in T : ~(y < x)
<1>1. \E x \in T : \A y \in T : ~(<<y, x>> \in OpToRel(<, Nat))
    BY NatLessThanWellFounded, WFMin
<1>. QED  BY <1>1 DEF OpToRel


\* generate_record, column by column: every prefix of the row that did not
\* raise has one value per column so far, and the id column holds the key.
LEMMA RowInduction ==
    ASSUME NEW s, NEW t, Len(t) \in Nat, NEW k \in Int
    PROVE  \A i \in 0..Len(t) : RowOK(s, t, k, i)
<1> DEFINE f == RowFcn(s, t, k)
<1>1. f = [i \in 0..Len(t) |->
             IF i = 0 THEN <<>>
             ELSE IF f[i - 1] = Crash \/ Val(s, t[i], k) = Crash THEN Crash
             ELSE f[i - 1] \o Val(s, t[i], k)]
    <2> DEFINE Def(v, i) == IF v = Crash \/ Val(s, t[i], k) = Crash THEN Crash
                           ELSE v \o Val(s, t[i], k)
    <2>1. Len(t) \in Nat
        OBVIOUS
    <2>2. FiniteNatInductiveDefHypothesis(f, <<>>, Def, 0, Len(t))
        BY DEF FiniteNatInductiveDefHypothesis, RowFcn
    <2>3. FiniteNatInductiveDefConclusion(f, <<>>, Def, 0, Len(t))
        BY <2>1, <2>2, FiniteNatInductiveDef
    <2>. QED  BY <2>3 DEF FiniteNatInductiveDefConclusion
<1> DEFINE T == {i \in 0..Len(t) : ~RowOK(s, t, k, i)}
<1>2. SUFFICES ASSUME T # {} PROVE FALSE
    OBVIOUS
<1>3. PICK x \in T : \A y \in T : ~(y < x)
    <2>1. T \in SUBSET Nat
        OBVIOUS
    <2>. QED  BY <1>2, <2>1, LeastNat
<1>4. x # 0
    <2>1. f[0] = <<>>
        BY <1>1
    <2>2. RowOK(s, t, k, 0)
        BY <2>1 DEF RowOK
    <2>. QED  BY <1>3, <2>2
<1>5. x - 1 \in 0..Len(t) /\ x \in 1..Len(t) /\ RowOK(s, t, k, x - 1)
    BY <1>3, <1>4
<1>6. RowOK(s, t, k, x)
    <2> SUFFICES ASSUME f[x] # Crash
                 PROVE  /\ f[x] \in Seq(Values)
                        /\ Len(f[x]) = x
                        /\ \A c \in 1..x : (t[c].name = "id" /\ t[c].base = "int")
                                             => f[x][c] = Key(k)
        BY DEF RowOK
    <2>1. f[x] = IF f[x - 1] = Crash \/ Val(s, t[x], k) = Crash THEN Crash
                 ELSE f[x - 1] \o Val(s, t[x], k)
        BY <1>1, <1>4, <1>5
    <2>2. f[x - 1] # Crash /\ Val(s, t[x], k) # Crash
          /\ f[x] = f[x - 1] \o Val(s, t[x], k)
        BY <2>1
    <2>3. /\ f[x - 1] \in Seq(Values)
          /\ Len(f[x - 1]) = x - 1
          /\ \A c \in 1..x - 1 : (t[c].name = "id" /\ t[c].base = "int")
                                    => f[x - 1][c] = Key(k)
        BY <1>5, <2>2 DEF RowOK
    <2>4. PICK v \in Values : Val(s, t[x], k) = <<v>>
        BY <2>2, ValueShape
    <2>5. f[x] = Append(f[x - 1], v)
        BY <2>2, <2>3, <2>4, AppendIsConcat
    <2>6. /\ f[x] \in Seq(Values)
          /\ Len(f[x]) = x
          /\ f[x][x] = v
          /\ \A c \in 1..x - 1 : f[x][c] = f[x - 1][c]
        BY <2>3, <2>5, <1>5, AppendProperties
    <2>7. (t[x].name = "id" /\ t[x].base = "int") => v = Key(k)
        BY <2>4, KeyValue
    <2>8. ASSUME NEW c \in 1..x, t[c].name = "id", t[c].base = "int"
          PROVE  f[x][c] = Key(k)
        <3>1. CASE c = x
            BY <2>6, <2>7, <2>8, <3>1
        <3>2. CASE c \in 1..x - 1
            BY <2>3, <2>6, <2>8, <3>2
        <3>. QED  BY <3>1, <3>2, <1>5
    <2>. QED  BY <2>6, <2>8
<1>. QED  BY <1>3, <1>6

\* What generate_record returns for a table and a key, unless it raises:
\* a row of Len(t) values, the key in every int column named id.
THEOREM RecordShape ==
    ASSUME NEW s, NEW t, Len(t) \in Nat, NEW k \in Int,
           GenerateRecord(s, t, k) # Crash
    PROVE  LET r == GenerateRecord(s, t, k) IN
           /\ r \in Seq(Values)
           /\ Len(r) = Len(t)
           /\ \A c \in 1..Len(t) : (t[c].name = "id" /\ t[c].base = "int") => r[c] = Key(k)
<1>1. RowOK(s, t, k, Len(t))
    BY RowInduction
<1>. QED  BY <1>1, GenerateIsRow DEF RowOK

=============================================================================
