-------------------------- MODULE SerializerProofs --------------------------
(***************************************************************************)
(* Proofs about Serializer, for every chunk size, number of steps, set of  *)
(* types and attributes, and every list of agents.                         *)
(***************************************************************************)
EXTENDS Serializer, TLAPS, FiniteSetTheorems

\* The columns of a table: one sequence of values per attribute.
Columns == [Attributes -> Seq(Value)]

EqualLengths(c) == \A a \in Attributes : Len(c[a]) = Len(c[IdAttribute])

\* The rows of columns f on disk and columns b in the buffers.
RowsOf(f, b) ==
    [i \in 1 .. Len(f[IdAttribute]) + Len(b[IdAttribute]) |-> [a \in Attributes |->
        IF i =< Len(f[IdAttribute]) THEN f[a][i] ELSE b[a][i - Len(f[IdAttribute])]]]

Written(f, b) == [a \in Attributes |-> WriteAt(f[a], Len(f[IdAttribute]), b[a])]

LEMMA IdIsAttribute == IdAttribute \in Attributes
BY AttributesAssumption DEF Attributes

LEMMA NoRowsType == NoRows \in Columns /\ EqualLengths(NoRows) /\ Len(NoRows[IdAttribute]) = 0
BY IdIsAttribute DEF NoRows, Columns, EqualLengths

----------------------------------------------------------------------------
(* Columns *)

\* Writing behind what is there appends.
LEMMA WriteAtEnd ==
    ASSUME NEW S, NEW old \in Seq(S), NEW data \in Seq(S)
    PROVE  LET new == WriteAt(old, Len(old), data)
           IN  /\ new \in Seq(S)
               /\ Len(new) = Len(old) + Len(data)
               /\ \A i \in 1 .. Len(new) :
                    new[i] = IF i =< Len(old) THEN old[i] ELSE data[i - Len(old)]
<1> DEFINE n == Len(old) + Len(data)
           new == WriteAt(old, Len(old), data)
<1>1. n \in Nat
  OBVIOUS
<1>2. \A i \in 1 .. n : new[i] = IF i =< Len(old) THEN old[i] ELSE data[i - Len(old)]
  BY DEF WriteAt
<1>3. \A i \in 1 .. n : new[i] \in S
  BY <1>2
<1>4. new = [i \in 1 .. n |-> new[i]]
  BY DEF WriteAt
<1>5. new \in Seq(S) /\ Len(new) = n
  BY <1>1, <1>3, <1>4
<1> QED
  BY <1>2, <1>5

\* So a chunk that is written behind columns of equal length leaves columns of
\* equal length.
LEMMA WrittenType ==
    ASSUME NEW f \in Columns, NEW b \in Columns, EqualLengths(f), EqualLengths(b)
    PROVE  /\ Written(f, b) \in Columns
           /\ EqualLengths(Written(f, b))
           /\ Len(Written(f, b)[IdAttribute]) = Len(f[IdAttribute]) + Len(b[IdAttribute])
           /\ \A a \in Attributes : \A i \in 1 .. Len(f[IdAttribute]) + Len(b[IdAttribute]) :
                Written(f, b)[a][i] = IF i =< Len(f[IdAttribute]) THEN f[a][i]
                                      ELSE b[a][i - Len(f[IdAttribute])]
<1> DEFINE new(a) == WriteAt(f[a], Len(f[a]), b[a])
<1>1. ASSUME NEW a \in Attributes
      PROVE  /\ Written(f, b)[a] = new(a)
             /\ new(a) \in Seq(Value)
             /\ Len(new(a)) = Len(f[IdAttribute]) + Len(b[IdAttribute])
             /\ \A i \in 1 .. Len(f[IdAttribute]) + Len(b[IdAttribute]) :
                  new(a)[i] = IF i =< Len(f[IdAttribute]) THEN f[a][i]
                              ELSE b[a][i - Len(f[IdAttribute])]
  <2>1. f[a] \in Seq(Value) /\ b[a] \in Seq(Value)
    BY DEF Columns
  <2>2. Len(f[a]) = Len(f[IdAttribute]) /\ Len(b[a]) = Len(b[IdAttribute])
    BY DEF EqualLengths
  <2>3. Written(f, b)[a] = new(a)
    BY <2>2 DEF Written
  <2> HIDE DEF new
  <2>4. /\ new(a) \in Seq(Value)
        /\ Len(new(a)) = Len(f[a]) + Len(b[a])
        /\ \A i \in 1 .. Len(new(a)) :
             new(a)[i] = IF i =< Len(f[a]) THEN f[a][i] ELSE b[a][i - Len(f[a])]
    BY <2>1, WriteAtEnd, Zenon DEF new
  <2> QED
    BY <2>2, <2>3, <2>4
<1> HIDE DEF new
<1>2. Written(f, b) = [a \in Attributes |-> Written(f, b)[a]]
  BY DEF Written
<1>3. Written(f, b) \in Columns
  BY <1>1, <1>2 DEF Columns
<1> QED
  BY <1>1, <1>3, IdIsAttribute DEF EqualLengths

LEMMA AddedType ==
    ASSUME NEW b \in Columns, EqualLengths(b), NEW row \in [Attributes -> Value]
    PROVE  /\ Added(b, row) \in Columns
           /\ EqualLengths(Added(b, row))
           /\ Len(Added(b, row)[IdAttribute]) = Len(b[IdAttribute]) + 1
           /\ \A a \in Attributes : \A i \in 1 .. Len(b[IdAttribute]) + 1 :
                Added(b, row)[a][i] = IF i =< Len(b[IdAttribute]) THEN b[a][i] ELSE row[a]
<1>1. ASSUME NEW a \in Attributes
      PROVE  /\ Added(b, row)[a] \in Seq(Value)
             /\ Len(Added(b, row)[a]) = Len(b[IdAttribute]) + 1
             /\ \A i \in 1 .. Len(b[IdAttribute]) + 1 :
                  Added(b, row)[a][i] = IF i =< Len(b[IdAttribute]) THEN b[a][i] ELSE row[a]
  <2>1. b[a] \in Seq(Value) /\ row[a] \in Value /\ Len(b[a]) = Len(b[IdAttribute])
    BY DEF Columns, EqualLengths
  <2>2. Added(b, row)[a] = Append(b[a], row[a])
    BY DEF Added
  <2> QED
    BY <2>1, <2>2
<1>2. Added(b, row) = [a \in Attributes |-> Added(b, row)[a]]
  BY DEF Added
<1> QED
  BY <1>1, <1>2, IdIsAttribute DEF Columns, EqualLengths

----------------------------------------------------------------------------
(* Rows *)

LEMMA AppendCells ==
    ASSUME NEW n \in Nat, NEW cell, NEW row
    PROVE  Append([i \in 1 .. n |-> cell[i]], row)
             = [i \in 1 .. n + 1 |-> IF i = n + 1 THEN row ELSE cell[i]]
OBVIOUS

\* An agent that is serialized is a row more.
LEMMA RowsAdded ==
    ASSUME NEW f \in Columns, NEW b \in Columns, EqualLengths(f), EqualLengths(b),
           NEW row \in [Attributes -> Value]
    PROVE  RowsOf(f, Added(b, row)) = Append(RowsOf(f, b), row)
<1> DEFINE m == Len(f[IdAttribute])
           n == Len(b[IdAttribute])
           new == Added(b, row)
<1>1. m \in Nat /\ n \in Nat
  BY IdIsAttribute DEF Columns
<1>2. Len(new[IdAttribute]) = n + 1
  BY AddedType
<1>3. \A a \in Attributes : \A j \in 1 .. n + 1 :
        new[a][j] = IF j =< n THEN b[a][j] ELSE row[a]
  BY AddedType
<1>4. row = [a \in Attributes |-> row[a]]
  OBVIOUS
<1> HIDE DEF m, n, new
<1>5. ASSUME NEW i \in 1 .. (m + n) + 1, NEW a \in Attributes
      PROVE  (IF i =< m THEN f[a][i] ELSE new[a][i - m])
             = IF i = (m + n) + 1 THEN row[a]
               ELSE IF i =< m THEN f[a][i] ELSE b[a][i - m]
  <2>1. CASE i =< m
    BY <2>1, <1>1
  <2>2. CASE i > m
    <3>1. i - m \in 1 .. n + 1
      BY <2>2, <1>1
    <3>2. new[a][i - m] = IF i - m =< n THEN b[a][i - m] ELSE row[a]
      BY <3>1, <1>3
    <3>3. ~(i =< m) /\ (i - m =< n <=> i # (m + n) + 1)
      BY <2>2, <1>1
    <3> QED
      BY <3>2, <3>3
  <2> QED
    BY <2>1, <2>2, <1>1
<1> DEFINE Cell(i) == [a \in Attributes |-> IF i =< m THEN f[a][i] ELSE b[a][i - m]]
           Cell2(i) == [a \in Attributes |-> IF i =< m THEN f[a][i] ELSE new[a][i - m]]
<1>6. \A i \in 1 .. (m + n) + 1 : Cell2(i) = IF i = (m + n) + 1 THEN row ELSE Cell(i)
  <2> SUFFICES ASSUME NEW i \in 1 .. (m + n) + 1
               PROVE  Cell2(i) = IF i = (m + n) + 1 THEN row ELSE Cell(i)
    OBVIOUS
  <2>1. CASE i = (m + n) + 1
    BY <2>1, <1>4, <1>5
  <2>2. CASE i # (m + n) + 1
    BY <2>2, <1>5
  <2> QED
    BY <2>1, <2>2
<1>7. RowsOf(f, b) = [i \in 1 .. m + n |-> Cell(i)]
  BY DEF RowsOf, m, n
<1>8. RowsOf(f, new) = [i \in 1 .. m + (n + 1) |-> Cell2(i)]
  BY <1>2 DEF RowsOf, m, n
<1> HIDE DEF Cell, Cell2
<1>9. m + (n + 1) = (m + n) + 1 /\ m + n \in Nat
  BY <1>1
<1>10. Append([i \in 1 .. m + n |-> Cell(i)], row)
         = [i \in 1 .. (m + n) + 1 |-> IF i = (m + n) + 1 THEN row ELSE Cell(i)]
  BY <1>9, AppendCells
<1>11. RowsOf(f, new) = [i \in 1 .. (m + n) + 1 |-> IF i = (m + n) + 1 THEN row ELSE Cell(i)]
  BY <1>6, <1>8, <1>9
<1> QED
  BY <1>7, <1>10, <1>11 DEF new

\* A chunk that goes to disk takes its rows along.
LEMMA RowsWritten ==
    ASSUME NEW f \in Columns, NEW b \in Columns, EqualLengths(f), EqualLengths(b)
    PROVE  RowsOf(Written(f, b), NoRows) = RowsOf(f, b)
<1> DEFINE m == Len(f[IdAttribute])
           n == Len(b[IdAttribute])
           new == Written(f, b)
<1>1. m \in Nat /\ n \in Nat
  BY IdIsAttribute DEF Columns
<1>2. Len(new[IdAttribute]) = m + n /\ Len(NoRows[IdAttribute]) = 0
  BY WrittenType, NoRowsType
<1>3. \A i \in 1 .. m + n : \A a \in Attributes :
        new[a][i] = IF i =< m THEN f[a][i] ELSE b[a][i - m]
  BY WrittenType
<1> HIDE DEF m, n, new
<1>4. RowsOf(new, NoRows) = [i \in 1 .. (m + n) + 0 |-> [a \in Attributes |->
        IF i =< m + n THEN new[a][i] ELSE NoRows[a][i - (m + n)]]]
  BY <1>2 DEF RowsOf
<1>5. RowsOf(f, b) = [i \in 1 .. m + n |-> [a \in Attributes |->
        IF i =< m THEN f[a][i] ELSE b[a][i - m]]]
  BY DEF RowsOf, m, n
<1>6. \A i \in 1 .. m + n :
        [a \in Attributes |-> IF i =< m + n THEN new[a][i] ELSE NoRows[a][i - (m + n)]]
        = [a \in Attributes |-> IF i =< m THEN f[a][i] ELSE b[a][i - m]]
  BY <1>1, <1>3
<1>7. (m + n) + 0 = m + n
  BY <1>1
<1> QED
  BY <1>4, <1>5, <1>6, <1>7 DEF new

----------------------------------------------------------------------------
(* The invariant *)

Inv == TypeOK /\ Aligned /\ BufferBounded

\* What Inv says of the columns of one type
LEMMA ColumnsOfType ==
    ASSUME Inv, NEW t \in Types
    PROVE  /\ buffer[t] \in Columns /\ EqualLengths(buffer[t])
           /\ \A k \in Steps : file[t][k] \in Columns /\ EqualLengths(file[t][k])
           /\ step \in Steps => index[t] = Len(file[t][step][IdAttribute])
           /\ \A k \in Steps : k > step => Len(file[t][k][IdAttribute]) = 0
           /\ t \notin registered => buffer[t] = NoRows
           /\ Len(buffer[t][IdAttribute]) < ChunkSize
<1>1. buffer[t] \in Columns /\ \A k \in Steps : file[t][k] \in Columns
  BY DEF Inv, TypeOK, Columns
<1>2. EqualLengths(buffer[t]) /\ \A k \in Steps : EqualLengths(file[t][k])
  BY DEF Inv, Aligned, EqualLengths
<1>3. \A k \in Steps : k > step => file[t][k][IdAttribute] = <<>>
  BY IdIsAttribute DEF Inv, Aligned
<1>4. \A k \in Steps : k > step => Len(file[t][k][IdAttribute]) = 0
  BY <1>3
<1> QED
  BY <1>1, <1>2, <1>4 DEF Inv, Aligned, BufferBounded

\* A call of executeAgentSerialization, with at least one agent or with none.
LEMMA ExecuteFacts ==
    ASSUME Inv, step \in Steps, NEW t \in Types, NEW data \in Columns, EqualLengths(data)
    PROVE  /\ Left(data) = NoRows
           /\ WrittenIndex(t, data) = Len(file[t][step][IdAttribute]) + Len(data[IdAttribute])
           /\ WrittenFile(t, data) \in [Steps -> Columns]
           /\ \A k \in Steps : EqualLengths(WrittenFile(t, data)[k])
           /\ \A k \in Steps : k # step => WrittenFile(t, data)[k] = file[t][k]
           /\ Len(WrittenFile(t, data)[step][IdAttribute])
                = Len(file[t][step][IdAttribute]) + Len(data[IdAttribute])
           /\ RowsOf(WrittenFile(t, data)[step], NoRows) = RowsOf(file[t][step], data)
<1> DEFINE f == file[t][step]
           n == Len(data[IdAttribute])
<1>1. f \in Columns /\ EqualLengths(f) /\ index[t] = Len(f[IdAttribute])
  BY ColumnsOfType
<1>2. file[t] \in [Steps -> Columns]
  BY DEF Inv, TypeOK, Columns
<1>3. n \in Nat /\ Len(f[IdAttribute]) \in Nat /\ index[t] \in Nat
  BY <1>1, IdIsAttribute DEF Columns
<1>4. \A k \in Steps : EqualLengths(file[t][k])
  BY ColumnsOfType
<1>5. \A a \in Attributes : data[a] \in Seq(Value) /\ Len(data[a]) = n
  BY DEF Columns, EqualLengths
<1>6. Nothing(data) <=> n = 0
  <2>1. IntAttributes # {} /\ IntAttributes \in SUBSET Attributes
    BY AttributesAssumption DEF Attributes
  <2>2. \A a \in IntAttributes : data[a] = <<>> <=> n = 0
    BY <1>5, <2>1
  <2> QED
    BY <2>1, <2>2 DEF Nothing
<1>7. CASE Nothing(data)
  <2>1. n = 0
    BY <1>6, <1>7
  <2>2. data = NoRows
    <3>1. \A a \in Attributes : data[a] = <<>>
      BY <1>5, <2>1
    <3> QED
      BY <3>1 DEF NoRows, Columns
  <2>3. WrittenFile(t, data) = file[t] /\ WrittenIndex(t, data) = index[t] /\ Left(data) = data
    BY <1>7 DEF WrittenFile, WrittenIndex, Left
  <2> QED
    BY <1>1, <1>2, <1>3, <1>4, <2>1, <2>2, <2>3
<1>8. CASE ~Nothing(data)
  <2>1. WrittenFile(t, data) = [file[t] EXCEPT ![step] = Written(f, data)]
    BY <1>8, <1>1 DEF WrittenFile, Written
  <2>2. WrittenIndex(t, data) = index[t] + n /\ Left(data) = NoRows
    BY <1>8 DEF WrittenIndex, Left
  <2>3. /\ Written(f, data) \in Columns /\ EqualLengths(Written(f, data))
        /\ Len(Written(f, data)[IdAttribute]) = Len(f[IdAttribute]) + n
    BY <1>1, WrittenType
  <2>4. RowsOf(Written(f, data), NoRows) = RowsOf(f, data)
    BY <1>1, RowsWritten
  <2> HIDE DEF f
  <2>5. WrittenFile(t, data)[step] = Written(f, data)
    BY <1>2, <2>1
  <2>6. \A k \in Steps : k # step => WrittenFile(t, data)[k] = file[t][k]
    BY <1>2, <2>1
  <2>7. WrittenFile(t, data) \in [Steps -> Columns]
    BY <1>2, <2>1, <2>3
  <2>8. \A k \in Steps : EqualLengths(WrittenFile(t, data)[k])
    BY <1>4, <2>3, <2>5, <2>6
  <2> QED
    BY <1>1, <2>2, <2>3, <2>4, <2>5, <2>6, <2>7, <2>8 DEF f
<1> QED
  BY <1>7, <1>8

\* The rows of the refinement in terms of RowsOf
LEMMA RowsAre ==
    ASSUME Inv, NEW t \in Types, NEW k \in Steps
    PROVE  Rows(t, k) = RowsOf(file[t][k], IF k = step THEN buffer[t] ELSE NoRows)
<1> DEFINE m == Len(file[t][k][IdAttribute])
<1>1. m \in Nat
  BY ColumnsOfType, IdIsAttribute DEF Columns
<1>2. CASE k = step
  BY <1>2 DEF Rows, RowsOf
<1>3. CASE k # step
  <2>1. Len(NoRows[IdAttribute]) = 0
    BY NoRowsType
  <2>2. RowsOf(file[t][k], NoRows) = [i \in 1 .. m + 0 |-> [a \in Attributes |->
          IF i =< m THEN file[t][k][a][i] ELSE NoRows[a][i - m]]]
    BY <2>1 DEF RowsOf
  <2>3. Rows(t, k) = [i \in 1 .. m + 0 |-> [a \in Attributes |->
          IF i =< m THEN file[t][k][a][i] ELSE buffer[t][a][i - m]]]
    BY <1>3 DEF Rows
  <2> HIDE DEF m
  <2>4. \A i \in 1 .. m + 0 :
          [a \in Attributes |-> IF i =< m THEN file[t][k][a][i] ELSE NoRows[a][i - m]]
          = [a \in Attributes |-> IF i =< m THEN file[t][k][a][i] ELSE buffer[t][a][i - m]]
    BY <1>1
  <2> QED
    BY <1>3, <2>2, <2>3, <2>4
<1> QED
  BY <1>2, <1>3

----------------------------------------------------------------------------
(* The invariant is inductive *)

LEMMA InitInv == Init => Inv
<1> SUFFICES ASSUME Init PROVE Inv
  OBVIOUS
<1>1. /\ NoRows \in [Attributes -> Seq(Value)]
      /\ \A a \in Attributes : NoRows[a] = <<>> /\ Len(NoRows[a]) = 0
  BY DEF NoRows
<1>2. step = 0 /\ next = 1 /\ agents \in Seq(Agent) /\ registered = {}
  BY PopulationsAssumption DEF Init
<1>3. /\ \A t \in Types : buffer[t] = NoRows /\ index[t] = 0
      /\ \A t \in Types : \A k \in Steps : file[t][k] = NoRows
  BY DEF Init
<1>4. TypeOK
  BY <1>1, <1>2, NumbersAssumption DEF Init, TypeOK, Steps
<1>5. Aligned
  <2>1. ASSUME NEW t \in Types, NEW a \in Attributes
        PROVE  /\ Len(buffer[t][a]) = 0 /\ index[t] = 0
               /\ \A k \in Steps : file[t][k][a] = <<>> /\ Len(file[t][k][a]) = 0
    BY <1>1, <1>3
  <2> QED
    <3>1. \A t \in Types : buffer[t] = NoRows
      BY <1>3
    <3>2. \A t \in Types : step \in Steps => index[t] = Len(file[t][step][IdAttribute])
      BY <2>1, IdIsAttribute
    <3> QED
      BY <2>1, <3>1, <3>2, IdIsAttribute DEF Aligned
<1>6. BufferBounded
  <2>1. \A t \in Types : Len(buffer[t][IdAttribute]) = 0
    BY <1>1, <1>3, IdIsAttribute
  <2>2. 0 < ChunkSize
    BY NumbersAssumption
  <2> QED
    BY <2>1, <2>2 DEF BufferBounded
<1> QED
  BY <1>4, <1>5, <1>6 DEF Inv

\* What a step leaves, type by type, is enough for the invariant.
TypeInv(t) ==
    /\ buffer[t] \in Columns /\ EqualLengths(buffer[t])
    /\ file[t] \in [Steps -> Columns]
    /\ \A k \in Steps : EqualLengths(file[t][k])
    /\ \A k \in Steps : k > step => Len(file[t][k][IdAttribute]) = 0
    /\ index[t] \in Nat
    /\ step \in Steps => index[t] = Len(file[t][step][IdAttribute])
    /\ t \notin registered => buffer[t] = NoRows
    /\ Len(buffer[t][IdAttribute]) < ChunkSize

Shapes ==
    /\ step \in 0 .. NumSteps + 1
    /\ agents \in Seq(Agent)
    /\ next \in Nat
    /\ registered \in SUBSET Types
    /\ buffer = [t \in Types |-> buffer[t]]
    /\ index = [t \in Types |-> index[t]]
    /\ file = [t \in Types |-> file[t]]

EachType == \A t \in Types : TypeInv(t)

LEMMA InvByType == Inv <=> Shapes /\ EachType
<1>1. ASSUME Inv, NEW t \in Types PROVE TypeInv(t)
  BY <1>1, ColumnsOfType DEF Inv, TypeOK, TypeInv, Columns
<1>2. ASSUME Inv PROVE Shapes
  BY <1>2 DEF Inv, TypeOK, Shapes
<1>3. ASSUME Shapes, \A t \in Types : TypeInv(t) PROVE Inv
  <2>1. TypeOK
    <3>1. /\ \A t \in Types : buffer[t] \in [Attributes -> Seq(Value)] /\ index[t] \in Nat
          /\ \A t \in Types : file[t] \in [Steps -> [Attributes -> Seq(Value)]]
      BY <1>3 DEF TypeInv, Columns
    <3> QED
      BY <1>3, <3>1 DEF Shapes, TypeOK
  <2>2. Aligned
    <3>1. ASSUME NEW t \in Types, NEW a \in Attributes, NEW k \in Steps, k > step
          PROVE  file[t][k][a] = <<>>
      <4>1. file[t][k][a] \in Seq(Value) /\ Len(file[t][k][a]) = Len(file[t][k][IdAttribute])
        BY <1>3 DEF TypeInv, Columns, EqualLengths
      <4>2. Len(file[t][k][IdAttribute]) = 0
        BY <1>3, <3>1 DEF TypeInv
      <4> QED
        BY <4>1, <4>2
    <3> QED
      BY <1>3, <3>1 DEF TypeInv, EqualLengths, Aligned
  <2>3. BufferBounded
    BY <1>3 DEF TypeInv, BufferBounded
  <2> QED
    BY <2>1, <2>2, <2>3 DEF Inv
<1> QED
  BY <1>1, <1>2, <1>3, Zenon DEF EachType

LEMMA InvByTypePrime == Shapes' /\ EachType' => Inv'
BY InvByType, PTL

LEMMA RowType == ASSUME Inv, next \in DOMAIN agents PROVE Agent1.row \in [Attributes -> Value]
<1>1. agents[next] \in Agent
  BY DEF Inv, TypeOK
<1> QED
  BY <1>1 DEF Agent, Agent1

\* Everything that executeAgentSerialization and Agent::serialize do to a type
LEMMA SerializeInv ==
    ASSUME Inv, NEW t \in Types, serializeAgent(t)
    PROVE  Inv'
<1> DEFINE data == Added(buffer[t], Agent1.row)
<1>1. step \in Steps /\ next \in Nat /\ Agent1.row \in [Attributes -> Value]
  BY RowType DEF serializeAgent, Inv, TypeOK
<1>2. /\ TypeInv(t) /\ Shapes
      /\ \A u \in Types : TypeInv(u)
  BY InvByType DEF EachType
<1>3. /\ data \in Columns /\ EqualLengths(data)
      /\ Len(data[IdAttribute]) = Len(buffer[t][IdAttribute]) + 1
  BY <1>1, <1>2, AddedType DEF TypeInv
<1>4. /\ step' = step /\ agents' = agents /\ next' = next + 1
      /\ registered' = registered \union {t}
  BY DEF serializeAgent
<1>5. \A u \in Types \ {t} :
        buffer'[u] = buffer[u] /\ index'[u] = index[u] /\ file'[u] = file[u]
  BY <1>2 DEF serializeAgent, Shapes
<1>6. Shapes'
  BY <1>1, <1>2, <1>4 DEF serializeAgent, Shapes
<1>7. ASSUME NEW u \in Types \ {t} PROVE TypeInv(u)'
  BY <1>2, <1>4, <1>5 DEF TypeInv
<1>8. TypeInv(t)'
  <2>1. CASE ~Full(data)
    <3>1. buffer'[t] = data /\ index' = index /\ file' = file
      BY <2>1, <1>2 DEF serializeAgent, Shapes
    <3>2. Len(data[IdAttribute]) < ChunkSize
      BY <2>1, <1>3, NumbersAssumption, IdIsAttribute DEF Full, Columns
    <3> HIDE DEF data
    <3> QED
      BY <3>1, <3>2, <1>2, <1>3, <1>4 DEF TypeInv
  <2>2. CASE Full(data)
    <3>1. /\ buffer'[t] = Left(data) /\ index'[t] = WrittenIndex(t, data)
          /\ file'[t] = WrittenFile(t, data)
      BY <2>2, <1>2 DEF serializeAgent, Shapes
    <3> HIDE DEF data
    <3>2. /\ Left(data) = NoRows
          /\ WrittenIndex(t, data) = Len(file[t][step][IdAttribute]) + Len(data[IdAttribute])
          /\ WrittenFile(t, data) \in [Steps -> Columns]
          /\ \A k \in Steps : EqualLengths(WrittenFile(t, data)[k])
          /\ \A k \in Steps : k # step => WrittenFile(t, data)[k] = file[t][k]
          /\ Len(WrittenFile(t, data)[step][IdAttribute])
               = Len(file[t][step][IdAttribute]) + Len(data[IdAttribute])
      BY <1>1, <1>3, ExecuteFacts
    <3>3. Len(NoRows[IdAttribute]) < ChunkSize
      BY NoRowsType, NumbersAssumption
    <3>4. \A k \in Steps : k > step => Len(WrittenFile(t, data)[k][IdAttribute]) = 0
      BY <3>2, <1>1, <1>2, NumbersAssumption DEF TypeInv, Steps
    <3>5. Len(file[t][step][IdAttribute]) \in Nat /\ Len(data[IdAttribute]) \in Nat
      BY <1>1, <1>2, <1>3, IdIsAttribute DEF TypeInv, Columns
    <3>6. index'[t] \in Nat /\ index'[t] = Len(file'[t][step'][IdAttribute])
      <4> DEFINE m == Len(file[t][step][IdAttribute])
                 n == Len(data[IdAttribute])
      <4>1. index'[t] = m + n
        BY <3>1, <3>2
      <4>2. file'[t][step'] = WrittenFile(t, data)[step]
        BY <3>1, <1>4
      <4>3. Len(file'[t][step'][IdAttribute]) = m + n
        BY <4>2, <3>2
      <4>4. m \in Nat /\ n \in Nat
        BY <3>5, Zenon
      <4> HIDE DEF m, n
      <4>5. m + n \in Nat
        BY <4>4
      <4> QED
        BY <4>1, <4>3, <4>5, Zenon
    <3>7. \A k \in Steps : k > step' => Len(file'[t][k][IdAttribute]) = 0
      BY <3>1, <3>4, <1>4
    <3>8. /\ file'[t] \in [Steps -> Columns]
          /\ \A k \in Steps : EqualLengths(file'[t][k])
          /\ buffer'[t] = NoRows
      BY <3>1, <3>2
    <3> QED
      BY <3>3, <3>6, <3>7, <3>8, NoRowsType DEF TypeInv
  <2> QED
    BY <2>1, <2>2
<1> QED
  <2>1. EachType'
    BY <1>7, <1>8 DEF EachType
  <2> QED
    BY <1>6, <2>1, InvByTypePrime

LEMMA FinishInv ==
    ASSUME Inv, finishAgentsSerialization
    PROVE  Inv'
<1>1. step \in Steps /\ step' = step + 1 /\ registered' = registered
  BY DEF finishAgentsSerialization
<1>2. Shapes /\ \A t \in Types : TypeInv(t)
  BY InvByType DEF EachType
<1>3. Shapes'
  BY <1>1, <1>2, PopulationsAssumption, NumbersAssumption
     DEF finishAgentsSerialization, Shapes, Steps
<1>4. ASSUME NEW t \in Types
      PROVE  /\ buffer'[t] = NoRows /\ index'[t] = 0
             /\ file'[t] \in [Steps -> Columns]
             /\ \A k \in Steps : EqualLengths(file'[t][k])
             /\ \A k \in Steps : k > step => Len(file'[t][k][IdAttribute]) = 0
  <2>1. CASE t \in registered
    <3>1. /\ buffer'[t] = Left(buffer[t]) /\ file'[t] = WrittenFile(t, buffer[t])
          /\ index'[t] = 0
      BY <2>1 DEF finishAgentsSerialization
    <3>2. buffer[t] \in Columns /\ EqualLengths(buffer[t])
      BY <1>2 DEF TypeInv
    <3>3. /\ Left(buffer[t]) = NoRows
          /\ WrittenFile(t, buffer[t]) \in [Steps -> Columns]
          /\ \A k \in Steps : EqualLengths(WrittenFile(t, buffer[t])[k])
          /\ \A k \in Steps : k # step => WrittenFile(t, buffer[t])[k] = file[t][k]
      BY <1>1, <3>2, ExecuteFacts
    <3>4. \A k \in Steps : k > step => k # step
      BY <1>1, NumbersAssumption DEF Steps
    <3> QED
      BY <1>2, <3>1, <3>3, <3>4 DEF TypeInv
  <2>2. CASE t \notin registered
    <3>1. buffer'[t] = buffer[t] /\ file'[t] = file[t] /\ index'[t] = 0
      BY <2>2 DEF finishAgentsSerialization
    <3> QED
      BY <1>2, <2>2, <3>1 DEF TypeInv
  <2> QED
    BY <2>1, <2>2
<1>5. ASSUME NEW t \in Types PROVE TypeInv(t)'
  <2>1. step' \in Steps => step' > step
    BY <1>1, NumbersAssumption DEF Steps
  <2>2. \A k \in Steps : k > step' => k > step
    BY <1>1, NumbersAssumption DEF Steps
  <2>3. step' \in Steps => Len(file'[t][step'][IdAttribute]) = 0
    BY <1>4, <2>1
  <2>4. 0 < ChunkSize
    BY NumbersAssumption
  <2> QED
    BY <1>4, <2>2, <2>3, <2>4, NoRowsType DEF TypeInv
<1> QED
  <2>1. EachType'
    BY <1>5 DEF EachType
  <2> QED
    BY <1>3, <2>1, InvByTypePrime

LEMMA NextInv == Inv /\ [Next]_vars => Inv'
<1> SUFFICES ASSUME Inv, [Next]_vars PROVE Inv'
  OBVIOUS
<1>1. CASE SkipAgent
  BY <1>1 DEF SkipAgent, Inv, TypeOK, Aligned, BufferBounded
<1>2. CASE \E t \in Types : serializeAgent(t)
  BY <1>2, SerializeInv
<1>3. CASE finishAgentsSerialization
  BY <1>3, FinishInv
<1>4. CASE Closed \/ UNCHANGED vars
  BY <1>4 DEF Closed, vars, Inv, TypeOK, Aligned, BufferBounded
<1> QED
  BY <1>1, <1>2, <1>3, <1>4 DEF Next

(* The variables have their types: serializeAgent and executeAgentSerialization *)
(* leave columns of values, whatever is chunked and skipped.                    *)
THEOREM TypeCorrectness == Spec => []TypeOK
<1>1. Inv => TypeOK
  BY DEF Inv
<1> QED
  BY <1>1, InitInv, NextInv, PTL DEF Spec

(* The values of the attributes of an agent stay together: the columns of  *)
(* executeAgentSerialization are equally long at every chunk boundary.     *)
THEOREM AlwaysAligned == Spec => []Aligned
<1>1. Inv => Aligned
  BY DEF Inv
<1> QED
  BY <1>1, InitInv, NextInv, PTL DEF Spec

(* serializeAgent never leaves a whole chunk in the buffers.               *)
THEOREM AlwaysBounded == Spec => []BufferBounded
<1>1. Inv => BufferBounded
  BY DEF Inv
<1> QED
  BY <1>1, InitInv, NextInv, PTL DEF Spec

----------------------------------------------------------------------------
(* The refinement *)

RowsKnown == \A t \in Types : \A k \in Steps :
    Rows(t, k) = RowsOf(file[t][k], IF k = step THEN buffer[t] ELSE NoRows)

LEMMA AllRows == Inv => RowsKnown
BY RowsAre DEF RowsKnown

LEMMA AllRowsPrime == Inv' => RowsKnown'
BY AllRows, PTL

\* Serializing an agent is a row more, and leaves the other rows.
LEMMA RowsAfterAgent ==
    ASSUME Inv, Inv', NEW t \in Types, serializeAgent(t)
    PROVE  \A u \in Types : \A k \in Steps :
               Rows(u, k)' = IF u = t /\ k = step THEN Append(Rows(u, k), Agent1.row) ELSE Rows(u, k)
<1> DEFINE row == Agent1.row
           data == Added(buffer[t], row)
<1>1. step \in Steps /\ step' = step /\ row \in [Attributes -> Value]
  BY RowType DEF serializeAgent
<1>2. Shapes /\ EachType
  BY InvByType
<1>3. \A u \in Types \ {t} : buffer'[u] = buffer[u] /\ file'[u] = file[u]
  BY <1>2 DEF serializeAgent, Shapes
<1>4. file[t] \in [Steps -> Columns] /\ buffer[t] \in Columns /\ EqualLengths(buffer[t])
  BY <1>2 DEF EachType, TypeInv
<1>5. data \in Columns /\ EqualLengths(data)
  BY <1>1, <1>4, AddedType
<1>6. EqualLengths(file[t][step])
  BY <1>1, <1>2 DEF EachType, TypeInv
<1>7. RowsOf(file[t][step], data) = Append(RowsOf(file[t][step], buffer[t]), row)
  BY <1>1, <1>4, <1>6, RowsAdded
<1>8. \/ buffer'[t] = data /\ file'[t] = file[t]
      \/ buffer'[t] = Left(data) /\ file'[t] = WrittenFile(t, data)
  BY <1>2 DEF serializeAgent, Shapes
<1>9. /\ Left(data) = NoRows
      /\ \A k \in Steps : k # step => WrittenFile(t, data)[k] = file[t][k]
      /\ RowsOf(WrittenFile(t, data)[step], NoRows) = RowsOf(file[t][step], data)
  BY <1>1, <1>5, ExecuteFacts
<1> HIDE DEF data, row
<1>10. RowsOf(file'[t][step], buffer'[t]) = Append(RowsOf(file[t][step], buffer[t]), row)
  BY <1>7, <1>8, <1>9
<1>11. \A k \in Steps : k # step => file'[t][k] = file[t][k]
  BY <1>8, <1>9
<1>12. \A u \in Types : \A k \in Steps :
         Rows(u, k) = RowsOf(file[u][k], IF k = step THEN buffer[u] ELSE NoRows)
  BY AllRows DEF RowsKnown
<1>13. \A u \in Types : \A k \in Steps :
         Rows(u, k)' = RowsOf(file'[u][k], IF k = step' THEN buffer'[u] ELSE NoRows)
  BY AllRowsPrime DEF RowsKnown
<1>14. \A u \in Types : \A k \in Steps :
         Rows(u, k)' = IF u = t /\ k = step THEN Append(Rows(u, k), row) ELSE Rows(u, k)
  <2> SUFFICES ASSUME NEW u \in Types, NEW k \in Steps
               PROVE  Rows(u, k)' = IF u = t /\ k = step THEN Append(Rows(u, k), row)
                                    ELSE Rows(u, k)
    OBVIOUS
  <2>1. CASE u # t
    BY <2>1, <1>1, <1>3, <1>12, <1>13
  <2>2. CASE u = t /\ k # step
    BY <2>2, <1>1, <1>11, <1>12, <1>13
  <2>3. CASE u = t /\ k = step
    BY <2>3, <1>1, <1>10, <1>12, <1>13
  <2> QED
    BY <2>1, <2>2, <2>3
<1> QED
  BY <1>14 DEF row

LEMMA SerializeRecords ==
    ASSUME Inv, Inv', NEW t \in Types, serializeAgent(t)
    PROVE  History!Record(t, Agent1.row)
<1> DEFINE row == Agent1.row
<1>1. step \in Steps /\ step' = step
  BY DEF serializeAgent
<1>2. \A u \in Types : \A k \in Steps :
         Rows(u, k)' = IF u = t /\ k = step THEN Append(Rows(u, k), row) ELSE Rows(u, k)
  BY RowsAfterAgent
<1> HIDE DEF row
<1>3. [u \in Types |-> [k \in Steps |-> Rows(u, k)']]
         = [[u \in Types |-> [k \in Steps |-> Rows(u, k)]] EXCEPT ![t][step] = Append(@, row)]
  BY <1>1, <1>2
<1> QED
  BY <1>1, <1>3 DEF History!Record, History!Steps, Steps, row

\* The end of a step moves rows to the file and changes none.
LEMMA FinishKeepsRows ==
    ASSUME Inv, Inv', finishAgentsSerialization
    PROVE  \A t \in Types : \A k \in Steps : Rows(t, k)' = Rows(t, k)
<1>1. step \in Steps /\ step' = step + 1
  BY DEF finishAgentsSerialization
<1>2. EachType /\ RowsKnown /\ RowsKnown'
  BY InvByType, AllRows, AllRowsPrime
<1>3. ASSUME NEW t \in Types, NEW k \in Steps
      PROVE  Rows(t, k)' = Rows(t, k)
  <2>1. buffer[t] \in Columns /\ EqualLengths(buffer[t]) /\ (t \notin registered => buffer[t] = NoRows)
    BY <1>2 DEF EachType, TypeInv
  <2>2. Rows(t, k) = RowsOf(file[t][k], IF k = step THEN buffer[t] ELSE NoRows)
    BY <1>2 DEF RowsKnown
  <2>3. /\ Left(buffer[t]) = NoRows
        /\ \A j \in Steps : j # step => WrittenFile(t, buffer[t])[j] = file[t][j]
        /\ RowsOf(WrittenFile(t, buffer[t])[step], NoRows) = RowsOf(file[t][step], buffer[t])
    BY <1>1, <2>1, ExecuteFacts
  <2>4. /\ t \in registered => buffer'[t] = Left(buffer[t])
                               /\ file'[t] = WrittenFile(t, buffer[t])
        /\ t \notin registered => buffer'[t] = buffer[t] /\ file'[t] = file[t]
    BY DEF finishAgentsSerialization
  <2>5. buffer'[t] = NoRows
    BY <2>1, <2>3, <2>4
  <2>6. Rows(t, k)' = RowsOf(file'[t][k], NoRows)
    BY <1>2, <2>5 DEF RowsKnown
  <2>7. CASE t \in registered
    BY <2>2, <2>3, <2>4, <2>6, <2>7
  <2>8. CASE t \notin registered
    BY <2>1, <2>2, <2>4, <2>6, <2>8
  <2> QED
    BY <2>7, <2>8
<1> QED
  BY <1>3

LEMMA FinishIsNextStep ==
    ASSUME Inv, Inv', finishAgentsSerialization
    PROVE  History!NextStep
<1>1. step \in Steps /\ step' = step + 1
  BY DEF finishAgentsSerialization
<1>2. [t \in Types |-> [k \in Steps |-> Rows(t, k)']] = [t \in Types |-> [k \in Steps |-> Rows(t, k)]]
  BY FinishKeepsRows, Zenon
<1> QED
  BY <1>1, <1>2 DEF History!NextStep, History!Steps, Steps

LEMMA InitHistory == Init => History!Init
<1> SUFFICES ASSUME Init PROVE History!Init
  OBVIOUS
<1>1. Inv
  BY InitInv
<1>2. step = 0 /\ \A t \in Types : buffer[t] = NoRows /\ \A k \in Steps : file[t][k] = NoRows
  BY DEF Init
<1>3. ASSUME NEW t \in Types, NEW k \in Steps PROVE Rows(t, k) = <<>>
  <2>1. Rows(t, k) = RowsOf(NoRows, NoRows)
    BY <1>1, <1>2, AllRows DEF RowsKnown
  <2>2. RowsOf(NoRows, NoRows) = [i \in 1 .. 0 + 0 |-> [a \in Attributes |->
          IF i =< 0 THEN NoRows[a][i] ELSE NoRows[a][i - 0]]]
    BY NoRowsType DEF RowsOf
  <2> QED
    BY <2>1, <2>2
<1>4. [t \in Types |-> [k \in Steps |-> Rows(t, k)]] = [t \in Types |-> [k \in Steps |-> <<>>]]
  BY <1>3, Zenon
<1> QED
  BY <1>2, <1>4 DEF History!Init, History!Steps, Steps

LEMMA StepOfHistory == Inv /\ Inv' /\ [Next]_vars => [History!Next]_(History!vars)
<1> SUFFICES ASSUME Inv, Inv', [Next]_vars PROVE [History!Next]_(History!vars)
  OBVIOUS
<1>1. ASSUME step' = step, buffer' = buffer, file' = file PROVE UNCHANGED History!vars
  BY <1>1 DEF History!vars, Rows
<1>2. CASE SkipAgent
  BY <1>1, <1>2 DEF SkipAgent
<1>3. ASSUME NEW t \in Types, serializeAgent(t) PROVE History!Next
  <2>1. Agent1.row \in History!Row
    BY <1>3, RowType DEF serializeAgent, History!Row
  <2> QED
    BY <1>3, <2>1, SerializeRecords DEF History!Next
<1>4. CASE finishAgentsSerialization
  BY <1>4, FinishIsNextStep DEF History!Next
<1>5. CASE Closed \/ UNCHANGED vars
  BY <1>1, <1>5 DEF Closed, vars
<1> QED
  BY <1>2, <1>3, <1>4, <1>5 DEF Next

(* Whatever the chunk size: the file with the buffers behind it is a       *)
(* history of whole agents, of which a step that is over never changes.    *)
THEOREM Implementation == Spec => IsHistory
<1>1. Inv /\ [Next]_vars => Inv'
  BY NextInv
<1>2. Inv /\ Inv' /\ [Next]_vars => [History!Next]_(History!vars)
  BY StepOfHistory
<1> QED
  BY <1>1, <1>2, InitInv, InitHistory, PTL DEF Spec, IsHistory, History!Spec

----------------------------------------------------------------------------
(* Nobody is missing: Serialized, for a list given as a value.             *)

Those(list, t, n) == {i \in DOMAIN list : i =< n /\ list[i].exists /\ list[i].type = t}

\* The rows are those of the existing agents among the first n of the list.
Listed(rows, list, t, n) ==
    /\ Len(rows) = Cardinality(Those(list, t, n))
    /\ \A i \in Those(list, t, n) : rows[Cardinality(Those(list, t, i))] = list[i].row

ListInv ==
    /\ next \in 1 .. Len(agents) + 1
    /\ \A k \in Steps : k = step => \A t \in Types : Listed(Rows(t, k), agents, t, next - 1)

LEMMA ThoseFinite ==
    ASSUME NEW list \in Seq(Agent), NEW t, NEW n
    PROVE  IsFiniteSet(Those(list, t, n)) /\ Cardinality(Those(list, t, n)) \in Nat
<1>1. IsFiniteSet(1 .. Len(list))
  BY FS_Interval
<1>2. Those(list, t, n) \in SUBSET (1 .. Len(list))
  BY DEF Those
<1> QED
  BY <1>1, <1>2, FS_Subset, FS_CardinalityType

LEMMA NobodyYet ==
    ASSUME NEW list \in Seq(Agent), NEW t, NEW rows, Len(rows) = 0
    PROVE  Listed(rows, list, t, 0)
<1>1. Those(list, t, 0) = {}
  BY DEF Those
<1> QED
  BY <1>1, FS_EmptySet DEF Listed

\* One agent more: it counts if it exists and is of the type.
LEMMA OneMore ==
    ASSUME NEW list \in Seq(Agent), NEW t, NEW n \in 1 .. Len(list)
    PROVE  /\ list[n].exists /\ list[n].type = t =>
                  Those(list, t, n) = Those(list, t, n - 1) \union {n} /\ n \notin Those(list, t, n - 1)
           /\ ~(list[n].exists /\ list[n].type = t) => Those(list, t, n) = Those(list, t, n - 1)
BY DEF Those

LEMMA ListedOther ==
    ASSUME NEW list \in Seq(Agent), NEW t, NEW n \in 1 .. Len(list), NEW rows,
           ~(list[n].exists /\ list[n].type = t), Listed(rows, list, t, n - 1)
    PROVE  Listed(rows, list, t, n)
BY OneMore DEF Listed

LEMMA ListedMore ==
    ASSUME NEW list \in Seq(Agent), NEW t, NEW n \in 1 .. Len(list), NEW S, NEW rows \in Seq(S), NEW row \in S,
           list[n].exists, list[n].type = t, row = list[n].row, Listed(rows, list, t, n - 1)
    PROVE  Listed(Append(rows, row), list, t, n)
<1> DEFINE old == Those(list, t, n - 1)
           new == Append(rows, row)
           rank(i) == Cardinality(Those(list, t, i))
<1>1. Those(list, t, n) = old \union {n} /\ n \notin old
  BY OneMore
<1>2. IsFiniteSet(old) /\ Cardinality(old) \in Nat
  BY ThoseFinite
<1>3. rank(n) = Cardinality(old) + 1
  BY <1>1, <1>2, FS_AddElement
<1>4. Len(rows) = Cardinality(old) /\ \A i \in old : rows[rank(i)] = list[i].row
  BY DEF Listed
<1>5. ASSUME NEW i \in old PROVE rank(i) \in 1 .. Len(rows)
  <2>1. Those(list, t, i) \in SUBSET old /\ i \in Those(list, t, i)
    BY DEF Those
  <2>2. IsFiniteSet(Those(list, t, i)) /\ rank(i) \in Nat
    BY ThoseFinite
  <2>3. rank(i) # 0
    BY <2>1, <2>2, FS_EmptySet
  <2>4. rank(i) =< Cardinality(old)
    BY <1>2, <2>1, FS_Subset
  <2> QED
    BY <1>2, <1>4, <2>2, <2>3, <2>4
<1> HIDE DEF old, rank
<1>6. Len(new) = rank(n) /\ new[rank(n)] = row /\ \A j \in 1 .. Len(rows) : new[j] = rows[j]
  BY <1>2, <1>3, <1>4
<1>7. \A i \in old \union {n} : new[rank(i)] = list[i].row
  BY <1>4, <1>5, <1>6
<1> QED
  BY <1>1, <1>6, <1>7 DEF Listed, rank, old

LEMMA RowsAreRows ==
    ASSUME Inv, NEW t \in Types, NEW k \in Steps
    PROVE  /\ Rows(t, k) \in Seq([Attributes -> Value])
           /\ k > step => Len(Rows(t, k)) = 0
<1> DEFINE f == file[t][k]
           b == IF k = step THEN buffer[t] ELSE NoRows
           m == Len(f[IdAttribute])
           n == Len(b[IdAttribute])
<1>1. /\ f \in Columns /\ EqualLengths(f) /\ b \in Columns /\ EqualLengths(b)
      /\ k > step => m = 0 /\ n = 0
  <2>1. k > step => k # step
    BY DEF Inv, TypeOK, Steps
  <2> QED
    BY <2>1, ColumnsOfType, NoRowsType
<1>2. Rows(t, k) = RowsOf(f, b)
  BY RowsAre
<1> HIDE DEF f, b
<1>3. m \in Nat /\ n \in Nat
  BY <1>1, IdIsAttribute DEF Columns
<1>4. RowsOf(f, b) = [i \in 1 .. m + n |-> [a \in Attributes |-> IF i =< m THEN f[a][i] ELSE b[a][i - m]]]
  BY DEF RowsOf
<1> HIDE DEF m, n
<1>5. ASSUME NEW i \in 1 .. m + n, NEW a \in Attributes
      PROVE  (IF i =< m THEN f[a][i] ELSE b[a][i - m]) \in Value
  <2>1. f[a] \in Seq(Value) /\ Len(f[a]) = m /\ b[a] \in Seq(Value) /\ Len(b[a]) = n
    BY <1>1 DEF Columns, EqualLengths, m, n
  <2>2. i =< m \/ i - m \in 1 .. n
    BY <1>3
  <2> QED
    BY <1>3, <2>1, <2>2
<1>6. RowsOf(f, b) \in [1 .. m + n -> [Attributes -> Value]]
  BY <1>4, <1>5
<1>7. RowsOf(f, b) \in Seq([Attributes -> Value]) /\ Len(RowsOf(f, b)) = m + n
  BY <1>3, <1>6
<1> QED
  BY <1>1, <1>2, <1>3, <1>7

LEMMA InitList == Init => ListInv
<1> SUFFICES ASSUME Init PROVE ListInv
  OBVIOUS
<1>1. Inv /\ agents \in Seq(Agent) /\ next = 1 /\ step = 0
  BY InitInv DEF Init, Inv, TypeOK
<1>2. ASSUME NEW k \in Steps, NEW t \in Types PROVE Len(Rows(t, k)) = 0
  <2>1. Rows(t, k) = RowsOf(NoRows, NoRows)
    BY <1>1, AllRows DEF RowsKnown, Init
  <2>2. RowsOf(NoRows, NoRows) = [i \in 1 .. 0 + 0 |-> [a \in Attributes |->
          IF i =< 0 THEN NoRows[a][i] ELSE NoRows[a][i - 0]]]
    BY NoRowsType DEF RowsOf
  <2> QED
    BY <2>1, <2>2
<1>3. next - 1 = 0 /\ next \in 1 .. Len(agents) + 1
  BY <1>1
<1> QED
  BY <1>1, <1>2, <1>3, NobodyYet DEF ListInv

LEMMA ListStep == Inv /\ Inv' /\ ListInv /\ [Next]_vars => ListInv'
<1> SUFFICES ASSUME Inv, Inv', ListInv, [Next]_vars PROVE ListInv'
  OBVIOUS
<1>0. agents \in Seq(Agent) /\ next \in 1 .. Len(agents) + 1
  BY DEF Inv, TypeOK, ListInv
<1>1. ASSUME step' = step, buffer' = buffer, file' = file
      PROVE  \A k \in Steps, t \in Types : Rows(t, k)' = Rows(t, k)
  BY <1>1 DEF Rows
<1>2. CASE SkipAgent
  <2>1. /\ next \in 1 .. Len(agents) /\ ~agents[next].exists /\ next' = next + 1 /\ agents' = agents
        /\ step' = step /\ buffer' = buffer /\ file' = file
    BY <1>0, <1>2 DEF SkipAgent, Agent1
  <2>2. next' \in 1 .. Len(agents') + 1 /\ next' - 1 = next
    BY <2>1
  <2>3. ASSUME NEW k \in Steps, k = step', NEW t \in Types PROVE Listed(Rows(t, k)', agents', t, next)
    <3>1. Listed(Rows(t, k), agents, t, next - 1)
      BY <2>1, <2>3 DEF ListInv
    <3> QED
      BY <1>0, <1>1, <2>1, <3>1, ListedOther
  <2> QED
    BY <2>2, <2>3 DEF ListInv
<1>3. ASSUME NEW u \in Types, serializeAgent(u) PROVE ListInv'
  <2>1. /\ next \in 1 .. Len(agents) /\ agents[next].exists /\ agents[next].type = u
        /\ next' = next + 1 /\ agents' = agents /\ step' = step /\ step \in Steps
    BY <1>0, <1>3 DEF serializeAgent, Agent1
  <2>2. next' \in 1 .. Len(agents') + 1 /\ next' - 1 = next
    BY <2>1
  <2>3. ASSUME NEW k \in Steps, k = step', NEW t \in Types PROVE Listed(Rows(t, k)', agents', t, next)
    <3>1. Listed(Rows(t, k), agents, t, next - 1)
      BY <2>1, <2>3 DEF ListInv
    <3>2. Rows(t, k)' = IF t = u /\ k = step THEN Append(Rows(t, k), Agent1.row) ELSE Rows(t, k)
      BY <1>3, RowsAfterAgent
    <3>3. CASE t = u
      <4>1. Rows(t, k)' = Append(Rows(t, k), Agent1.row) /\ Agent1.row = agents[next].row
        BY <2>1, <2>3, <3>2, <3>3 DEF Agent1
      <4>2. Rows(t, k) \in Seq([Attributes -> Value]) /\ Agent1.row \in [Attributes -> Value]
        BY <1>3, RowsAreRows, RowType DEF serializeAgent
      <4> QED
        BY <1>0, <2>1, <3>1, <3>3, <4>1, <4>2, ListedMore
    <3>4. CASE t # u
      BY <1>0, <2>1, <3>1, <3>2, <3>4, ListedOther
    <3> QED
      BY <3>3, <3>4
  <2> QED
    BY <2>2, <2>3 DEF ListInv
<1>4. CASE finishAgentsSerialization
  <2>1. step' = step + 1 /\ next' = 1 /\ agents' \in Seq(Agent) /\ step \in Nat
    BY <1>4, PopulationsAssumption, NumbersAssumption DEF finishAgentsSerialization, Steps
  <2>2. next' \in 1 .. Len(agents') + 1 /\ next' - 1 = 0
    BY <2>1
  <2>3. ASSUME NEW k \in Steps, k = step', NEW t \in Types PROVE Listed(Rows(t, k)', agents', t, 0)
    <3>1. k > step
      BY <2>1, <2>3
    <3>2. Rows(t, k)' = Rows(t, k) /\ Len(Rows(t, k)) = 0
      BY <1>4, <3>1, FinishKeepsRows, RowsAreRows
    <3> QED
      BY <2>1, <3>2, NobodyYet
  <2> QED
    BY <2>2, <2>3 DEF ListInv
<1>5. CASE Closed \/ UNCHANGED vars
  <2>1. agents' = agents /\ next' = next /\ step' = step /\ buffer' = buffer /\ file' = file
    BY <1>5 DEF Closed, vars
  <2> QED
    BY <1>1, <2>1 DEF ListInv
<1> QED
  BY <1>2, <1>3, <1>4, <1>5 DEF Next

(* Every existing agent of the list a step begins with is recorded once,   *)
(* in the order of the list, and no other agent (serializeAgents), whatever *)
(* the chunk size.                                                         *)
THEOREM NobodyIsMissing == Spec => []NobodyMissing
<1>1. ListInv => NobodyMissing
  <2> SUFFICES ASSUME ListInv, step \in Steps, NEW t \in Types
               PROVE  /\ Len(Rows(t, step)) = Cardinality(Serialized(t, next - 1))
                      /\ \A i \in Serialized(t, next - 1) :
                            Rows(t, step)[Cardinality(Serialized(t, i))] = agents[i].row
    BY DEF NobodyMissing
  <2>1. Listed(Rows(t, step), agents, t, next - 1)
    BY DEF ListInv
  <2>2. \A n : Serialized(t, n) = Those(agents, t, n)
    BY DEF Serialized, Those
  <2> QED
    BY <2>1, <2>2 DEF Listed
<1>2. Inv /\ [Next]_vars => Inv'
  BY NextInv
<1>3. Inv /\ Inv' /\ ListInv /\ [Next]_vars => ListInv'
  BY ListStep
<1> QED
  BY <1>1, <1>2, <1>3, InitInv, InitList, PTL DEF Spec
=============================================================================
