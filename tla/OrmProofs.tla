------------------------------ MODULE OrmProofs ------------------------------
(***************************************************************************)
(* Proofs about module Orm, for every set of mappings and all arguments.   *)
(***************************************************************************)
EXTENDS Orm, FiniteSetTheorems, WellFoundedInduction, TLAPS

-----------------------------------------------------------------------------
(* The inductive invariant. *)

\* What the statements before have left satisfies the table's constraints.
Consistent == ~Violates(rows) /\ (table = {} => DOMAIN rows = {})

\* A row has what its mapping sent, be the columns of the table what they may.
Stored ==
  \A i \in DOMAIN rows : \A f \in ToSet(rows[i].by) :
    Sent(f) => f.column \in Columns /\ rows[i].cells[f.column] # Null

OrmInv == TypeOK /\ Consistent /\ Stored
-----------------------------------------------------------------------------
(* Lemmas about the operators. *)

(* Every nonempty set of naturals has a smallest member.                     *)
LEMMA SmallestOf ==
  ASSUME NEW S, S \subseteq Nat, S # {}
  PROVE  \E n \in S : \A m \in S : n <= m
<1> DEFINE less == OpToRel(<, Nat)
<1>1. PICK n \in S : \A m \in S : ~(<<m, n>> \in less)
  BY NatLessThanWellFounded, WFMin
<1>2. ASSUME NEW m \in S PROVE n <= m
  <2>1. m \in Nat /\ n \in Nat
    OBVIOUS
  <2>2. m < n => <<m, n>> \in less
    BY <2>1 DEF OpToRel
  <2>3. ~(m < n)
    <3> HIDE DEF less
    <3> QED BY <1>1, <2>2
  <2> QED BY <2>1, <2>3
<1> QED BY <1>2

(* And one with a bound has a greatest, which is its Max.                    *)
LEMMA MaxOf ==
  ASSUME NEW S, NEW b \in Nat, S \subseteq 1..b, S # {}
  PROVE  Max(S) \in S /\ \A m \in S : m <= Max(S)
<1> DEFINE T == {b - m : m \in S}
<1>1. T \subseteq Nat /\ T # {}
  <2>1. \A m \in S : m \in 1..b
    OBVIOUS
  <2>2. \A m \in S : b - m \in Nat
    BY <2>1
  <2>3. T \subseteq Nat
    BY <2>2
  <2> QED BY <2>3
<1>2. PICK t \in T : \A u \in T : t <= u
  <2> HIDE DEF T
  <2> QED BY <1>1, SmallestOf
<1>3. PICK n \in S : t = b - n
  OBVIOUS
<1>4. \A m \in S : m \in Int
  OBVIOUS
<1>5. \A m \in S : b - n <= b - m
  BY <1>2, <1>3
<1>6. \A m \in S : n >= m
  BY <1>4, <1>5
<1>7. Max(S) \in S /\ \A m \in S : Max(S) >= m
  BY <1>6 DEF Max
<1> QED BY <1>4, <1>7

(* What is listed has a place of its own.                                    *)
LEMMA PlaceOfItsOwn ==
  ASSUME NEW S, S \subseteq Nat, IsFiniteSet(S), NEW i \in S, NEW j \in S,
         Place(i, S) = Place(j, S)
  PROVE  i = j
<1> DEFINE Upto(k) == {l \in S : l <= k}
<1>1. \A k \in S : IsFiniteSet(Upto(k))
  BY FS_Subset
<1>2. \A k, l \in S : k < l => Cardinality(Upto(k)) < Cardinality(Upto(l))
  <2> SUFFICES ASSUME NEW k \in S, NEW l \in S, k < l
               PROVE  Cardinality(Upto(k)) < Cardinality(Upto(l))
    OBVIOUS
  <2>1. k \in Nat /\ l \in Nat /\ \A n \in S : n \in Nat
    OBVIOUS
  <2>2. Upto(k) \subseteq Upto(l) /\ l \in Upto(l) /\ l \notin Upto(k)
    <3>1. \A n \in S : n <= k => n <= l
      BY <2>1
    <3>2. l <= l /\ ~(l <= k)
      BY <2>1
    <3> QED BY <3>1, <3>2
  <2>3. Upto(k) # Upto(l)
    BY <2>2
  <2>4. IsFiniteSet(Upto(k)) /\ IsFiniteSet(Upto(l))
    BY <1>1
  <2> HIDE DEF Upto
  <2>5. Cardinality(Upto(k)) \in Nat /\ Cardinality(Upto(l)) \in Nat
    BY <2>4, FS_CardinalityType
  <2>6. Cardinality(Upto(k)) <= Cardinality(Upto(l))
    BY <2>2, <2>4, FS_Subset
  <2>7. Cardinality(Upto(k)) # Cardinality(Upto(l))
    BY <2>2, <2>3, <2>4, FS_Subset
  <2> QED BY <2>5, <2>6, <2>7
<1>3. Cardinality(Upto(i)) = Cardinality(Upto(j))
  BY DEF Place
<1>4. Cardinality(Upto(i)) \in Nat /\ Cardinality(Upto(j)) \in Nat
  BY <1>1, FS_CardinalityType
<1> HIDE DEF Upto
<1>5. ~(i < j) /\ ~(j < i)
  BY <1>2, <1>3, <1>4
<1>6. i \in Nat /\ j \in Nat
  OBVIOUS
<1> QED BY <1>5, <1>6

(* The struct: its fields have a position, and a column, of their own.       *)
LEMMA Struct ==
  ASSUME mapping \in Mappings
  PROVE  /\ DOMAIN mapping \subseteq Nat /\ IsFiniteSet(DOMAIN mapping)
         /\ \A i \in DOMAIN mapping : mapping[i] \in Field
         /\ \A i, j \in DOMAIN mapping :
              mapping[i].column = mapping[j].column => i = j
         /\ Fields # {}
         /\ \A f \in Fields : f \in Field /\ \E i \in DOMAIN mapping : f = mapping[i]
         /\ \A f, g \in Fields : f.column = g.column => f = g
<1>1. mapping \in Seq(Field)
  BY OrmAssumption
<1>2. DOMAIN mapping = 1..Len(mapping) /\ Len(mapping) \in Nat
  BY <1>1
<1>3. DOMAIN mapping \subseteq Nat /\ IsFiniteSet(DOMAIN mapping)
  BY <1>2, FS_Interval
<1>4. \A i \in DOMAIN mapping : mapping[i] \in Field
  BY <1>1
<1>5. \A i, j \in DOMAIN mapping : mapping[i].column = mapping[j].column => i = j
  BY OrmAssumption
<1>6. Fields # {}
  BY OrmAssumption DEF Fields
<1>7. \A f \in Fields : \E i \in DOMAIN mapping : f = mapping[i]
  BY DEF Fields, ToSet
<1>8. \A f, g \in Fields : f.column = g.column => f = g
  BY <1>5, <1>7
<1> QED BY <1>3, <1>4, <1>5, <1>6, <1>7, <1>8

(* Whatever is listed as a value is listed as a column, so lists of one      *)
(* length are the same list.                                                 *)
LEMMA SameLists ==
  ASSUME mapping \in Mappings, Cardinality(ColumnList) = Cardinality(ValueList)
  PROVE  ColumnList = ValueList
<1>1. ValueList \subseteq ColumnList
  BY DEF ValueList, ColumnList, Valued, Listed
<1>2. IsFiniteSet(ColumnList)
  BY Struct, FS_Subset DEF ColumnList
<1> QED BY <1>1, <1>2, FS_Subset

(* The value that the database takes is that of the field itself.            *)
LEMMA GiverIsListed ==
  ASSUME mapping \in Mappings, Cardinality(ColumnList) = Cardinality(ValueList),
         NEW i \in ColumnList
  PROVE  Giver(i) = mapping[i]
<1>1. ColumnList = ValueList
  BY SameLists
<1>2. ValueList \subseteq Nat /\ IsFiniteSet(ValueList)
  BY Struct, FS_Subset DEF ValueList
<1>3. \A j \in ValueList : Place(j, ValueList) = Place(i, ColumnList) => j = i
  BY <1>1, <1>2, PlaceOfItsOwn
<1>4. (CHOOSE j \in ValueList : Place(j, ValueList) = Place(i, ColumnList)) = i
  BY <1>1, <1>3
<1> QED BY <1>4 DEF Giver

(* So a column that is listed is filled with the member that maps to it.     *)
LEMMA FilledListed ==
  ASSUME mapping \in Mappings, Cardinality(ColumnList) = Cardinality(ValueList),
         NEW i \in ColumnList, NEW c, c.name = mapping[i].column, NEW o
  PROVE  Filled(c, o) = Written(mapping[i], o[mapping[i].name])
<1> DEFINE at == {j \in ColumnList : mapping[j].column = c.name}
<1>1. i \in at
  OBVIOUS
<1>2. \A j \in at : j = i
  BY Struct DEF ColumnList
<1>3. (CHOOSE j \in at : TRUE) = i
  BY <1>1, <1>2
<1>4. Giver(CHOOSE j \in at : TRUE) = mapping[i]
  BY <1>3, GiverIsListed
<1> QED BY <1>1, <1>4 DEF Filled

LEMMA WrittenType ==
  ASSUME NEW f, NEW v \in Nat
  PROVE  Written(f, v) \in Nat
<1>1. v \div 10 \in Nat
  OBVIOUS
<1> QED BY <1>1 DEF Written

LEMMA FilledType ==
  ASSUME mapping \in Mappings, Cardinality(ColumnList) = Cardinality(ValueList),
         sequence \in Nat, NEW c, NEW o \in Objects
  PROVE  /\ Filled(c, o) \in Nat \cup {Null}
         /\ c.default # "null" /\ c.default \in {"sequence", "value", "null"} =>
              Filled(c, o) # Null
<1>1. CASE \E i \in ColumnList : mapping[i].column = c.name
  <2>1. PICK i \in ColumnList : mapping[i].column = c.name
    BY <1>1
  <2>2. Filled(c, o) = Written(mapping[i], o[mapping[i].name])
    BY <2>1, FilledListed
  <2>3. mapping[i] \in Fields
    BY DEF ColumnList, Fields, ToSet
  <2>4. o[mapping[i].name] \in Nat
    BY <2>3, OrmAssumption DEF Objects
  <2>5. Filled(c, o) \in Nat
    BY <2>2, <2>4, WrittenType
  <2> QED BY <2>5 DEF Null
<1>2. CASE ~ \E i \in ColumnList : mapping[i].column = c.name
  <2>1. Filled(c, o) = IF c.default = "sequence" THEN sequence + 1
                       ELSE IF c.default = "value" THEN 0 ELSE Null
    BY <1>2 DEF Filled
  <2> QED BY <2>1 DEF Null
<1> QED BY <1>1, <1>2

(* The cells of a new row: of their type, and what was sent in its column.   *)
LEMMA NewCellsFilled ==
  ASSUME TypeOK, ~InsertRefused, NEW o \in Objects
  PROVE  /\ NewCells(o) \in Cells
         /\ \A c \in table : NewCells(o)[c.name] = Filled(c, o)
         /\ \A f \in Fields : Sent(f) =>
              /\ f.column \in Columns
              /\ NewCells(o)[f.column] = Written(f, o[f.name])
              /\ o[f.name] \in Nat
<1>1. mapping \in Mappings /\ sequence \in Nat
  BY DEF TypeOK
<1>2. Cardinality(ColumnList) = Cardinality(ValueList)
  BY DEF InsertRefused
<1>3. NewCells(o) \in Cells
  BY <1>1, <1>2, FilledType DEF NewCells, Cells
<1>4. ASSUME NEW c \in table PROVE NewCells(o)[c.name] = Filled(c, o)
  <2>1. c.name \in Columns
    BY DEF Columns
  <2>2. (CHOOSE d \in table : d.name = c.name) = c
    BY DEF TypeOK
  <2> QED BY <2>1, <2>2 DEF NewCells
<1>5. ASSUME NEW f \in Fields, Sent(f)
      PROVE  /\ f.column \in Columns
             /\ NewCells(o)[f.column] = Written(f, o[f.name])
             /\ o[f.name] \in Nat
  <2>1. PICK i \in DOMAIN mapping : f = mapping[i]
    BY <1>1, Struct
  <2>2. i \in ValueList
    BY <1>5, <2>1 DEF ValueList, Valued, Sent
  <2>3. i \in ColumnList
    BY <1>1, <1>2, <2>2, SameLists
  <2>4. f.column \in Columns
    BY <2>1, <2>3 DEF InsertRefused
  <2>5. PICK c \in table : c.name = f.column
    BY <2>4 DEF Columns
  <2>6. NewCells(o)[f.column] = Filled(c, o)
    BY <1>4, <2>5
  <2>7. Filled(c, o) = Written(f, o[f.name])
    BY <1>1, <1>2, <2>1, <2>3, <2>5, FilledListed
  <2>8. o[f.name] \in Nat
    BY OrmAssumption DEF Objects
  <2> QED BY <2>4, <2>6, <2>7, <2>8
<1> QED BY <1>3, <1>4, <1>5

(* An update takes the value that was named last.                            *)
LEMMA ValueInLast ==
  ASSUME NEW args \in Arguments, NEW f, Naming(args, f.name) # {}
  PROVE  \E i \in Naming(args, f.name) :
           /\ ValueIn(args, f) = Written(f, args[i].value)
           /\ args[i].value \in Nat
           /\ LastNamed(args, f.name, args[i].value)
<1> DEFINE at == Naming(args, f.name)
<1>1. args \in Seq([name : STRING, value : Nat])
  BY OrmAssumption
<1>2. DOMAIN args = 1..Len(args) /\ Len(args) \in Nat
  BY <1>1
<1>3. at \subseteq 1..Len(args) /\ at # {}
  BY <1>2 DEF Naming
<1>4. Max(at) \in at /\ \A j \in at : j <= Max(at)
  <2> HIDE DEF at
  <2> QED BY <1>2, <1>3, MaxOf
<1>5. args[Max(at)].value \in Nat
  <2>1. Max(at) \in DOMAIN args
    BY <1>2, <1>3, <1>4
  <2>2. \A i \in DOMAIN args : args[i] \in [name : STRING, value : Nat]
    <3> DEFINE Argument == [name : STRING, value : Nat]
    <3> HIDE DEF Argument
    <3>1. \A s \in Seq(Argument) : \A i \in DOMAIN s : s[i] \in Argument
      OBVIOUS
    <3> QED BY <1>1, <3>1 DEF Argument
  <2> HIDE DEF at
  <2>3. args[Max(at)] \in [name : STRING, value : Nat]
    BY <2>1, <2>2
  <2> QED BY <2>3
<1>6. LastNamed(args, f.name, args[Max(at)].value)
  BY <1>4 DEF LastNamed
<1> QED BY <1>4, <1>5, <1>6 DEF ValueIn

(* The row of an update: what is assigned changes, and nothing else.         *)
LEMMA UpdatedRow ==
  ASSUME mapping \in Mappings, NEW args \in Arguments, NEW row \in Row
  PROVE  /\ Updated(row, args) \in Row
         /\ Updated(row, args).by = row.by
         /\ \A name \in Columns :
              row.cells[name] # Null => Updated(row, args).cells[name] # Null
         /\ \A f \in Fields : f.column \in Columns =>
              Updated(row, args).cells[f.column] =
                IF f \in Assigned(args) THEN ValueIn(args, f) ELSE row.cells[f.column]
<1> DEFINE cells == [name \in Columns |->
                       IF \E f \in Assigned(args) : f.column = name
                       THEN ValueIn(args, CHOOSE f \in Assigned(args) : f.column = name)
                       ELSE row.cells[name]]
<1>1. row = [by |-> row.by, cells |-> row.cells] /\ row.by \in Mappings /\ row.cells \in Cells
  BY DEF Row
<1>2. Updated(row, args) = [by |-> row.by, cells |-> cells]
  BY <1>1 DEF Updated
<1>3. ASSUME NEW name \in Columns, NEW f \in Assigned(args), f.column = name
      PROVE  cells[name] = ValueIn(args, f) /\ ValueIn(args, f) \in Nat
  <2>1. \A g \in Assigned(args) : g.column = name => g = f
    BY <1>3, Struct DEF Assigned
  <2>2. (CHOOSE g \in Assigned(args) : g.column = name) = f
    BY <1>3, <2>1
  <2>3. cells[name] = ValueIn(args, f)
    BY <1>3, <2>2
  <2>4. Naming(args, f.name) # {}
    BY DEF Assigned
  <2>5. PICK i \in Naming(args, f.name) :
          ValueIn(args, f) = Written(f, args[i].value) /\ args[i].value \in Nat
    BY <2>4, ValueInLast
  <2>6. ValueIn(args, f) \in Nat
    BY <2>5, WrittenType
  <2> QED BY <2>3, <2>6
<1>4. ASSUME NEW name \in Columns, ~ \E f \in Assigned(args) : f.column = name
      PROVE  cells[name] = row.cells[name]
  BY <1>4
<1>5. \A name \in Columns : row.cells[name] \in Nat \cup {Null}
  BY <1>1 DEF Cells
<1>6. cells \in Cells
  <2>1. \A name \in Columns : cells[name] \in Nat \cup {Null}
    <3> HIDE DEF cells
    <3> QED BY <1>3, <1>4, <1>5
  <2> QED BY <2>1 DEF Cells
<1>7. \A name \in Columns : row.cells[name] # Null => cells[name] # Null
  <2> HIDE DEF cells
  <2> QED BY <1>3, <1>4 DEF Null
<1>8. ASSUME NEW f \in Fields, f.column \in Columns
      PROVE  cells[f.column] = IF f \in Assigned(args) THEN ValueIn(args, f)
                                                        ELSE row.cells[f.column]
  <2>1. CASE f \in Assigned(args)
    <3> HIDE DEF cells
    <3> QED BY <2>1, <1>3, <1>8
  <2>2. CASE f \notin Assigned(args)
    <3>1. ~ \E g \in Assigned(args) : g.column = f.column
      BY <2>2, Struct DEF Assigned
    <3> HIDE DEF cells
    <3> QED BY <2>2, <3>1, <1>4, <1>8
  <2> QED BY <2>1, <2>2
<1> HIDE DEF cells
<1>9. Updated(row, args) \in Row
  BY <1>1, <1>2, <1>6 DEF Row
<1> QED BY <1>2, <1>7, <1>8, <1>9

-----------------------------------------------------------------------------
(* Every call keeps the invariant. *)

(* What leaves the table alone need only answer for the rows.                *)
LEMMA RowsKept ==
  ASSUME OrmInv, table' = table, mapping' \in Mappings, sequence' \in 0..MaxInserts,
         DOMAIN rows' \subseteq 1..sequence', rows' \in [DOMAIN rows' -> Row],
         ~Violates(rows'), table = {} => DOMAIN rows' = {},
         \A i \in DOMAIN rows' : \A f \in ToSet(rows'[i].by) :
           Sent(f) => f.column \in Columns /\ rows'[i].cells[f.column] # Null
  PROVE  OrmInv'
<1>1. Columns' = Columns
  BY DEF Columns
<1>2. Cells' = Cells /\ Row' = Row
  BY <1>1 DEF Cells, Row
<1>3. (~Violates(rows))'
  BY DEF Violates
<1>4. \A i \in DOMAIN rows', c \in table : c.notNull => rows'[i].cells[c.name] # Null
  BY DEF Violates
<1>5. TypeOK'
  BY <1>2, <1>4 DEF OrmInv, TypeOK
<1>6. Consistent'
  BY <1>3 DEF Consistent
<1>7. Stored'
  BY <1>1 DEF Stored
<1> QED BY <1>5, <1>6, <1>7 DEF OrmInv

LEMMA NothingStored ==
  ASSUME OrmInv, UNCHANGED <<table, rows, sequence>>, mapping' \in Mappings
  PROVE  OrmInv'
<1>1. Columns' = Columns /\ Violates(rows)' = Violates(rows)
  BY DEF Columns, Violates
<1>2. Cells' = Cells /\ Row' = Row
  BY <1>1 DEF Cells, Row
<1>3. TypeOK'
  BY <1>2 DEF OrmInv, TypeOK
<1>4. Consistent' /\ Stored'
  BY <1>1 DEF OrmInv, Consistent, Stored
<1> QED BY <1>3, <1>4 DEF OrmInv

LEMMA ThrowsKeeps ==
  ASSUME OrmInv, Throws
  PROVE  OrmInv'
<1>1. mapping' \in Mappings /\ UNCHANGED <<table, rows, sequence>>
  BY DEF OrmInv, TypeOK, Throws
<1> QED BY <1>1, NothingStored

(* The columns of a struct: of their type, and one of a name.                *)
LEMMA ColumnOfType ==
  ASSUME NEW f \in Field
  PROVE  /\ ColumnOf(f) \in [name : STRING, type : Types, unique : BOOLEAN,
                             notNull : BOOLEAN, default : {"sequence", "value", "null"}]
         /\ ColumnOf(f).name = f.column
BY DEF ColumnOf, Field, Custom

LEMMA CreateTableKeeps ==
  ASSUME OrmInv, CreateTable
  PROVE  OrmInv'
<1>1. mapping \in Mappings /\ mapping' = mapping /\ rows' = rows /\ sequence' = sequence
  BY DEF OrmInv, TypeOK, CreateTable
<1>2. CASE table # {}
  <2>1. table' = table
    BY <1>2 DEF CreateTable
  <2> QED BY <1>1, <2>1, NothingStored
<1>3. CASE table = {}
  <2>1. DOMAIN rows = {} /\ sequence \in 0..MaxInserts /\ rows \in [DOMAIN rows -> Row]
    BY <1>3 DEF OrmInv, Consistent, TypeOK
  <2>2. table' = {ColumnOf(f) : f \in Fields}
    BY <1>3 DEF CreateTable
  <2>3. \A c \in table' : \E f \in Fields : c = ColumnOf(f) /\ f \in Field /\ c.name = f.column
    BY <1>1, <2>2, Struct, ColumnOfType
  <2>4. table' \subseteq [name : STRING, type : Types, unique : BOOLEAN, notNull : BOOLEAN,
                         default : {"sequence", "value", "null"}]
    BY <2>3, ColumnOfType
  <2>5. \A c, d \in table' : c.name = d.name => c = d
    BY <1>1, <2>3, Struct
  <2>6. table' # {}
    BY <1>1, <2>2, Struct
  <2>7. rows' \in [DOMAIN rows' -> Row'] /\ DOMAIN rows' \subseteq 1..sequence'
    BY <1>1, <2>1
  <2>8. TypeOK'
    BY <1>1, <2>1, <2>4, <2>5, <2>7 DEF TypeOK
  <2>9. Consistent'
    BY <1>1, <2>1, <2>6 DEF Consistent, Violates
  <2>10. Stored'
    BY <1>1, <2>1 DEF Stored
  <2> QED BY <2>8, <2>9, <2>10 DEF OrmInv
<1> QED BY <1>2, <1>3

LEMMA InsertKeeps ==
  ASSUME OrmInv, NEW o \in Objects, Insert(o)
  PROVE  OrmInv'
<1>1. CASE InsertRefused
  BY <1>1, ThrowsKeeps DEF Insert
<1>2. CASE ~InsertRefused
  <2> DEFINE row == [by |-> mapping, cells |-> NewCells(o)]
             after == [i \in DOMAIN rows \cup {sequence + 1} |->
                         IF i = sequence + 1 THEN row ELSE rows[i]]
  <2>1. /\ sequence < MaxInserts /\ sequence' = sequence + 1
        /\ UNCHANGED <<mapping, table>>
        /\ \/ rows' = rows
           \/ ~Violates(after) /\ rows' = after
    BY <1>2 DEF Insert
  <2>2. /\ mapping \in Mappings /\ sequence \in 0..MaxInserts
        /\ DOMAIN rows \subseteq 1..sequence /\ rows \in [DOMAIN rows -> Row]
    BY DEF OrmInv, TypeOK
  <2>3. sequence \in Nat /\ MaxInserts \in Nat
    BY <2>2, OrmAssumption
  <2>4. sequence' \in 0..MaxInserts /\ sequence' \in 1..sequence'
    BY <2>1, <2>2, <2>3
  <2>5. 1..sequence \subseteq 1..sequence'
    BY <2>1, <2>3
  <2>6. \A i \in DOMAIN rows : \A f \in ToSet(rows[i].by) :
          Sent(f) => f.column \in Columns /\ rows[i].cells[f.column] # Null
    BY DEF OrmInv, Stored
  <2>7. CASE rows' = rows
    <3>1. ~Violates(rows') /\ (table = {} => DOMAIN rows' = {})
      BY <2>7 DEF OrmInv, Consistent
    <3>2. DOMAIN rows' \subseteq 1..sequence'
      BY <2>2, <2>5, <2>7
    <3> QED BY <2>1, <2>2, <2>4, <2>6, <2>7, <3>1, <3>2, RowsKept
  <2>8. CASE ~Violates(after) /\ rows' = after
    <3>1. row \in Row
      BY <1>2, <2>2, NewCellsFilled DEF OrmInv, Row
    <3>2. DOMAIN after = DOMAIN rows \cup {sequence'}
      BY <2>1
    <3>3. after \in [DOMAIN after -> Row]
      BY <2>2, <3>1
    <3>4. DOMAIN after \subseteq 1..sequence'
      BY <2>2, <2>4, <2>5, <3>2
    <3>5. ASSUME NEW f \in ToSet(mapping), Sent(f)
          PROVE  f.column \in Columns /\ NewCells(o)[f.column] # Null
      BY <1>2, <3>5, NewCellsFilled, WrittenType DEF OrmInv, Fields, Null
    <3>6. \A i \in DOMAIN after : after[i] = row \/ (i \in DOMAIN rows /\ after[i] = rows[i])
      OBVIOUS
    <3>7. row.by = mapping /\ row.cells = NewCells(o)
      OBVIOUS
    <3>8. table # {}
      BY <1>2 DEF InsertRefused
    <3> HIDE DEF after, row
    <3>9. \A i \in DOMAIN after : \A f \in ToSet(after[i].by) :
            Sent(f) => f.column \in Columns /\ after[i].cells[f.column] # Null
      BY <2>6, <3>5, <3>6, <3>7
    <3> QED BY <2>1, <2>2, <2>4, <2>8, <3>3, <3>4, <3>8, <3>9, RowsKept
  <2> QED BY <2>1, <2>7, <2>8
<1> QED BY <1>1, <1>2

LEMMA DeleteKeeps ==
  ASSUME OrmInv, NEW cond, Delete(cond)
  PROVE  OrmInv'
<1>1. CASE Unknown(cond)
  BY <1>1, ThrowsKeeps DEF Delete
<1>2. CASE ~Unknown(cond)
  <2> DEFINE kept == {i \in DOMAIN rows : ~Matches(rows[i], cond)}
  <2>1. /\ rows' = Restrict(rows, kept)
        /\ UNCHANGED <<mapping, table, sequence>>
    BY <1>2 DEF Delete
  <2>2. DOMAIN rows' = kept /\ \A i \in kept : rows'[i] = rows[i]
    BY <2>1 DEF Restrict
  <2>3. kept \subseteq DOMAIN rows
    OBVIOUS
  <2> HIDE DEF kept
  <2>4. /\ mapping \in Mappings /\ sequence \in 0..MaxInserts
        /\ DOMAIN rows \subseteq 1..sequence /\ rows \in [DOMAIN rows -> Row]
    BY DEF OrmInv, TypeOK
  <2>5. rows' \in [DOMAIN rows' -> Row]
    <3>1. rows' = [i \in kept |-> rows[i]]
      BY <2>1, <2>3 DEF Restrict
    <3> QED BY <2>2, <2>3, <2>4, <3>1
  <2>6. ~Violates(rows')
    BY <2>2, <2>3 DEF OrmInv, Consistent, Violates
  <2>7. table = {} => DOMAIN rows' = {}
    BY <2>2, <2>3 DEF OrmInv, Consistent
  <2>8. \A i \in DOMAIN rows' : \A f \in ToSet(rows'[i].by) :
          Sent(f) => f.column \in Columns /\ rows'[i].cells[f.column] # Null
    BY <2>2, <2>3 DEF OrmInv, Stored
  <2>9. DOMAIN rows' \subseteq 1..sequence'
    BY <2>1, <2>2, <2>3, <2>4
  <2> QED BY <2>1, <2>4, <2>5, <2>6, <2>7, <2>8, <2>9, RowsKept
<1> QED BY <1>1, <1>2

LEMMA UpdateStatementKeeps ==
  ASSUME OrmInv, NEW cond, NEW args \in Arguments, UpdateStatement(cond, args)
  PROVE  OrmInv'
<1> DEFINE after == [i \in DOMAIN rows |->
                       IF Matches(rows[i], cond) THEN Updated(rows[i], args) ELSE rows[i]]
<1>1. CASE Throws
  BY <1>1, ThrowsKeeps
<1>2. CASE ~Throws
  <2>1. /\ ~Unknown(cond) /\ ~Violates(after) /\ rows' = after
        /\ UNCHANGED <<mapping, table, sequence>>
    BY <1>2 DEF UpdateStatement
  <2>2. /\ mapping \in Mappings /\ sequence \in 0..MaxInserts
        /\ DOMAIN rows \subseteq 1..sequence /\ rows \in [DOMAIN rows -> Row]
    BY DEF OrmInv, TypeOK
  <2>3. \A i \in DOMAIN rows :
          /\ after[i] \in Row
          /\ after[i].by = rows[i].by
          /\ \A name \in Columns : rows[i].cells[name] # Null => after[i].cells[name] # Null
    BY <2>2, UpdatedRow
  <2>4. DOMAIN after = DOMAIN rows /\ after \in [DOMAIN after -> Row]
    BY <2>3
  <2> HIDE DEF after
  <2>5. table = {} => DOMAIN rows' = {}
    BY <2>1, <2>4 DEF OrmInv, Consistent
  <2>6. \A i \in DOMAIN rows' : \A f \in ToSet(rows'[i].by) :
          Sent(f) => f.column \in Columns /\ rows'[i].cells[f.column] # Null
    BY <2>1, <2>3, <2>4 DEF OrmInv, Stored
  <2> QED BY <2>1, <2>2, <2>4, <2>5, <2>6, RowsKept
<1> QED BY <1>1, <1>2

LEMMA OrmInvariance == Spec => []OrmInv
<1>1. Init => OrmInv
  <2> SUFFICES ASSUME Init PROVE OrmInv
    OBVIOUS
  <2>1. DOMAIN rows = {} /\ rows \in [DOMAIN rows -> Row]
    BY DEF Init
  <2>2. 0 \in 0..MaxInserts
    BY OrmAssumption
  <2>3. TypeOK
    BY <2>1, <2>2 DEF Init, TypeOK
  <2>4. Consistent /\ Stored
    BY <2>1 DEF Consistent, Stored, Violates
  <2> QED BY <2>3, <2>4 DEF OrmInv
<1>2. OrmInv /\ [Next]_vars => OrmInv'
  <2> SUFFICES ASSUME OrmInv, [Next]_vars PROVE OrmInv'
    OBVIOUS
  <2>0. mapping \in Mappings
    BY DEF OrmInv, TypeOK
  <2>1. CASE CreateTable
    BY <2>1, CreateTableKeeps
  <2>2. CASE Upgrade
    BY <2>2, NothingStored DEF Upgrade
  <2>3. ASSUME NEW o \in Objects, Insert(o) PROVE OrmInv'
    BY <2>3, InsertKeeps
  <2>4. ASSUME NEW cond, Select(cond) \/ SelectMany(cond) PROVE OrmInv'
    <3>1. Throws \/ UNCHANGED <<mapping, table, rows, sequence>>
      BY <2>4 DEF Select, SelectMany
    <3> QED BY <2>0, <3>1, ThrowsKeeps, NothingStored
  <2>5. ASSUME NEW cond, Delete(cond) PROVE OrmInv'
    BY <2>5, DeleteKeeps
  <2>6. ASSUME NEW cond, NEW args \in Arguments, Update(cond, args) \/ UpdateTexts(cond, args)
        PROVE  OrmInv'
    <3>1. Throws \/ UpdateStatement(cond, args) \/ UNCHANGED <<mapping, table, rows, sequence>>
      BY <2>6 DEF Update, UpdateTexts
    <3> QED BY <2>0, <3>1, ThrowsKeeps, NothingStored, UpdateStatementKeeps
  <2>7. CASE UNCHANGED vars
    BY <2>0, <2>7, NothingStored DEF vars
  <2> QED BY <2>1, <2>2, <2>3, <2>4, <2>5, <2>6, <2>7 DEF Next
<1> QED BY <1>1, <1>2, PTL DEF Spec

-----------------------------------------------------------------------------
(* The theorems. *)

(* The mapping is one of the program's and the rows fit the columns of the   *)
(* table, whatever was called and whichever version came after which.        *)
THEOREM TypeCorrect == Spec => []TypeOK
BY OrmInvariance, PTL DEF OrmInv

(* What a mapping that fits has stored it can read, after any updates,       *)
(* deletions and changes of version: a member that was sent is no NULL since *)
(* it was inserted, and one that was not has a column that the database      *)
(* fills.                                                                    *)
THEOREM StoredIsReadable == Spec => []FitReads
<1>1. OrmInv => FitReads
  <2> SUFFICES ASSUME OrmInv, Fits,
                      NEW i \in DOMAIN rows, rows[i].by = mapping, NEW f \in Fields
               PROVE  f.name \in DOMAIN rows[i].cells /\ rows[i].cells[f.name] # Null
    BY DEF FitReads, Readable
  <2>1. f \in Field /\ ColumnOf(f) \in table /\ f.name = f.column
    BY Struct DEF OrmInv, TypeOK, Fits
  <2>2. ColumnOf(f).name = f.name
    BY <2>1, ColumnOfType
  <2>3. rows[i].cells \in Cells
    BY DEF OrmInv, TypeOK, Row
  <2>4. f.name \in DOMAIN rows[i].cells
    BY <2>1, <2>2, <2>3 DEF Cells, Columns
  <2>5. CASE Sent(f)
    <3>1. rows[i].cells[f.column] # Null
      BY <2>5 DEF OrmInv, Stored, Fields
    <3> QED BY <2>1, <2>4, <3>1
  <2>6. CASE ~Sent(f)
    <3>1. f.type \in {"primarykey", "serial"}
      BY <2>6 DEF Fits
    <3>2. ColumnOf(f).notNull
      BY <3>1 DEF ColumnOf
    <3>3. rows[i].cells[ColumnOf(f).name] # Null
      BY <2>1, <3>2 DEF OrmInv, TypeOK
    <3> QED BY <2>2, <2>4, <3>3
  <2> QED BY <2>5, <2>6
<1> QED BY <1>1, OrmInvariance, PTL

(* An insert that returns TRUE has put each value it was sent into the       *)
(* column of its own member: by two rules that differ columns and values are *)
(* listed, but lists of one length are the same.                             *)
THEOREM NothingMixedUp == Spec => NoMixup
<1>1. ASSUME OrmInv, result' = "true", NEW o \in Objects, Insert(o),
             NEW f \in Fields, Sent(f)
      PROVE  rows'[sequence'].cells[f.column] = Written(f, o[f.name])
  <2> DEFINE row == [by |-> mapping, cells |-> NewCells(o)]
             after == [i \in DOMAIN rows \cup {sequence + 1} |->
                         IF i = sequence + 1 THEN row ELSE rows[i]]
  <2>1. ~InsertRefused /\ rows' = after /\ sequence' = sequence + 1
    BY <1>1 DEF Insert, Throws
  <2>2. rows'[sequence'].cells = NewCells(o)
    BY <2>1
  <2>3. NewCells(o)[f.column] = Written(f, o[f.name])
    BY <1>1, <2>1, NewCellsFilled DEF OrmInv
  <2> QED BY <2>2, <2>3
<1>2. OrmInv =>
        (result' = "true" => \A o \in Objects : Insert(o) =>
           \A f \in Fields : Sent(f) =>
             rows'[sequence'].cells[f.column] = Written(f, o[f.name]))
  BY <1>1
<1> QED BY <1>2, OrmInvariance, PTL DEF NoMixup

(* A mapping that fits can store any object, unless a value that has to be   *)
(* unique is there: no other constraint fails, and no list is too long.      *)
LEMMA NotRefused ==
  ASSUME OrmInv, Fits
  PROVE  ~InsertRefused
<1>1. mapping \in Mappings
  BY DEF OrmInv, TypeOK
<1>2. \A f \in Fields : ColumnOf(f) \in table /\ f.column \in Columns
  BY <1>1, Struct, ColumnOfType DEF Fits, Columns
<1>3. table # {}
  BY <1>1, <1>2, Struct
<1>4. \A i \in DOMAIN mapping : mapping[i] \in Fields
  BY DEF Fields, ToSet
<1>5. \A f \in Fields : Listed(f) => Valued(f)
  BY DEF Fits, Listed, Valued, Sent
<1>6. \A f \in Fields : Valued(f) => Listed(f)
  BY DEF Listed, Valued
<1>7. ColumnList = ValueList
  BY <1>4, <1>5, <1>6 DEF ColumnList, ValueList
<1> QED BY <1>2, <1>3, <1>4, <1>7 DEF InsertRefused, ColumnList, ValueList, Fits

THEOREM FittingIsStored == Spec => FitStores
<1>1. ASSUME OrmInv, result' # "true", Fits, NEW o \in Objects, Insert(o)
      PROVE  \E c \in table, i \in DOMAIN rows :
               c.unique /\ rows[i].cells[c.name] = NewCells(o)[c.name]
  <2> DEFINE row == [by |-> mapping, cells |-> NewCells(o)]
             after == [i \in DOMAIN rows \cup {sequence + 1} |->
                         IF i = sequence + 1 THEN row ELSE rows[i]]
  <2>1. ~InsertRefused
    BY <1>1, NotRefused
  <2>2. Violates(after)
    BY <1>1, <2>1 DEF Insert
  <2>3. mapping \in Mappings /\ sequence \in Nat
    BY <1>1 DEF OrmInv, TypeOK
  <2>4. sequence + 1 \notin DOMAIN rows
    BY <1>1, <2>3 DEF OrmInv, TypeOK
  <2>5. ASSUME NEW c \in table, c.notNull PROVE NewCells(o)[c.name] # Null
    <3>1. c.default \in {"sequence", "value", "null"}
      BY <1>1 DEF OrmInv, TypeOK
    <3>2. NewCells(o)[c.name] = Filled(c, o)
      BY <1>1, <2>1, NewCellsFilled DEF OrmInv
    <3>3. CASE \E f \in Fields : Sent(f) /\ f.column = c.name
      BY <1>1, <2>1, <3>3, NewCellsFilled, WrittenType DEF OrmInv, Null
    <3>4. CASE \E f \in Fields : ~Sent(f) /\ f.column = c.name
      <4>1. PICK f \in Fields : ~Sent(f) /\ f.column = c.name
        BY <3>4
      <4>2. ColumnOf(f) \in table /\ f.type \in {"primarykey", "serial"}
        BY <1>1, <4>1 DEF Fits
      <4>3. ColumnOf(f).name = c.name
        BY <2>3, <4>1, Struct, ColumnOfType
      <4>4. c = ColumnOf(f)
        BY <1>1, <4>2, <4>3 DEF OrmInv, TypeOK
      <4>5. c.default = "sequence"
        BY <4>2, <4>4 DEF ColumnOf
      <4> QED BY <2>1, <2>3, <3>2, <4>5, FilledType DEF InsertRefused
    <3>5. CASE c.name \notin {f.column : f \in Fields}
      <4>1. c.default # "null"
        BY <1>1, <2>5, <3>5 DEF Fits
      <4> QED BY <2>1, <2>3, <3>1, <3>2, <4>1, FilledType DEF InsertRefused
    <3> QED BY <3>3, <3>4, <3>5
  <2>6. \A i \in DOMAIN rows : after[i] = rows[i]
    BY <2>4
  <2>7. after[sequence + 1].cells = NewCells(o)
    OBVIOUS
  <2>8. DOMAIN after = DOMAIN rows \cup {sequence + 1}
    OBVIOUS
  <2> HIDE DEF after
  <2>9. ~ \E c \in table, i \in DOMAIN after : c.notNull /\ after[i].cells[c.name] = Null
    BY <1>1, <2>5, <2>6, <2>7, <2>8 DEF OrmInv, TypeOK
  <2>10. PICK c \in table, i \in DOMAIN after, j \in DOMAIN after :
           /\ c.unique /\ i # j /\ after[i].cells[c.name] = after[j].cells[c.name]
           /\ after[i].cells[c.name] # Null
    BY <2>2, <2>9 DEF Violates
  <2>11. ~(i \in DOMAIN rows /\ j \in DOMAIN rows)
    BY <1>1, <2>6, <2>10 DEF OrmInv, Consistent, Violates
  <2>12. CASE i \in DOMAIN rows /\ j = sequence + 1
    BY <2>6, <2>7, <2>10, <2>12
  <2>13. CASE j \in DOMAIN rows /\ i = sequence + 1
    BY <2>6, <2>7, <2>10, <2>13
  <2> QED BY <2>8, <2>10, <2>11, <2>12, <2>13
<1>2. OrmInv =>
        (result' # "true" /\ Fits => \A o \in Objects : Insert(o) =>
           \E c \in table, i \in DOMAIN rows :
             c.unique /\ rows[i].cells[c.name] = NewCells(o)[c.name])
  BY <1>1
<1> QED BY <1>2, OrmInvariance, PTL DEF FitStores

(* An update that returns TRUE sets the members that were named, to the      *)
(* value named last, in the rows that satisfy the condition, and nothing     *)
(* else in them or in any other row.                                         *)
THEOREM UpdatesAreExact == Spec => UpdateExact
<1> DEFINE Exact(cond, args, i, f) ==
             LET now == rows'[i].cells[f.name]
             IN IF Matches(rows[i], cond) /\ Naming(args, f.name) # {}
                THEN \E v \in {args[k].value : k \in DOMAIN args} :
                       LastNamed(args, f.name, v) /\ now = Written(f, v)
                ELSE now = rows[i].cells[f.name]
<1>1. ASSUME OrmInv, result' = "true", Fits, NEW cond \in Conditions,
             NEW args \in Arguments, UpdateStatement(cond, args),
             NEW i \in DOMAIN rows, NEW f \in Fields
      PROVE  Exact(cond, args, i, f)
  <2>1. rows'[i] = IF Matches(rows[i], cond) THEN Updated(rows[i], args) ELSE rows[i]
    BY <1>1 DEF UpdateStatement, Throws
  <2>2. mapping \in Mappings /\ rows[i] \in Row
    BY <1>1 DEF OrmInv, TypeOK
  <2>3. f.name = f.column /\ f.column \in Columns
    BY <1>1, <2>2, Struct, ColumnOfType DEF Fits, Columns
  <2>4. Updated(rows[i], args).cells[f.name] =
          IF f \in Assigned(args) THEN ValueIn(args, f) ELSE rows[i].cells[f.name]
    BY <2>2, <2>3, UpdatedRow
  <2>5. f \in Assigned(args) <=> Naming(args, f.name) # {}
    BY DEF Assigned
  <2>6. CASE Matches(rows[i], cond) /\ Naming(args, f.name) # {}
    <3>1. PICK k \in Naming(args, f.name) :
            /\ ValueIn(args, f) = Written(f, args[k].value)
            /\ LastNamed(args, f.name, args[k].value)
      BY <2>6, ValueInLast
    <3>2. k \in DOMAIN args
      BY DEF Naming
    <3>3. rows'[i].cells[f.name] = Written(f, args[k].value)
      BY <2>1, <2>4, <2>5, <2>6, <3>1
    <3> QED BY <2>6, <3>1, <3>2, <3>3
  <2>7. CASE ~(Matches(rows[i], cond) /\ Naming(args, f.name) # {})
    <3>1. rows'[i].cells[f.name] = rows[i].cells[f.name]
      BY <2>1, <2>4, <2>5, <2>7
    <3> QED BY <2>7, <3>1
  <2> QED BY <2>6, <2>7
<1>2. OrmInv =>
        (result' = "true" /\ Fits => \A cond \in Conditions, args \in Arguments :
           UpdateStatement(cond, args) =>
             \A i \in DOMAIN rows : \A f \in Fields : Exact(cond, args, i, f))
  <2> HIDE DEF Exact
  <2> QED BY <1>1
<1> QED BY <1>2, OrmInvariance, PTL DEF UpdateExact

=============================================================================
