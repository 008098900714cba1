--------------------------------- MODULE Orm ---------------------------------
(***************************************************************************)
(* The object-relational mapping of postgres.hpp: a struct is mapped to a  *)
(* table, and each call builds the text of one statement from the mapping  *)
(* and runs it as a transaction of its own.                                *)
(*                                                                         *)
(* The mapping is a constant of a program, but not of a database: Upgrade  *)
(* is a new version of the program that meets the table of the old one.    *)
(* Statements are modelled by what the database makes of them.             *)
(***************************************************************************)
EXTENDS Integers, Sequences, SequencesExt, FiniteSetsExt

CONSTANTS
  Mappings,    \* the versions of the struct, each a sequence of fields
  Values,      \* the values of members
  Conditions,  \* conditions, text of the application: <<>> or <<column, value>>
  Arguments,   \* lists of arguments of update(): sequences of [name, value]
  MaxInserts   \* how many rows are inserted

Null == -1

(* The data types, as far as statements tell them apart: "number" stands for *)
(* integer, bigint, smallint, boolean and for text, cidr and date, which are *)
(* quoted; "decimal" also for timestamp, whose text is shorter than its value.*)
Types == {"primarykey", "serial", "number", "decimal", "time", "char_n"}

Flags == {"primarykey", "ignore_insert", "ignore_on_serializer"}

Field ==
  [name   : STRING,                                   \* of the member
   column : STRING,                                   \* Column::name
   type   : Types,                                    \* Column::data_type
   flags  : SUBSET Flags,                             \* Column::attribute
   custom : {"", "UNIQUE", "NOT NULL", "DEFAULT"}]    \* custom_definition_flags

\* The assertion of query::insert(), which counts by other rules than it lists.
Counted(f) == f.flags \cap {"primarykey", "ignore_insert"} = {} /\ f.type # "primarykey"

ASSUME OrmAssumption ==
  /\ Values \subseteq Nat /\ 0 \in Values
  /\ Conditions \subseteq {<<>>} \cup (STRING \X Nat)
  /\ Arguments \subseteq Seq([name : STRING, value : Nat])
  /\ MaxInserts \in Nat
  /\ \A m \in Mappings :
       /\ m \in Seq(Field)
       /\ \E f \in ToSet(m) : Counted(f)
       /\ \A i, j \in DOMAIN m :
            i # j => m[i].name # m[j].name /\ m[i].column # m[j].column

VARIABLES
  mapping,    \* the struct, as the running version of the program declares it
  table,      \* the columns of the table, {} before it was created
  rows,       \* its rows, by the number of their insertion
  sequence,   \* the value its sequences had last
  result      \* what the last call returned, or "throws"

vars == <<mapping, table, rows, sequence, result>>

Fields == ToSet(mapping)
Columns == {c.name : c \in table}

Cells == [Columns -> Nat \cup {Null}]

\* A row, and the mapping it was inserted by.
Row == [by : Mappings, cells : Cells]

TypeOK ==
  /\ mapping \in Mappings
  /\ table \subseteq [name : STRING, type : Types, unique : BOOLEAN, notNull : BOOLEAN,
                      default : {"sequence", "value", "null"}]
  /\ \A c, d \in table : c.name = d.name => c = d
  /\ DOMAIN rows \subseteq 1..sequence /\ rows \in [DOMAIN rows -> Row]
  /\ \A i \in DOMAIN rows, c \in table : c.notNull => rows[i].cells[c.name] # Null
  /\ sequence \in 0..MaxInserts

Init ==
  /\ mapping \in Mappings
  /\ table = {} /\ rows = [i \in {} |-> {}] /\ sequence = 0 /\ result = "none"

Throws == result' = "throws" /\ UNCHANGED <<mapping, table, rows, sequence>>

-----------------------------------------------------------------------------
(* should_apply_custom_define: a field with any flag loses its definition.   *)
Custom(f, definition) ==
  f.custom = definition /\ f.flags = {} /\ f.type # "primarykey"

\* Mutant: the serial types are columns like any other.
ColumnOfPlain(f) ==
  LET generated == f.type = "primarykey"
  IN [name    |-> f.column,
      type    |-> f.type,
      unique  |-> f.type = "primarykey" \/ Custom(f, "UNIQUE"),
      notNull |-> generated \/ Custom(f, "NOT NULL"),
      default |-> IF generated THEN "sequence"
                  ELSE IF Custom(f, "DEFAULT") THEN "value" ELSE "null"]

(* make_sql_field_spec.  Only the data type makes a key, the flag does not.  *)
ColumnOf(f) ==
  LET generated == f.type \in {"primarykey", "serial"}
  IN [name    |-> f.column,
      type    |-> f.type,
      unique  |-> f.type = "primarykey" \/ Custom(f, "UNIQUE"),
      notNull |-> generated \/ Custom(f, "NOT NULL"),
      default |-> IF generated THEN "sequence"
                  ELSE IF Custom(f, "DEFAULT") THEN "value" ELSE "null"]

\* Mutant: columns of a new version are added to a table that is there.
CreateTableAdds ==
  /\ table' = table \cup {ColumnOf(f) : f \in Fields}
  /\ result' = "true"
  /\ UNCHANGED <<mapping, rows, sequence>>

(* create_table() returns TRUE as well when there is a table of that name.   *)
CreateTable ==
  /\ table' = IF table = {} THEN {ColumnOf(f) : f \in Fields} ELSE table
  /\ result' = "true"
  /\ UNCHANGED <<mapping, rows, sequence>>

-----------------------------------------------------------------------------
(* normalize_type: a stream writes a number with six digits, and %X writes   *)
(* no fractions of seconds.  Values that differ in the last digit only then  *)
(* have the same text.                                                       *)
Written(f, v) == IF f.type = "decimal" THEN (v \div 10) * 10 ELSE v

(* The time of day is written without quotes, which is no literal; and        *)
(* char[n] declares an array, whose literals look otherwise.                 *)
Refused(f) == f.type \in {"time", "char_n"}

\* Mutant: ignore_insert is tested like primarykey.
ListedEqual(f) == f.flags # {"ignore_insert"} /\ f.flags # {"primarykey"}

\* Mutant: a key is recognised by its data type.
ListedByType(f) == "ignore_insert" \notin f.flags /\ f.type # "primarykey"

\* The columns that query::insert() names: a key is recognised by equality,
Listed(f) == "ignore_insert" \notin f.flags /\ f.flags # {"primarykey"}

\* and the values that insert() writes: here it is recognised by its bit.
Valued(f) == f.flags \cap {"ignore_insert", "primarykey"} = {}

\* The two lists, each as the positions in the struct of what it holds.
ColumnList == {i \in DOMAIN mapping : Listed(mapping[i])}
ValueList == {i \in DOMAIN mapping : Valued(mapping[i])}

\* The place in a list of what stands at position i of the struct.
Place(i, list) == Cardinality({j \in list : j <= i})

(* The database takes the two lists place by place: the field whose value    *)
(* the column gets that is listed for position i.                            *)
Giver(i) ==
  mapping[CHOOSE j \in ValueList : Place(j, ValueList) = Place(i, ColumnList)]

Filled(c, o) ==
  LET at == {i \in ColumnList : mapping[i].column = c.name}
      giver == Giver(CHOOSE i \in at : TRUE)
  IN IF at # {} THEN Written(giver, o[giver.name])
     ELSE IF c.default = "sequence" THEN sequence + 1
     ELSE IF c.default = "value" THEN 0 ELSE Null

NewCells(o) ==
  [name \in Columns |-> Filled(CHOOSE c \in table : c.name = name, o)]

\* What makes the statement fail before it reads a row of the table.
InsertRefused ==
  \/ table = {} \/ Cardinality(ColumnList) # Cardinality(ValueList)
  \/ \E i \in ColumnList : mapping[i].column \notin Columns
  \/ \E i \in ValueList : Refused(mapping[i])

Violates(all) ==
  \/ \E c \in table, i \in DOMAIN all : c.notNull /\ all[i].cells[c.name] = Null
  \/ \E c \in table, i, j \in DOMAIN all :
       c.unique /\ i # j /\ all[i].cells[c.name] = all[j].cells[c.name]
                /\ all[i].cells[c.name] # Null

(* insert().  A sequence is not rolled back.                                 *)
Insert(o) ==
  IF InsertRefused
  THEN Throws
  ELSE LET row == [by |-> mapping, cells |-> NewCells(o)]
           after == [i \in DOMAIN rows \cup {sequence + 1} |->
                       IF i = sequence + 1 THEN row ELSE rows[i]]
       IN /\ sequence < MaxInserts
          /\ sequence' = sequence + 1
          /\ IF Violates(after) THEN rows' = rows /\ result' = "throws"
                                ELSE rows' = after /\ result' = "true"
          /\ UNCHANGED <<mapping, table>>

-----------------------------------------------------------------------------
\* The table has not all columns of the condition.
Unknown(cond) == table = {} \/ (cond # <<>> /\ cond[1] \notin Columns)

Matches(row, cond) == cond = <<>> \/ row.cells[cond[1]] = cond[2]

(* select() looks every member up by its own name, not by the column it is   *)
(* mapped to, and cannot convert NULL.                                       *)
Readable(row) ==
  \A f \in Fields : f.name \in DOMAIN row.cells /\ row.cells[f.name] # Null

(* Without an order, front() is any row that matches.                        *)
Select(cond) ==
  IF Unknown(cond) THEN Throws
  ELSE LET found == {row \in Range(rows) : Matches(row, cond)}
       IN /\ \/ found = {} /\ result' = "nullopt"
             \/ \E row \in found : result' = IF Readable(row) THEN "object" ELSE "throws"
          /\ UNCHANGED <<mapping, table, rows, sequence>>

(* select_many() reads all of them.                                          *)
SelectMany(cond) ==
  IF Unknown(cond) \/ \E row \in Range(rows) : Matches(row, cond) /\ ~Readable(row)
  THEN Throws
  ELSE result' = "objects" /\ UNCHANGED <<mapping, table, rows, sequence>>

Delete(cond) ==
  IF Unknown(cond) THEN Throws
  ELSE /\ rows' = Restrict(rows, {i \in DOMAIN rows : ~Matches(rows[i], cond)})
       /\ result' = "true"
       /\ UNCHANGED <<mapping, table, sequence>>

-----------------------------------------------------------------------------
Naming(args, name) == {i \in DOMAIN args : args[i].name = name}

\* Mutant: the first argument that names a field is taken.
ValueInFirst(args, f) == Written(f, args[Min(Naming(args, f.name))].value)

\* up_find_value goes on after it found the field.
ValueIn(args, f) == Written(f, args[Max(Naming(args, f.name))].value)

\* The fields of the SET list.
Assigned(args) == {f \in Fields : Naming(args, f.name) # {}}

Updated(row, args) ==
  [row EXCEPT !.cells = [name \in Columns |->
     IF \E f \in Assigned(args) : f.column = name
     THEN ValueIn(args, CHOOSE f \in Assigned(args) : f.column = name)
     ELSE row.cells[name]]]

(* What both versions of update() end with.  With no field to set, the last  *)
(* character of the text is no comma, and what is left is no statement.      *)
UpdateStatement(cond, args) ==
  LET after == [i \in DOMAIN rows |->
                  IF Matches(rows[i], cond) THEN Updated(rows[i], args) ELSE rows[i]]
  IN IF Assigned(args) = {} \/ Unknown(cond) \/ Violates(after)
        \/ \E f \in Assigned(args) : f.column \notin Columns \/ Refused(f)
     THEN Throws
     ELSE rows' = after /\ result' = "true" /\ UNCHANGED <<mapping, table, sequence>>

(* update() of a tuple.  An unknown field ends a Debug build; a Release one  *)
(* leaves it out.                                                            *)
Update(cond, args) ==
  \/ /\ \E i \in DOMAIN args : args[i].name \notin {f.name : f \in Fields}
     /\ result' = "aborts"
     /\ UNCHANGED <<mapping, table, rows, sequence>>
  \/ UpdateStatement(cond, args)

(* update() of a map from names to texts: no field is named twice, unknown   *)
(* ones are left out, and a text that lexical_cast cannot read ends the call *)
(* before the statement is run.                                              *)
UpdateTexts(cond, args) ==
  /\ \A i, j \in DOMAIN args : i # j => args[i].name # args[j].name
  /\ \/ UpdateStatement(cond, args)
     \/ Assigned(args) # {} /\ Throws

-----------------------------------------------------------------------------
(* Another version of the program is started with the same database.         *)
Upgrade ==
  /\ mapping' \in Mappings \ {mapping}
  /\ result' = "none"
  /\ UNCHANGED <<table, rows, sequence>>

Objects == [{f.name : f \in Fields} -> Values]

Next ==
  /\ result # "aborts"
  /\ \/ CreateTable \/ Upgrade
     \/ \E o \in Objects : Insert(o)
     \/ \E cond \in Conditions :
          \/ Select(cond) \/ SelectMany(cond) \/ Delete(cond)
          \/ \E args \in Arguments : Update(cond, args) \/ UpdateTexts(cond, args)

Spec == Init /\ [][Next]_vars
-----------------------------------------------------------------------------
(* Properties *)

\* The members that the application means to store.
Sent(f) == f.flags \cap {"ignore_insert", "primarykey"} = {}

(* Whatever flags are combined, though columns and values are listed by      *)
(* different rules and matched by position, no value gets into the column of *)
(* another member: an insert that returns TRUE has put each one into its own.*)
NoMixup ==
  [][result' = "true" => \A o \in Objects : Insert(o) =>
       \A f \in Fields : Sent(f) =>
         rows'[sequence'].cells[f.column] = Written(f, o[f.name])]_vars

(* A mapping fits the table, which may be that of an older version, if every *)
(* member has the name of its column and every column gets a value: from the *)
(* member or from the database.                                              *)
Fits ==
  /\ \A f \in Fields :
       /\ ~Refused(f) /\ f.name = f.column
       /\ ColumnOf(f) \in table
       /\ Sent(f) \/ ("ignore_insert" \in f.flags /\ f.type \in {"primarykey", "serial"})
       /\ f.type = "primarykey" => ~Sent(f)
  /\ \A c \in table :
       c.name \in {f.column : f \in Fields} \/ c.default # "null" \/ ~c.notNull

(* A mapping that fits can store any object, with a key that the database    *)
(* makes; only a value that has to be unique may be refused.                 *)
FitStores ==
  [][result' # "true" /\ Fits => \A o \in Objects : Insert(o) =>
       \E c \in table, i \in DOMAIN rows :
         c.unique /\ rows[i].cells[c.name] = NewCells(o)[c.name]]_vars

(* And it can read back whatever it has stored, after any sequence of        *)
(* updates, deletions and changes of version.                                *)
FitReads ==
  Fits => \A i \in DOMAIN rows : rows[i].by = mapping => Readable(rows[i])

(* An update that returns TRUE changes the objects that satisfy the          *)
(* condition, and of these the members that were named, to the value named   *)
(* last; all other objects and members stay.                                 *)
LastNamed(args, name, value) ==
  \E i \in Naming(args, name) :
    args[i].value = value /\ \A j \in Naming(args, name) : j <= i

UpdateExact ==
  [][result' = "true" /\ Fits => \A cond \in Conditions, args \in Arguments :
       UpdateStatement(cond, args) =>
         \A i \in DOMAIN rows : \A f \in Fields :
           LET now == rows'[i].cells[f.name]
           IN IF Matches(rows[i], cond) /\ Naming(args, f.name) # {}
              THEN \E v \in {args[k].value : k \in DOMAIN args} :
                     LastNamed(args, f.name, v) /\ now = Written(f, v)
              ELSE now = rows[i].cells[f.name]]_vars
=============================================================================
