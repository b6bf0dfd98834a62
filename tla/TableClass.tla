------------------------------ MODULE TableClass ------------------------------
(***************************************************************************)
(* The two table generators and the classes they write. A generator asks   *)
(* the database for the columns of a table (MSSQLTableGenerator: first how *)
(* many, then which; MySQLDataFormatGenerator: one query for both) and     *)
(* writes a class with a member per column, an insert, selects and         *)
(* deletes, whose queries CBaseTable makes. The table may be altered at    *)
(* any time, also between the two queries.                                 *)
(*                                                                         *)
(* The database is external. The value a member holds is known by the      *)
(* member's label alone; Nothing is a column's NULL. The class of the      *)
(* MySQL generator is taken with the two slips of its text mended          *)
(* (main.cpp:221 lacks a comma, 241 names one class for all), as in the    *)
(* user_info.h that is kept beside it.                                     *)
(***************************************************************************)
EXTENDS SequencesExt

CONSTANTS
  Tables,       \* what the table may be: sequences of columns [label, type]
  Nothing

ASSUME TablesAssumption == Tables \subseteq Seq([label : STRING, type : STRING])

VARIABLES
  generator,    \* which of the two
  step,         \* of the generator; then "built", or "rejected" by the compiler
  numOfColumn,  \* iNumOfColumn, NUM_OF_COLUMN
  columns,      \* columnLists and typeLists: the members [label, type]
  table,        \* the columns of the table now
  rows,         \* its rows: by label, the member whose value is stored
  got,          \* what the last select read into a new object
  altered,      \* history: the table is not what the generator found
  unanswered,   \* history: a query of the generator failed
  insertRefused \* history: the database refused an insert

classVars == <<generator, step, numOfColumn, columns>>
tableVars == <<classVars, table, rows, got, altered, unanswered, insertRefused>>

Label(cs) == [i \in DOMAIN cs |-> cs[i].label]
Place(s, e) == CHOOSE i \in DOMAIN s : s[i] = e

NewObject == [fields |-> << >>, values |-> << >>]

TableInit ==
  /\ generator \in {"MSSQL", "MySQL"} /\ step = "start"
  /\ numOfColumn = 0 /\ columns = << >>
  /\ table \in Tables /\ rows = {} /\ got = NewObject
  /\ altered = FALSE /\ unanswered = FALSE /\ insertRefused = FALSE

Alter ==
  /\ table' \in Tables \ {table}
  /\ rows' = {[c \in ToSet(Label(table')) |->
                IF c \in DOMAIN r THEN r[c] ELSE Nothing] : r \in rows}
  /\ altered' = (altered \/ step # "start")
  /\ UNCHANGED <<classVars, got, unanswered, insertRefused>>

-----------------------------------------------------------------------------
(* The generators.                                                          *)

(* find gives 0, which is false, for just the types that begin with char.   *)
stringToSQLType(type) ==
  CASE type = "int" -> "SQLINTEGER"
    [] type = "char" -> ""
    [] OTHER -> "std::string"

GetRawTypeByColumnType(type) ==
  CASE type = "int" -> "int32_t"
    [] type = "varchar" -> "std::string"
    [] OTHER -> ""

CppType(type) ==
  IF generator = "MSSQL" THEN stringToSQLType(type) ELSE GetRawTypeByColumnType(type)

Members(cs) ==
  [i \in DOMAIN cs |-> [label |-> cs[i].label, type |-> CppType(cs[i].type)]]

(* A member needs a type, and the constructors' lists a member.             *)
Compiled(ms) ==
  IF ms # << >> /\ \A i \in DOMAIN ms : ms[i].type # "" THEN "built" ELSE "rejected"

CountColumns ==
  /\ generator = "MSSQL" /\ step = "start"
  /\ \/ numOfColumn' = Len(table) /\ UNCHANGED unanswered
     \/ numOfColumn' = 0 /\ unanswered' = TRUE
  /\ step' = "counted"
  /\ UNCHANGED <<generator, columns, table, rows, got, altered, insertRefused>>

ListColumns ==
  /\ step = "counted"
  /\ \/ columns' = Members(table) /\ UNCHANGED unanswered
     \/ columns' = << >> /\ unanswered' = TRUE
  /\ step' = Compiled(columns')
  /\ UNCHANGED <<generator, numOfColumn, table, rows, got, altered, insertRefused>>

(* The result of one select describes both; an exception ends the program.  *)
DescribeTable ==
  /\ generator = "MySQL" /\ step = "start"
  /\ columns' = Members(table)
  /\ numOfColumn' = Len(columns')
  /\ step' = Compiled(columns')
  /\ UNCHANGED <<generator, table, rows, got, altered, unanswered, insertRefused>>

-----------------------------------------------------------------------------
(* The queries. marks: how many question marks; conditions: the labels of   *)
(* the WHERE, joined by an operator with no blank around it.                *)

(* Defect: the last question mark is missing.                               *)
MakeQueryForInsertShort(labels, n) ==
  [labels |-> labels, marks |-> IF n > 0 THEN n - 1 ELSE 0]

MakeQueryForInsert(labels, n) == [labels |-> labels, marks |-> n]

MakeQueryForSelect(fields, conditions) ==
  [fields |-> IF fields = << >> THEN Label(table) ELSE fields,
   conditions |-> conditions]

MakeQueryForDelete(conditions) == [fields |-> << >>, conditions |-> conditions]

(* The database takes a query of columns it has, with at most one condition *)
(* ('x'ANDb is no SQL).                                                     *)
Takes(q) ==
  /\ ToSet(q.fields) \cup ToSet(q.conditions) \subseteq ToSet(Label(table))
  /\ Len(q.conditions) <= 1

Satisfying(q) == {r \in rows : \A c \in ToSet(q.conditions) : r[c] # Nothing}

-----------------------------------------------------------------------------
(* The class.                                                               *)

PreparedQueryForInsert == MakeQueryForInsert(Label(columns), numOfColumn)

(* Parameter i is bound to the i-th member.                                 *)
Bound(i) == Label(columns)[i]

(* The labels name the columns the parameters are for.                      *)
ExecuteQueryForInsert ==
  /\ step = "built"
  /\ LET q == PreparedQueryForInsert
     IN  IF ToSet(q.labels) \subseteq ToSet(Label(table))
               /\ q.marks = Len(q.labels)
         THEN /\ rows' = rows \cup
                   {[c \in ToSet(Label(table)) |->
                       IF Contains(q.labels, c) THEN Bound(Place(q.labels, c))
                       ELSE Nothing]}
              /\ UNCHANGED insertRefused
         ELSE insertRefused' = TRUE /\ UNCHANGED rows
  /\ UNCHANGED <<classVars, table, got, altered, unanswered>>

(* The fields before the first string member: reading into its empty buffer *)
(* throws.                                                                  *)
Readable(fields) ==
  {c \in ToSet(fields) :
     \A i \in 1 .. Place(fields, c) : \A m \in ToSet(columns) :
        m.label = fields[i] => m.type # "std::string"}

(* MSSQL: the member of each field is read from the position it has in the  *)
(* class. The object is not added to the output.                            *)
ReadByPosition(r, fields, result) ==
  [c \in {d \in Readable(fields) : Contains(Label(columns), d)} |->
     LET i == Place(Label(columns), c)
     IN  IF i <= Len(result) THEN r[result[i]] ELSE Nothing]

(* Defect: MySQL's results are read by position.                            *)
ReadInOrder(r, result) ==
  IF Len(result) < Len(columns) THEN << >>
  ELSE [c \in ToSet(Label(columns)) |-> r[result[Place(Label(columns), c)]]]

(* MySQL: every member is read by its label. One that was not selected      *)
(* throws, and the output stays as it was.                                  *)
ReadByLabel(r, result) ==
  IF ToSet(Label(columns)) \subseteq ToSet(result)
    THEN [c \in ToSet(Label(columns)) |-> r[c]]
    ELSE << >>

ExecuteQueryForSelect(fields, conditions) ==
  /\ step = "built"
  /\ LET q == MakeQueryForSelect(fields, conditions)
     IN  /\ Takes(q)
         /\ \E r \in Satisfying(q) :
              got' = [fields |-> fields,
                      values |-> IF generator = "MySQL" THEN ReadByLabel(r, q.fields)
                                 ELSE ReadByPosition(r, fields, q.fields)]
  /\ UNCHANGED <<classVars, table, rows, altered, unanswered, insertRefused>>

(* MSSQL takes the quoted data of a condition for the name of a column.     *)
ExecuteQueryForDelete(conditions) ==
  /\ step = "built"
  /\ LET q == MakeQueryForDelete(conditions)
     IN  /\ Takes(q) /\ (generator = "MSSQL" => conditions = << >>)
         /\ IF conditions = << >> THEN rows' = {}
            ELSE \E rs \in SUBSET Satisfying(q) : rows' = rows \ rs
  /\ UNCHANGED <<classVars, table, got, altered, unanswered, insertRefused>>

(* The fields and conditions a caller may ask for.                          *)
Asked ==
  LET labels == UNION {ToSet(Label(t)) : t \in Tables}
  IN  {s \in UNION {[1 .. n -> labels] : n \in 0 .. 3} : IsInjective(s)}

TableNext ==
  \/ Alter \/ CountColumns \/ ListColumns \/ DescribeTable \/ ExecuteQueryForInsert
  \/ \E conditions \in {c \in Asked : Len(c) <= 2} :
       \/ ExecuteQueryForDelete(conditions)
       \/ \E fields \in Asked : ExecuteQueryForSelect(fields, conditions)

TableSpec == TableInit /\ [][TableNext]_tableVars

-----------------------------------------------------------------------------
(* Properties.                                                              *)

(* A value comes out of the column it was put into, and goes into the       *)
(* column of its member, however the table is altered before, during and    *)
(* after the class is generated. The exception: MSSQL's select, when the    *)
(* fields are not the first members in their order (MSSQL main.cpp:222-239, *)
(* MySQL main.cpp:225-253).                                                 *)
ValuesKeepTheirColumn ==
  /\ \A r \in rows : \A c \in DOMAIN r : r[c] \in {c, Nothing}
  /\ generator = "MySQL" \/ IsPrefix(got.fields, Label(columns)) =>
       \A c \in DOMAIN got.values : got.values[c] \in {c, Nothing}

(* As long as the table is the one the generator found and the generator's  *)
(* queries were answered, an insert has as many labels, question marks and  *)
(* bound values as the table has columns, and is taken                      *)
(* (MSSQL main.cpp:111-137, 174-204; SQL.hpp:50-62).                        *)
InsertsAreTaken == insertRefused => altered \/ unanswered
=============================================================================
