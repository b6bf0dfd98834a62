-------------------------------- MODULE MCSql --------------------------------
(* The connection pools, the tables they give access to, with the generators *)
(* of their classes, and the generator of the packets, side by side: they   *)
(* share nothing, and a behaviour is one of one of them.                    *)
EXTENDS SqlPool, TableClass, PacketGenerator

VARIABLE service

(* Two columns; then exchanged, with a third between or put first, or one   *)
(* whose type the MSSQL generator does not name, or MySQL's does not.       *)
Column(label, type) == [label |-> label, type |-> type]

MCTables ==
  LET a == Column("a", "int")
      b == Column("b", "int")
      c == Column("c", "varchar")
  IN  {<<a, b>>, <<b, a, c>>, <<c>>, <<a, Column("c", "char")>>}

Line(sort, name, size) == [kind |-> sort, name |-> name, size |-> size]

(* A scalar, an array, an array whose size does not fit 16 bits.            *)
MCLines ==
  {Line("version", "P", 0), Line("open", "{", 0), Line("close", "}", 0),
   Line("garbled", "g", 0), Line("member", "a", 0), Line("member", "b", 2),
   Line("member", "c", 65536)}

MCInit ==
  /\ Init /\ TableInit /\ GeneratorInit
  /\ service \in {"pool", "table", "packets"}
  /\ service # "pool" => kind = "MySQL"
  /\ service # "table" => generator = "MySQL" /\ table = CHOOSE t \in Tables : TRUE

MCNext ==
  /\ UNCHANGED service
  /\ \/ service = "pool" /\ Next /\ UNCHANGED <<tableVars, generatorVars>>
     \/ service = "table" /\ TableNext /\ UNCHANGED <<vars, generatorVars>>
     \/ service = "packets" /\ GeneratorNext /\ UNCHANGED <<vars, tableVars>>

MCSpec == MCInit /\ [][MCNext]_<<vars, tableVars, generatorVars, service>>
=============================================================================
