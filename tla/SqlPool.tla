------------------------------- MODULE SqlPool -------------------------------
(***************************************************************************)
(* The connection pools of Functions/SQL: CMySQLPool and CMSSQLPool. Both  *)
(* keep a vector of connections, each ABLE or UNABLE to be handed out, and *)
(* a count from which the next connection's index is taken. GetConnection  *)
(* searches the vector under the critical section and returns a unique     *)
(* pointer whose deleter, given the index, makes the entry ABLE again.     *)
(*                                                                         *)
(* A connection is known by its place in the vector, counted from 1; the   *)
(* code's indexes count from 0. The database is external: connect and      *)
(* setSchema succeed or fail at any call.                                  *)
(***************************************************************************)
EXTENDS CriticalSection, Sequences

CONSTANT MaxConnections      \* iMaxConnectionCount

ASSUME MaxConnectionsAssumption == MaxConnections \in Nat

VARIABLES
  kind,        \* which of the two classes the pool is
  phase,       \* under construction, open, never made (an exception), or destroyed
  list,        \* m_sqlConnectionList: the state of each connection
  allocated,   \* m_iAllocatedConnectionCount
  lock,        \* m_ciriticalSection
  user,        \* per thread: where it is, its loop variable and its handle
  short,       \* history: the constructor gave up before its last connection
  refused      \* history: the connections whose setSchema failed

vars == <<kind, phase, list, allocated, lock, user, short, refused>>

Reserved == MaxConnections \div 2

\* A handle that holds no connection: the null unique_ptr.
Away == [pc |-> "away", at |-> 1, conn |-> 0, index |-> 0]

Init ==
  /\ kind \in {"MySQL", "MSSQL"}
  /\ phase = "building"
  /\ list = << >>
  /\ allocated = Reserved
  /\ lock = Free
  /\ user = [t \in Threads |-> Away]
  /\ short = FALSE
  /\ refused = {}

-----------------------------------------------------------------------------
(* The constructors. CMySQLPool catches the failure of a connect and goes   *)
(* on with the connections it has, but with the full count; the exception   *)
(* of CMSSQLPool leaves its constructor, and there is no pool.              *)

ConnectOne ==
  /\ phase = "building"
  /\ Len(list) < Reserved
  /\ list' = Append(list, "ABLE")
  /\ UNCHANGED <<kind, phase, allocated, lock, user, short, refused>>

ConnectFails ==
  /\ phase = "building"
  /\ Len(list) < Reserved
  /\ IF kind = "MySQL" THEN phase' = "open" /\ short' = TRUE
                       ELSE phase' = "never" /\ short' = short
  /\ UNCHANGED <<kind, list, allocated, lock, user, refused>>

Constructed ==
  /\ phase = "building"
  /\ Len(list) = Reserved
  /\ phase' = "open"
  /\ UNCHANGED <<kind, list, allocated, lock, user, short, refused>>

\* The destructor deletes every connection; a handle must not outlive the pool.
Destroy ==
  /\ phase = "open"
  /\ \A t \in Threads : user[t].pc = "away"
  /\ phase' = "destroyed"
  /\ list' = << >>
  /\ UNCHANGED <<kind, allocated, lock, user, short, refused>>

-----------------------------------------------------------------------------
(* GetConnection.                                                           *)

At(t, pc) == user[t].pc = pc

Goes(t, pc) == user' = [user EXCEPT ![t].pc = pc]

\* Defect: the guard is forgotten.
EnterUnguarded(t) ==
  /\ phase = "open"
  /\ At(t, "away")
  /\ user' = [user EXCEPT ![t] = [Away EXCEPT !.pc = "search"]]
  /\ UNCHANGED <<kind, phase, list, allocated, lock, short, refused>>

Enter(t) ==
  /\ phase = "open"
  /\ At(t, "away")
  /\ CanEnter(lock, t)
  /\ lock' = Entered(lock, t)
  /\ user' = [user EXCEPT ![t] = [Away EXCEPT !.pc = "search"]]
  /\ UNCHANGED <<kind, phase, list, allocated, short, refused>>

\* One turn of the for loop: the entry is ABLE, or the next one is looked at.
Search(t) ==
  /\ At(t, "search")
  /\ LET i == user[t].at
     IN  IF i > Len(list) THEN Goes(t, "full")
         ELSE IF list[i] = "ABLE" THEN Goes(t, "mark")
         ELSE user' = [user EXCEPT ![t].at = i + 1]
  /\ UNCHANGED <<kind, phase, list, allocated, lock, short, refused>>

\* The MSSQL handle is returned at once, the MySQL one after setSchema.
Mark(t) ==
  /\ At(t, "mark")
  /\ LET i == user[t].at
     IN  /\ list' = [list EXCEPT ![i] = "UNABLE"]
         /\ user' = [user EXCEPT ![t].conn = i, ![t].index = i - 1,
                       ![t].pc = IF kind = "MySQL" THEN "schema" ELSE "holding"]
  /\ lock' = IF kind = "MySQL" THEN lock ELSE Left(lock)
  /\ UNCHANGED <<kind, phase, allocated, short, refused>>

SchemaSet(t) ==
  /\ At(t, "schema")
  /\ Goes(t, "holding")
  /\ lock' = Left(lock)
  /\ UNCHANGED <<kind, phase, list, allocated, short, refused>>

\* The caller gets null; the entry was made UNABLE and nobody will undo it.
SchemaFails(t) ==
  /\ At(t, "schema")
  /\ refused' = refused \cup {user[t].conn}
  /\ user' = [user EXCEPT ![t] = Away]
  /\ lock' = Left(lock)
  /\ UNCHANGED <<kind, phase, list, allocated, short>>

Handle(c, i) == [pc |-> "holding", at |-> 1, conn |-> c, index |-> i]

\* Defect: the index is the count after it was incremented.
GrowPreIncrement(t) ==
  /\ At(t, "full")
  /\ allocated < MaxConnections
  /\ list' = Append(list, "UNABLE")
  /\ user' = [user EXCEPT ![t] = Handle(Len(list) + 1, allocated + 1)]
  /\ allocated' = allocated + 1
  /\ lock' = Left(lock)
  /\ UNCHANGED <<kind, phase, short, refused>>

\* A new connection; its handle's index is the count, not its place. For MySQL
\* setSchema is not called.
Grow(t) ==
  /\ At(t, "full")
  /\ allocated < MaxConnections
  /\ list' = Append(list, "UNABLE")
  /\ user' = [user EXCEPT ![t] = Handle(Len(list) + 1, allocated)]
  /\ allocated' = allocated + 1
  /\ lock' = Left(lock)
  /\ UNCHANGED <<kind, phase, short, refused>>

\* The pool is at its limit, or connect failed (an exception of CMSSQLPool's).
NoConnection(t) ==
  /\ At(t, "full")
  /\ user' = [user EXCEPT ![t] = Away]
  /\ lock' = Left(lock)
  /\ UNCHANGED <<kind, phase, list, allocated, short, refused>>

-----------------------------------------------------------------------------
(* The deleter of the handle. An index past the vector's end falls on       *)
(* memory that was reserved and holds no entry: the write is lost.          *)

MadeAble(l, index) ==
  [c \in DOMAIN l |-> IF c = index + 1 THEN "ABLE" ELSE l[c]]

\* CMSSQLPool's deleter takes the critical section, CMySQLPool's does not.
Release(t) ==
  /\ At(t, "holding")
  /\ kind = "MSSQL" => CanEnter(lock, t)
  /\ list' = MadeAble(list, user[t].index)
  /\ user' = [user EXCEPT ![t] = Away]
  /\ UNCHANGED <<kind, phase, allocated, lock, short, refused>>

-----------------------------------------------------------------------------
GetConnection(t) ==
  \/ Enter(t) \/ Search(t) \/ Mark(t) \/ SchemaSet(t) \/ SchemaFails(t)
  \/ Grow(t) \/ NoConnection(t)

Next ==
  \/ ConnectOne \/ ConnectFails \/ Constructed \/ Destroy
  \/ \E t \in Threads : GetConnection(t) \/ Release(t)

Spec == Init /\ [][Next]_vars

-----------------------------------------------------------------------------
Calls ==
  [pc : {"away", "search", "mark", "schema", "full", "holding"},
   at : Nat \ {0}, conn : Nat, index : Nat]

(* The range of every variable.                                             *)
TypeOK ==
  /\ kind \in {"MySQL", "MSSQL"}
  /\ phase \in {"building", "open", "never", "destroyed"}
  /\ list \in Seq({"ABLE", "UNABLE"})
  /\ allocated \in Reserved .. MaxConnections
  /\ lock \in Lock
  /\ user \in [Threads -> Calls]
  /\ short \in BOOLEAN
  /\ refused \subseteq Nat

\* The thread was given connection c, or is about to be.
Has(t, c) == user[t].pc \in {"schema", "holding"} /\ user[t].conn = c

(* A connection is in the hands of one thread at a time, although MySQL's   *)
(* deleter writes the state without the lock; unless CMySQLPool came out of *)
(* its constructor with fewer connections than it counts: then an index     *)
(* names another connection's entry, and giving one back frees the other.   *)
ExclusiveUse ==
  ~short => \A t, u \in Threads : \A c \in DOMAIN list :
              Has(t, c) /\ Has(u, c) => t = u

(* A connection that is not offered is in somebody's hands, who will give   *)
(* it back, or was spoiled by a schema that does not exist; unless the      *)
(* constructor came out short.                                              *)
NoConnectionLost ==
  ~short => \A c \in DOMAIN list :
              list[c] = "UNABLE" => c \in refused \/ \E t \in Threads : Has(t, c)
=============================================================================
