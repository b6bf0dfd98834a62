---------------------------- MODULE ServiceProofs ----------------------------
(***************************************************************************)
(* Theorems about the services that share nothing but the kind of lock     *)
(* they use, one after the other: the connection pools, the classes made   *)
(* from tables, the generator of the packets, the timers and the timing    *)
(* wheel; for any numbers of threads, connections, timers, slots, tables   *)
(* and lines.                                                              *)
(***************************************************************************)
EXTENDS SequencesExt, SequenceTheorems, WellFoundedInduction, TLAPS,
        SqlPool, TableClass, PacketGenerator, Timer, TimingWheel

-----------------------------------------------------------------------------
(* The connection pools.                                                    *)

(* The places of a call that are under the critical section.                *)
Inside(t) == user[t].pc \in {"search", "mark", "schema", "full"}

LockInv ==
  /\ lock = Free \/ (lock.owner \in Threads /\ lock.depth = 1)
  /\ \A t \in Threads : Inside(t) <=> lock.owner = t

PhaseInv == \A t \in Threads : user[t].pc # "away" => phase = "open"

(* The count is the number of connections, once they are made.              *)
CountInv ==
  /\ phase = "building" => allocated = Reserved /\ Len(list) <= Reserved
  /\ phase = "open" /\ ~short => allocated = Len(list)

(* What a thread was given is a connection, with its own index, that is not *)
(* offered; what it is about to be given is offered.                        *)
HandleInv ==
  ~short => \A t \in Threads :
    /\ user[t].pc = "mark" =>
         user[t].at \in DOMAIN list /\ list[user[t].at] = "ABLE"
    /\ user[t].pc \in {"schema", "holding"} =>
         /\ user[t].conn \in DOMAIN list
         /\ user[t].index = user[t].conn - 1
         /\ list[user[t].conn] = "UNABLE"

PoolInv ==
  /\ TypeOK /\ LockInv /\ PhaseInv /\ CountInv /\ HandleInv
  /\ ExclusiveUse /\ NoConnectionLost

(* The constructor's share of the connections is within the limit.          *)
LEMMA ReservedType == Reserved \in 0 .. MaxConnections
  BY MaxConnectionsAssumption DEF Reserved

LEMMA PoolInitInv == Init => PoolInv
<1> SUFFICES ASSUME Init PROVE PoolInv
  OBVIOUS
<1> USE DEF Init, Away
<1>1. TypeOK
  <2>1. allocated \in Reserved .. MaxConnections
    BY ReservedType, MaxConnectionsAssumption
  <2>2. list \in Seq({"ABLE", "UNABLE"}) /\ lock \in Lock
    BY DEF Lock, Free
  <2>3. user \in [Threads -> Calls]
    BY DEF Calls
  <2> QED BY <2>1, <2>2, <2>3 DEF TypeOK
<1>2. LockInv
  BY NoThreadAssumption DEF LockInv, Inside, Free
<1>3. PhaseInv /\ CountInv /\ HandleInv
  BY ReservedType, MaxConnectionsAssumption DEF PhaseInv, CountInv, HandleInv
<1>4. ExclusiveUse /\ NoConnectionLost
  BY DEF ExclusiveUse, NoConnectionLost
<1> QED BY <1>1, <1>2, <1>3, <1>4 DEF PoolInv

(* Construction and destruction happen while every thread is away.          *)
LEMMA ConstructionInv ==
  ASSUME PoolInv, ConnectOne \/ ConnectFails \/ Constructed \/ Destroy
  PROVE  PoolInv'
<1> USE DEF ConnectOne, ConnectFails, Constructed, Destroy
<1>0. Reserved \in Nat /\ list \in Seq({"ABLE", "UNABLE"})
  BY ReservedType, MaxConnectionsAssumption DEF PoolInv, TypeOK
<1>1. \A t \in Threads : user[t].pc = "away"
  BY DEF PoolInv, TypeOK, PhaseInv
<1>2. TypeOK'
  <2>1. list' \in Seq({"ABLE", "UNABLE"})
    <3>1. Append(list, "ABLE") \in Seq({"ABLE", "UNABLE"})
      BY <1>0
    <3>2. << >> \in Seq({"ABLE", "UNABLE"})
      OBVIOUS
    <3> QED BY <1>0, <3>1, <3>2
  <2>2. /\ phase' \in {"building", "open", "never", "destroyed"}
        /\ short' \in BOOLEAN
    BY DEF PoolInv, TypeOK
  <2> QED BY <2>1, <2>2 DEF PoolInv, TypeOK
<1>3. LockInv'
  BY DEF PoolInv, LockInv, Inside
<1>4. PhaseInv' /\ HandleInv'
  BY <1>1 DEF PhaseInv, HandleInv
<1>5. CountInv'
  BY <1>0 DEF PoolInv, CountInv
<1>6. ExclusiveUse'
  BY <1>1 DEF ExclusiveUse, Has
<1>7. NoConnectionLost'
  BY <1>0, <1>1 DEF PoolInv, NoConnectionLost, Has
<1> QED BY <1>2, <1>3, <1>4, <1>5, <1>6, <1>7 DEF PoolInv

(* What a step of one thread leaves alone, whatever it does.                *)
Frame(t) ==
  /\ UNCHANGED <<kind, phase, short>> /\ refused \subseteq refused'
  /\ user' \in [Threads -> Calls]
  /\ \A u \in Threads \ {t} : user'[u] = user[u]
  /\ user[t].pc # "away" \/ phase = "open"

(* The critical section is kept, entered or left.                           *)
LockStep(t) ==
  \/ lock' = lock /\ (Inside(t)' <=> Inside(t))
  \/ lock' = [owner |-> t, depth |-> 1] /\ lock.owner = NoThread /\ Inside(t)'
  \/ lock' = Free /\ Inside(t) /\ ~Inside(t)'

(* A step that keeps its thread's lock in step with its place.              *)
LEMMA LockKept ==
  ASSUME PoolInv, NEW t \in Threads, Frame(t), LockStep(t)
  PROVE  LockInv' /\ PhaseInv'
<1>1. \A u \in Threads : Inside(u) <=> lock.owner = u
  BY DEF PoolInv, LockInv
<1>2. \A u \in Threads \ {t} : Inside(u)' <=> Inside(u)
  BY DEF Frame, Inside
<1>3. LockInv'
  <2>1. CASE lock' = lock /\ (Inside(t)' <=> Inside(t))
    BY <1>1, <1>2, <2>1 DEF PoolInv, LockInv
  <2>2. CASE lock' = [owner |-> t, depth |-> 1] /\ lock.owner = NoThread /\ Inside(t)'
    BY <1>1, <1>2, <2>2, NoThreadAssumption DEF LockInv
  <2>3. CASE lock' = Free /\ Inside(t) /\ ~Inside(t)'
    BY <1>1, <1>2, <2>3, NoThreadAssumption DEF LockInv, Free
  <2> QED BY <2>1, <2>2, <2>3 DEF LockStep
<1>4. PhaseInv'
  BY DEF Frame, PoolInv, PhaseInv
<1> QED BY <1>3, <1>4

(* A thread that is away enters a free critical section; one that is inside *)
(* entered it once.                                                         *)
LEMMA LockSteps ==
  ASSUME PoolInv, NEW t \in Threads
  PROVE  /\ user[t].pc = "away" /\ CanEnter(lock, t) =>
              Entered(lock, t) = [owner |-> t, depth |-> 1] /\ lock.owner = NoThread
         /\ Inside(t) => Left(lock) = Free
<1>1. lock \in [owner : Threads \cup {NoThread}, depth : Nat]
  BY DEF PoolInv, TypeOK, Lock
<1>2. lock = Free \/ lock.depth = 1
  BY DEF PoolInv, LockInv
<1>3. Inside(t) <=> lock.owner = t
  BY DEF PoolInv, LockInv
<1>4. ASSUME user[t].pc = "away", CanEnter(lock, t)
      PROVE  Entered(lock, t) = [owner |-> t, depth |-> 1] /\ lock.owner = NoThread
  <2>1. lock.owner = NoThread
    BY <1>3, <1>4 DEF Inside, CanEnter
  <2>2. lock = Free
    BY <1>2, <2>1, NoThreadAssumption DEF PoolInv, LockInv
  <2> QED BY <2>1, <2>2 DEF Entered, Free
<1>5. ASSUME Inside(t) PROVE Left(lock) = Free
  BY <1>1, <1>2, <1>3, <1>5, NoThreadAssumption DEF Left, Free
<1> QED BY <1>4, <1>5

(* A step that leaves the connections as they are: its thread keeps what it *)
(* has, or spoils it, or has nothing before and after.                      *)
LEMMA QuietInv ==
  ASSUME PoolInv, NEW t \in Threads, Frame(t), LockStep(t), lock' \in Lock,
         UNCHANGED <<list, allocated>>, refused' \subseteq Nat,
         user'[t].pc = "mark" =>
           user'[t].at \in DOMAIN list /\ list[user'[t].at] = "ABLE",
         user'[t].pc \in {"schema", "holding"} =>
           /\ user[t].pc \in {"schema", "holding"}
           /\ user'[t].conn = user[t].conn /\ user'[t].index = user[t].index,
         user[t].pc \in {"schema", "holding"} =>
           user'[t].pc \in {"schema", "holding"} \/ user[t].conn \in refused'
  PROVE  PoolInv'
<1>1. TypeOK'
  BY DEF PoolInv, TypeOK, Frame
<1>2. CountInv'
  BY DEF PoolInv, CountInv, Frame
<1>3. HandleInv'
  BY DEF PoolInv, HandleInv, Frame
<1>4. \A u \in Threads, c \in DOMAIN list : Has(u, c)' => Has(u, c)
  BY DEF Frame, Has
<1>5. ExclusiveUse'
  BY <1>4 DEF PoolInv, ExclusiveUse, Frame
<1>6. \A u \in Threads, c \in DOMAIN list : Has(u, c) => Has(u, c)' \/ c \in refused'
  BY DEF Frame, Has
<1>7. NoConnectionLost'
  BY <1>6 DEF PoolInv, NoConnectionLost, Frame
<1> QED BY <1>1, <1>2, <1>3, <1>5, <1>7, LockKept DEF PoolInv

LEMMA EnterInv ==
  ASSUME PoolInv, NEW t \in Threads, Enter(t)
  PROVE  PoolInv'
<1> DEFINE call == [pc |-> "search", at |-> 1, conn |-> 0, index |-> 0]
<1>1. user \in [Threads -> Calls] /\ user' = [user EXCEPT ![t] = call]
  <2>1. [Away EXCEPT !.pc = "search"] = call
    BY DEF Away
  <2> HIDE DEF call
  <2> QED BY <2>1 DEF PoolInv, TypeOK, Enter
<1>2. Frame(t) /\ user'[t] = call
  <2>1. call \in Calls
    BY DEF Calls
  <2> HIDE DEF call
  <2> QED BY <1>1, <2>1 DEF Frame, Enter
<1>3. lock' = [owner |-> t, depth |-> 1] /\ lock.owner = NoThread
  BY LockSteps DEF Enter, At
<1>4. LockStep(t) /\ lock' \in Lock
  BY <1>2, <1>3 DEF LockStep, Inside, Lock
<1> QED
  BY <1>2, <1>4, QuietInv DEF Enter, At, PoolInv, TypeOK

(* The loop looks at the next entry, has found one, or is at the end.       *)
LEMMA SearchInv ==
  ASSUME PoolInv, NEW t \in Threads, Search(t)
  PROVE  PoolInv'
<1>0. /\ user \in [Threads -> Calls] /\ user[t].pc = "search"
      /\ user[t].at \in Nat \ {0} /\ list \in Seq({"ABLE", "UNABLE"})
      /\ UNCHANGED <<kind, phase, list, allocated, lock, short, refused>>
  BY DEF PoolInv, TypeOK, Calls, Search, At
<1>1. ASSUME NEW call \in Calls, user' = [user EXCEPT ![t] = call],
             call.pc \in {"search", "full", "mark"},
             call.pc = "mark" => call.at \in DOMAIN list /\ list[call.at] = "ABLE"
      PROVE  PoolInv'
  <2>1. Frame(t) /\ user'[t] = call
    BY <1>0, <1>1 DEF Frame
  <2>2. LockStep(t) /\ lock' \in Lock
    BY <1>0, <1>1, <2>1 DEF LockStep, Inside, PoolInv, TypeOK
  <2> QED BY <1>0, <1>1, <2>1, <2>2, QuietInv DEF PoolInv, TypeOK
<1>2. CASE user[t].at > Len(list)
  <2>1. user' = [user EXCEPT ![t] = [user[t] EXCEPT !.pc = "full"]]
    BY <1>2 DEF Search, Goes
  <2>2. [user[t] EXCEPT !.pc = "full"] \in Calls
    BY <1>0 DEF Calls
  <2> QED BY <1>0, <1>1, <2>1, <2>2 DEF Calls
<1>3. CASE user[t].at \in DOMAIN list /\ list[user[t].at] = "ABLE"
  <2>1. user' = [user EXCEPT ![t] = [user[t] EXCEPT !.pc = "mark"]]
    BY <1>0, <1>3 DEF Search, Goes
  <2>2. [user[t] EXCEPT !.pc = "mark"] \in Calls
    BY <1>0 DEF Calls
  <2> QED BY <1>0, <1>1, <1>3, <2>1, <2>2 DEF Calls
<1>4. CASE user[t].at \in DOMAIN list /\ list[user[t].at] # "ABLE"
  <2>1. user' = [user EXCEPT ![t] = [user[t] EXCEPT !.at = user[t].at + 1]]
    BY <1>0, <1>4 DEF Search
  <2>2. [user[t] EXCEPT !.at = user[t].at + 1] \in Calls
    BY <1>0 DEF Calls
  <2> QED BY <1>0, <1>1, <2>1, <2>2 DEF Calls
<1> QED BY <1>0, <1>2, <1>3, <1>4

(* The handle is returned, or the caller goes away without one.             *)
LEMMA LeaveInv ==
  ASSUME PoolInv, NEW t \in Threads, SchemaSet(t) \/ SchemaFails(t) \/ NoConnection(t)
  PROVE  PoolInv'
<1>0. /\ user \in [Threads -> Calls] /\ user[t].pc \in {"schema", "full"}
      /\ user[t].conn \in Nat /\ refused \subseteq Nat
      /\ UNCHANGED <<kind, phase, list, allocated, short>>
  BY DEF PoolInv, TypeOK, Calls, SchemaSet, SchemaFails, NoConnection, At
<1>1. lock' = Free /\ lock' \in Lock
  BY <1>0, LockSteps
     DEF Inside, Lock, Free, SchemaSet, SchemaFails, NoConnection
<1>2. CASE SchemaSet(t)
  <2> DEFINE call == [user[t] EXCEPT !.pc = "holding"]
  <2>1. user' = [user EXCEPT ![t] = call] /\ refused' = refused /\ user[t].pc = "schema"
    BY <1>2 DEF SchemaSet, Goes, At
  <2>2. /\ call \in Calls /\ call.pc = "holding"
        /\ call.conn = user[t].conn /\ call.index = user[t].index
    BY <1>0 DEF Calls
  <2> HIDE DEF call
  <2>3. Frame(t) /\ user'[t] = call
    BY <1>0, <2>1, <2>2 DEF Frame
  <2>4. LockStep(t)
    BY <1>1, <2>1, <2>2, <2>3 DEF LockStep, Inside
  <2> QED BY <1>0, <1>1, <2>1, <2>2, <2>3, <2>4, QuietInv
<1>3. CASE SchemaFails(t) \/ NoConnection(t)
  <2>1. /\ user' = [user EXCEPT ![t] = Away] /\ refused \subseteq refused'
        /\ refused' \subseteq Nat
        /\ user[t].pc = "schema" => user[t].conn \in refused'
    BY <1>0, <1>3 DEF SchemaFails, NoConnection, At
  <2>2. Away \in Calls /\ Away.pc = "away"
    BY DEF Calls, Away
  <2>3. Frame(t) /\ user'[t] = Away
    BY <1>0, <2>1, <2>2 DEF Frame
  <2>4. LockStep(t)
    BY <1>0, <1>1, <2>2, <2>3 DEF LockStep, Inside
  <2> QED BY <1>0, <1>1, <2>1, <2>2, <2>3, <2>4, QuietInv
<1> QED BY <1>2, <1>3

(* The entry that was found is still offered, and nobody else is about to   *)
(* take it: the search and the mark are under the critical section.         *)
LEMMA MarkInv ==
  ASSUME PoolInv, NEW t \in Threads, Mark(t)
  PROVE  PoolInv'
<1> DEFINE i == user[t].at
           place == IF kind = "MySQL" THEN "schema" ELSE "holding"
           call == [pc |-> place, at |-> i, conn |-> i, index |-> i - 1]
<1>0. /\ user \in [Threads -> Calls] /\ user[t].pc = "mark" /\ i \in Nat \ {0}
      /\ list \in Seq({"ABLE", "UNABLE"}) /\ list' = [list EXCEPT ![i] = "UNABLE"]
      /\ UNCHANGED <<kind, phase, allocated, short, refused>>
  BY DEF PoolInv, TypeOK, Calls, Mark, At
<1>1. user' = [user EXCEPT ![t] = call]
  BY <1>0 DEF Mark, Calls
<1>2. call \in Calls /\ i - 1 \in Nat
  BY <1>0 DEF Calls
<1>3. /\ Frame(t) /\ user'[t].pc = place /\ user'[t].conn = i
      /\ user'[t].index = i - 1
  BY <1>0, <1>1, <1>2 DEF Frame
<1>4. LockStep(t) /\ lock' \in Lock
  BY <1>0, <1>3, LockSteps
     DEF Mark, LockStep, Inside, Lock, Free, PoolInv, TypeOK
<1>5. /\ DOMAIN list' = DOMAIN list /\ Len(list') = Len(list)
      /\ list' \in Seq({"ABLE", "UNABLE"})
      /\ \A c \in DOMAIN list : list'[c] = IF c = i THEN "UNABLE" ELSE list[c]
  <2>1. list \in [1 .. Len(list) -> {"ABLE", "UNABLE"}] /\ Len(list) \in Nat
    BY <1>0
  <2>2. list' \in [1 .. Len(list) -> {"ABLE", "UNABLE"}]
    BY <1>0, <2>1
  <2> QED BY <1>0, <2>1, <2>2
<1>6. TypeOK'
  BY <1>0, <1>3, <1>4, <1>5 DEF PoolInv, TypeOK, Frame
<1>7. CountInv'
  BY <1>0, <1>5 DEF PoolInv, CountInv
<1>8. ~short => i \in DOMAIN list /\ list[i] = "ABLE"
  BY <1>0 DEF PoolInv, HandleInv
<1>9. \A u \in Threads \ {t} : user[u].pc # "mark" /\ user'[u] = user[u]
  BY <1>0, <1>3 DEF PoolInv, LockInv, Inside, Frame
<1> HIDE DEF i, call
<1>10. HandleInv'
  BY <1>0, <1>3, <1>5, <1>8, <1>9 DEF PoolInv, HandleInv
<1>11. \A u \in Threads \ {t} : \A c : Has(u, c)' <=> Has(u, c)
  BY <1>9 DEF Has
<1>12. \A c : Has(t, c)' <=> c = i
  BY <1>3 DEF Has
<1>13. ~short => \A u \in Threads : ~Has(u, i)
  BY <1>8 DEF PoolInv, HandleInv, Has
<1>14. ExclusiveUse'
  BY <1>0, <1>5, <1>11, <1>12, <1>13 DEF PoolInv, ExclusiveUse
<1>15. \A c : ~Has(t, c)
  BY <1>0 DEF Has
<1>16. NoConnectionLost'
  BY <1>0, <1>5, <1>11, <1>12, <1>15 DEF PoolInv, NoConnectionLost
<1> QED BY <1>3, <1>4, <1>6, <1>7, <1>10, <1>14, <1>16, LockKept DEF PoolInv

(* The new connection is the last one, and the count was its index.         *)
LEMMA GrowInv ==
  ASSUME PoolInv, NEW t \in Threads, Grow(t)
  PROVE  PoolInv'
<1> DEFINE new == Len(list) + 1
           call == Handle(new, allocated)
<1>0. /\ user \in [Threads -> Calls] /\ user[t].pc = "full" /\ phase = "open"
      /\ user[t].at \in Nat \ {0} /\ allocated \in Nat
      /\ list \in Seq({"ABLE", "UNABLE"}) /\ list' = Append(list, "UNABLE")
      /\ allocated' = allocated + 1
      /\ UNCHANGED <<kind, phase, short, refused>>
  BY ReservedType, MaxConnectionsAssumption
     DEF PoolInv, TypeOK, Calls, PhaseInv, Grow, At
<1>1. user' = [user EXCEPT ![t] = call]
  BY DEF Grow, Handle
<1>2. call \in Calls /\ new \in Nat
  BY <1>0 DEF Calls, Handle
<1>3. /\ Frame(t) /\ user'[t].pc = "holding" /\ user'[t].conn = new
      /\ user'[t].index = allocated
  BY <1>0, <1>1, <1>2 DEF Frame, Handle
<1>4. LockStep(t) /\ lock' \in Lock
  BY <1>0, <1>3, LockSteps DEF Grow, LockStep, Inside, Lock, Free
<1>5. /\ DOMAIN list' = DOMAIN list \cup {new} /\ Len(list') = new
      /\ list' \in Seq({"ABLE", "UNABLE"}) /\ new \notin DOMAIN list
      /\ list'[new] = "UNABLE" /\ \A c \in DOMAIN list : list'[c] = list[c]
  BY <1>0
<1>6. TypeOK'
  <2>1. allocated' \in Reserved .. MaxConnections
    BY <1>0, ReservedType, MaxConnectionsAssumption DEF Grow, PoolInv, TypeOK
  <2> QED BY <1>0, <1>3, <1>4, <1>5, <2>1 DEF PoolInv, TypeOK, Frame
<1>7. CountInv' /\ (~short => allocated = new - 1)
  BY <1>0, <1>5 DEF PoolInv, CountInv
<1> HIDE DEF new, call
<1>8. HandleInv'
  <2> SUFFICES ASSUME ~short, NEW u \in Threads
               PROVE  /\ user'[u].pc = "mark" =>
                           user'[u].at \in DOMAIN list' /\ list'[user'[u].at] = "ABLE"
                      /\ user'[u].pc \in {"schema", "holding"} =>
                           /\ user'[u].conn \in DOMAIN list'
                           /\ user'[u].index = user'[u].conn - 1
                           /\ list'[user'[u].conn] = "UNABLE"
    BY <1>0 DEF HandleInv
  <2>1. CASE u = t
    BY <1>3, <1>5, <1>7, <2>1
  <2>2. CASE u # t
    BY <1>3, <1>5, <2>2 DEF PoolInv, HandleInv, Frame
  <2> QED BY <2>1, <2>2
<1>9. \A u \in Threads \ {t} : \A c : Has(u, c)' <=> Has(u, c)
  BY <1>3 DEF Frame, Has
<1>10. \A c : (Has(t, c)' <=> c = new) /\ ~Has(t, c)
  BY <1>0, <1>3 DEF Has
<1>11. ~short => \A u \in Threads : ~Has(u, new)
  BY <1>5 DEF PoolInv, HandleInv, Has
<1>12. ExclusiveUse'
  BY <1>0, <1>5, <1>9, <1>10, <1>11 DEF PoolInv, ExclusiveUse
<1>13. NoConnectionLost'
  BY <1>0, <1>5, <1>9, <1>10 DEF PoolInv, NoConnectionLost
<1> QED BY <1>3, <1>4, <1>6, <1>7, <1>8, <1>12, <1>13, LockKept DEF PoolInv

(* The deleter, which for CMySQLPool runs while another thread is inside:   *)
(* it writes its own entry only, which nobody else has and no search found. *)
LEMMA ReleaseInv ==
  ASSUME PoolInv, NEW t \in Threads, Release(t)
  PROVE  PoolInv'
<1> DEFINE mine == user[t].index + 1
<1>0. /\ user \in [Threads -> Calls] /\ user[t].pc = "holding"
      /\ list \in Seq({"ABLE", "UNABLE"}) /\ list' = MadeAble(list, user[t].index)
      /\ user' = [user EXCEPT ![t] = Away] /\ Away \in Calls /\ Away.pc = "away"
      /\ UNCHANGED <<kind, phase, allocated, lock, short, refused>>
  BY DEF PoolInv, TypeOK, Calls, Release, At, Away
<1>1. Frame(t) /\ user'[t].pc = "away"
  BY <1>0 DEF Frame
<1>2. LockStep(t)
  BY <1>0, <1>1 DEF LockStep, Inside
<1>3. /\ DOMAIN list' = DOMAIN list /\ Len(list') = Len(list)
      /\ list' \in Seq({"ABLE", "UNABLE"})
      /\ \A c \in DOMAIN list : list'[c] = IF c = mine THEN "ABLE" ELSE list[c]
  BY <1>0 DEF MadeAble
<1>4. ~short => mine = user[t].conn /\ \A c : Has(t, c) <=> c = mine
  BY <1>0 DEF PoolInv, TypeOK, Calls, HandleInv, Has
<1> HIDE DEF mine
<1>5. TypeOK' /\ CountInv'
  BY <1>0, <1>1, <1>3 DEF PoolInv, TypeOK, CountInv, Frame
<1>6. \A u \in Threads \ {t} : \A c : Has(u, c)' <=> Has(u, c)
  BY <1>1 DEF Frame, Has
<1>7. \A c : ~Has(t, c)'
  BY <1>1 DEF Has
<1>8. ~short => \A u \in Threads \ {t} : \A c \in DOMAIN list : Has(u, c) => c # mine
  BY <1>4 DEF PoolInv, ExclusiveUse
<1>9. HandleInv'
  BY <1>0, <1>1, <1>3, <1>8 DEF PoolInv, HandleInv, Frame, Has
<1>10. ExclusiveUse'
  BY <1>0, <1>3, <1>6, <1>7 DEF PoolInv, ExclusiveUse
<1>11. NoConnectionLost'
  BY <1>0, <1>3, <1>4, <1>6 DEF PoolInv, NoConnectionLost
<1> QED BY <1>1, <1>2, <1>5, <1>9, <1>10, <1>11, LockKept DEF PoolInv

LEMMA PoolStutter == ASSUME PoolInv, UNCHANGED vars PROVE PoolInv'
  BY DEF PoolInv, TypeOK, LockInv, Inside, PhaseInv, CountInv, HandleInv,
         ExclusiveUse, NoConnectionLost, Has, vars

(* The invariant of both pools holds in every state (MySQL.hpp:71-140).    *)
THEOREM PoolInvariant == Spec => []PoolInv
<1>1. ASSUME PoolInv, [Next]_vars PROVE PoolInv'
  <2>1. CASE ConnectOne \/ ConnectFails \/ Constructed \/ Destroy
    BY <1>1, <2>1, ConstructionInv
  <2>2. CASE \E t \in Threads : GetConnection(t)
    BY <1>1, <2>2, EnterInv, SearchInv, LeaveInv, MarkInv, GrowInv
       DEF GetConnection
  <2>3. CASE \E t \in Threads : Release(t)
    BY <1>1, <2>3, ReleaseInv
  <2>4. CASE UNCHANGED vars
    BY <1>1, <2>4, PoolStutter
  <2> QED BY <1>1, <2>1, <2>2, <2>3, <2>4 DEF Next
<1> QED BY <1>1, PoolInitInv, PTL DEF Spec

(* Every variable of a pool stays in its range: in particular it never      *)
(* counts more connections than its limit (MySQL.hpp:99-130, MSSQL.hpp:     *)
(* 202-222).                                                                *)
THEOREM PoolTypeCorrect == Spec => []TypeOK
  BY PoolInvariant, PTL DEF PoolInv

(* A pool whose constructor made all its connections never gives one to two *)
(* threads, although CMySQLPool's deleter takes no lock (MySQL.hpp:44-56).  *)
THEOREM ConnectionsAreExclusive == Spec => []ExclusiveUse
  BY PoolInvariant, PTL DEF PoolInv

(* Such a pool loses a connection in one way only: by a setSchema that      *)
(* fails (MySQL.hpp:106-111).                                               *)
THEOREM ConnectionsComeBack == Spec => []NoConnectionLost
  BY PoolInvariant, PTL DEF PoolInv

-----------------------------------------------------------------------------
(* The generated classes.                                                   *)

(* A row has the columns of the table, and in each the value of the member  *)
(* of that name.                                                            *)
RowsInv ==
  \A r \in rows :
    DOMAIN r = ToSet(Label(table)) /\ \A c \in DOMAIN r : r[c] \in {c, Nothing}

GotInv ==
  generator = "MySQL" \/ IsPrefix(got.fields, Label(columns)) =>
    \A c \in DOMAIN got.values : got.values[c] \in {c, Nothing}

(* Nothing is selected before the class is there, and then it stays.        *)
ClassInv ==
  /\ table \in Seq([label : STRING, type : STRING])
  /\ step \in {"start", "counted", "built", "rejected"}
  /\ step # "built" => got = NewObject
  /\ generator \in {"MSSQL", "MySQL"}
  /\ \E t \in Seq([label : STRING, type : STRING]) : columns = Members(t)

(* What the generator found is the table, as long as it is not altered and  *)
(* the queries were answered.                                               *)
FoundInv ==
  ~altered /\ ~unanswered =>
    /\ step = "counted" => numOfColumn = Len(table)
    /\ step = "built" => Label(columns) = Label(table) /\ numOfColumn = Len(columns)

TableInv == RowsInv /\ GotInv /\ ClassInv /\ FoundInv /\ InsertsAreTaken

LEMMA MembersOf ==
  ASSUME NEW t \in Seq([label : STRING, type : STRING])
  PROVE  /\ DOMAIN Members(t) = 1 .. Len(t) /\ Len(Members(t)) = Len(t) /\ Len(t) \in Nat
         /\ Label(Members(t)) = Label(t)
         /\ DOMAIN Label(t) = 1 .. Len(t) /\ Len(Label(t)) = Len(t)
         /\ Label(t) \in Seq(STRING)
<1>1. DOMAIN t = 1 .. Len(t) /\ Len(t) \in Nat
  OBVIOUS
<1>2. DOMAIN Members(t) = 1 .. Len(t) /\ \A i \in 1 .. Len(t) : Members(t)[i].label = t[i].label
  BY <1>1 DEF Members
<1>3. Label(Members(t)) = Label(t)
  BY <1>1, <1>2 DEF Label
<1>4. Members(t) \in Seq({Members(t)[i] : i \in 1 .. Len(t)})
  BY <1>1, <1>2 DEF Members
<1>5. Label(t) = [i \in 1 .. Len(t) |-> t[i].label]
  BY <1>1 DEF Label
<1>6. ASSUME NEW i \in 1 .. Len(t) PROVE t[i].label \in STRING
  <2> DEFINE C == [label : STRING, type : STRING]
  <2>1. t[i] \in C
    <3>1. t \in Seq(C)
      OBVIOUS
    <3> HIDE DEF C
    <3> QED BY <1>1, <3>1
  <2> QED BY <2>1
<1>7. Label(t) \in Seq(STRING)
  BY <1>1, <1>5, <1>6
<1> QED BY <1>1, <1>2, <1>3, <1>4, <1>5, <1>7

(* The labels of the class are a sequence with one label per member.        *)
LEMMA ClassLabels ==
  ASSUME ClassInv
  PROVE  /\ DOMAIN Label(columns) = 1 .. Len(columns)
         /\ Len(Label(columns)) = Len(columns) /\ Len(columns) \in Nat
         /\ Label(columns) \in Seq(STRING)
<1>1. PICK t \in Seq([label : STRING, type : STRING]) : columns = Members(t)
  BY DEF ClassInv
<1> QED BY <1>1, MembersOf

(* The place of a label that is there leads back to the label.              *)
LEMMA PlaceHolds ==
  ASSUME NEW s, NEW e \in ToSet(s)
  PROVE  Place(s, e) \in DOMAIN s /\ s[Place(s, e)] = e
BY DEF ToSet, Place

LEMMA TableInitInv == TableInit => TableInv
<1> SUFFICES ASSUME TableInit PROVE TableInv
  OBVIOUS
<1> USE DEF TableInit
<1>1. RowsInv /\ GotInv
  BY DEF RowsInv, GotInv, NewObject
<1>2. ClassInv
  <2>1. << >> \in Seq([label : STRING, type : STRING]) /\ columns = Members(<< >>)
    BY DEF Members
  <2>2. table \in Seq([label : STRING, type : STRING])
    BY TablesAssumption
  <2> QED BY <2>1, <2>2 DEF ClassInv
<1>3. FoundInv /\ InsertsAreTaken
  BY DEF FoundInv, InsertsAreTaken
<1> QED BY <1>1, <1>2, <1>3 DEF TableInv

(* The rows follow the table; the class and what was selected do not.       *)
LEMMA AlterInv == ASSUME TableInv, Alter PROVE TableInv'
<1>1. /\ UNCHANGED <<classVars, got, unanswered, insertRefused>>
      /\ table' \in Tables /\ altered' = (altered \/ step # "start")
  BY DEF Alter
<1>2. RowsInv'
  <2>1. ASSUME NEW r \in rows'
        PROVE  DOMAIN r = ToSet(Label(table')) /\ \A c \in DOMAIN r : r[c] \in {c, Nothing}
    <3>1. PICK old \in rows :
            r = [c \in ToSet(Label(table')) |->
                  IF c \in DOMAIN old THEN old[c] ELSE Nothing]
      BY <2>1 DEF Alter
    <3>2. \A c \in DOMAIN old : old[c] \in {c, Nothing}
      BY DEF TableInv, RowsInv
    <3> QED BY <3>1, <3>2
  <2> QED BY <2>1 DEF RowsInv
<1>3. GotInv'
  BY <1>1 DEF TableInv, GotInv, classVars
<1>4. ClassInv'
  <2>1. table' \in Seq([label : STRING, type : STRING])
    BY <1>1, TablesAssumption
  <2>2. UNCHANGED <<generator, step, columns, got>>
    BY <1>1 DEF classVars
  <2>3. \A t : Members(t)' = Members(t)
    BY <2>2 DEF Members, CppType
  <2> QED BY <2>1, <2>2, <2>3 DEF TableInv, ClassInv
<1>5. FoundInv'
  BY <1>1 DEF TableInv, FoundInv, classVars
<1>6. InsertsAreTaken'
  BY <1>1 DEF TableInv, InsertsAreTaken
<1> QED BY <1>2, <1>3, <1>4, <1>5, <1>6 DEF TableInv

(* The steps of the generators.                                             *)
LEMMA GenerationInv ==
  ASSUME TableInv, CountColumns \/ ListColumns \/ DescribeTable
  PROVE  TableInv'
<1> USE DEF CountColumns, ListColumns, DescribeTable
<1>1. UNCHANGED <<generator, table, rows, got, altered, insertRefused>> /\ step # "built"
  OBVIOUS
<1>2. got = NewObject /\ table \in Seq([label : STRING, type : STRING])
  BY <1>1 DEF TableInv, ClassInv
<1>3. RowsInv'
  BY <1>1 DEF TableInv, RowsInv
<1>4. GotInv'
  BY <1>1, <1>2 DEF GotInv, NewObject
<1>5. \A t : Members(t)' = Members(t)
  BY <1>1 DEF Members, CppType
<1>6. step' \in {"counted", "built", "rejected"}
  BY DEF Compiled
<1>7. ClassInv'
  <2>1. columns' = columns \/ columns' = Members(table) \/ columns' = Members(<< >>)
    BY DEF Members
  <2>2. << >> \in Seq([label : STRING, type : STRING])
    OBVIOUS
  <2>3. \E t \in Seq([label : STRING, type : STRING]) : columns' = Members(t)
    BY <1>2, <2>1, <2>2 DEF TableInv, ClassInv
  <2>4. \E t \in Seq([label : STRING, type : STRING]) : columns' = Members(t)'
    BY <1>5, <2>3
  <2> QED BY <1>1, <1>2, <1>6, <2>4 DEF TableInv, ClassInv
<1>8. FoundInv'
  <2>1. CASE CountColumns
    BY <1>1, <2>1 DEF FoundInv
  <2>2. CASE ListColumns
    <3>1. CASE columns' = Members(table) /\ UNCHANGED unanswered
      <4>1. Label(columns') = Label(table) /\ Len(columns') = Len(table)
        BY <1>2, <3>1, MembersOf
      <4>2. ~altered /\ ~unanswered => numOfColumn = Len(table)
        BY <2>2 DEF TableInv, FoundInv
      <4>3. step' # "counted" /\ numOfColumn' = numOfColumn
        BY <2>2 DEF Compiled
      <4> QED BY <1>1, <3>1, <4>1, <4>2, <4>3 DEF FoundInv
    <3>2. CASE unanswered'
      BY <3>2 DEF FoundInv
    <3> QED BY <2>2, <3>1, <3>2
  <2>3. CASE DescribeTable
    <3>1. Label(columns') = Label(table) /\ numOfColumn' = Len(columns')
      BY <1>2, <2>3, MembersOf
    <3>2. step' # "counted"
      BY <2>3 DEF Compiled
    <3> QED BY <1>1, <3>1, <3>2 DEF FoundInv
  <2> QED BY <2>1, <2>2, <2>3
<1>9. InsertsAreTaken'
  BY <1>1 DEF TableInv, InsertsAreTaken
<1> QED BY <1>3, <1>4, <1>7, <1>8, <1>9 DEF TableInv

(* A parameter is bound to the member of its column's name, and the marks   *)
(* are as many as the labels.                                               *)
LEMMA InsertInv == ASSUME TableInv, ExecuteQueryForInsert PROVE TableInv'
<1> DEFINE labels == Label(columns)
<1>0. UNCHANGED <<classVars, table, got, altered, unanswered>> /\ step = "built"
  BY DEF ExecuteQueryForInsert
<1>1. PreparedQueryForInsert = [labels |-> labels, marks |-> numOfColumn]
  BY DEF PreparedQueryForInsert, MakeQueryForInsert
<1>2. /\ DOMAIN labels = 1 .. Len(columns) /\ Len(labels) = Len(columns)
      /\ Len(columns) \in Nat
  BY ClassLabels DEF TableInv
<1>3. ClassInv' /\ GotInv' /\ FoundInv'
  BY <1>0 DEF TableInv, ClassInv, GotInv, FoundInv, classVars, Members, CppType
<1>4. RowsInv'
  <2>1. CASE rows' = rows
    BY <1>0, <2>1 DEF TableInv, RowsInv
  <2>2. CASE rows' = rows \cup {[c \in ToSet(Label(table)) |->
                                  IF Contains(labels, c) THEN Bound(Place(labels, c))
                                  ELSE Nothing]}
    <3>1. ASSUME NEW c, Contains(labels, c) PROVE Bound(Place(labels, c)) = c
      <4>1. c \in ToSet(labels)
        BY <1>2, <3>1 DEF Contains, ToSet
      <4> QED BY <4>1, PlaceHolds DEF Bound
    <3> DEFINE new == [c \in ToSet(Label(table)) |->
                         IF Contains(labels, c) THEN Bound(Place(labels, c)) ELSE Nothing]
    <3>2. DOMAIN new = ToSet(Label(table)) /\ \A c \in DOMAIN new : new[c] \in {c, Nothing}
      BY <3>1
    <3>3. rows' = rows \cup {new}
      BY <2>2
    <3> HIDE DEF new
    <3> QED BY <1>0, <3>2, <3>3 DEF TableInv, RowsInv
  <2> QED BY <1>1, <2>1, <2>2 DEF ExecuteQueryForInsert
<1>5. InsertsAreTaken'
  <2>1. SUFFICES ASSUME ~altered, ~unanswered PROVE insertRefused' = insertRefused
    BY <1>0 DEF TableInv, InsertsAreTaken
  <2>2. labels = Label(table) /\ numOfColumn = Len(labels)
    BY <1>0, <1>2, <2>1 DEF TableInv, FoundInv
  <2> QED BY <1>1, <2>2 DEF ExecuteQueryForInsert
<1> QED BY <1>3, <1>4, <1>5 DEF TableInv

(* What MSSQL reads by position is right when the fields are the first      *)
(* members in their order; what MySQL reads by label is always.             *)
LEMMA SelectInv ==
  ASSUME TableInv, NEW fields \in Asked, NEW conditions,
         ExecuteQueryForSelect(fields, conditions)
  PROVE  TableInv'
<1> DEFINE result == IF fields = << >> THEN Label(table) ELSE fields
           labels == Label(columns)
<1>0. /\ UNCHANGED <<classVars, table, rows, altered, unanswered, insertRefused>>
      /\ step = "built"
  BY DEF ExecuteQueryForSelect
<1>1. PICK r \in rows :
        got' = [fields |-> fields,
                values |-> IF generator = "MySQL" THEN ReadByLabel(r, result)
                           ELSE ReadByPosition(r, fields, result)]
  BY DEF ExecuteQueryForSelect, MakeQueryForSelect, Satisfying
<1>2. ToSet(result) \subseteq DOMAIN r /\ \A c \in DOMAIN r : r[c] \in {c, Nothing}
  BY DEF ExecuteQueryForSelect, MakeQueryForSelect, Takes, TableInv, RowsInv
<1>3. RowsInv' /\ ClassInv' /\ FoundInv' /\ InsertsAreTaken'
  BY <1>0 DEF TableInv, RowsInv, ClassInv, FoundInv, InsertsAreTaken, classVars, Members, CppType
<1>4. GotInv'
  <2>1. CASE generator = "MySQL"
    <3>1. got'.values = << >> \/ (/\ got'.values = [c \in ToSet(labels) |-> r[c]]
                                  /\ ToSet(labels) \subseteq ToSet(result))
      BY <1>1, <2>1 DEF ReadByLabel
    <3> QED BY <1>2, <3>1 DEF GotInv
  <2>2. CASE generator # "MySQL"
    <3>1. SUFFICES ASSUME IsPrefix(fields, labels),
                          NEW c \in DOMAIN got'.values
                   PROVE  got'.values[c] \in {c, Nothing}
      BY <1>0, <1>1, <2>2 DEF GotInv, classVars
    <3> DEFINE i == Place(labels, c)
    <3>2. /\ c \in ToSet(fields) /\ Contains(labels, c)
          /\ got'.values[c] = IF i <= Len(result) THEN r[result[i]] ELSE Nothing
      BY <1>1, <2>2, <3>1 DEF ReadByPosition, Readable
    <3>3. PICK n \in Nat : fields \in [1 .. n -> UNION {ToSet(Label(t)) : t \in Tables}]
      <4> DEFINE L == UNION {ToSet(Label(t)) : t \in Tables}
      <4>1. fields \in UNION {[1 .. n -> L] : n \in 0 .. 3}
        BY DEF Asked
      <4> HIDE DEF L
      <4>2. \E n \in 0 .. 3 : fields \in [1 .. n -> L]
        BY <4>1
      <4> QED BY <4>2 DEF L
    <3>4. fields \in Seq(UNION {ToSet(Label(t)) : t \in Tables}) /\ result = fields
      BY <3>2, <3>3 DEF ToSet
    <3>5. labels \in Seq(STRING) /\ DOMAIN labels = 1 .. Len(labels)
      BY ClassLabels DEF TableInv
    <3>6. i \in 1 .. Len(labels) /\ labels[i] = c
      <4>1. c \in ToSet(labels)
        BY <3>2, <3>5 DEF Contains, ToSet
      <4> QED BY <3>5, <4>1, PlaceHolds
    <3>7. CASE i <= Len(fields)
      <4> DEFINE S == UNION {ToSet(Label(t)) : t \in Tables}
      <4>1. fields[i] = labels[i]
        <5>1. SubSeq(fields, 1, Len(fields))[i] = fields[i]
          BY <3>4, <3>6, <3>7
        <5>2. SubSeq(labels, 1, Len(fields))[i] = labels[i]
          BY <3>1, <3>4, <3>5, <3>6, <3>7 DEF IsPrefix
        <5> QED BY <3>1, <5>1, <5>2 DEF IsPrefix
      <4> QED BY <1>2, <3>2, <3>4, <3>6, <3>7, <4>1 DEF ToSet
    <3>8. CASE ~ (i <= Len(fields))
      BY <3>2, <3>4, <3>8
    <3> QED BY <3>7, <3>8
  <2> QED BY <2>1, <2>2
<1> QED BY <1>3, <1>4 DEF TableInv

LEMMA DeleteRowsInv ==
  ASSUME TableInv, NEW conditions, ExecuteQueryForDelete(conditions)
  PROVE  TableInv'
<1>1. rows' \subseteq rows
  BY DEF ExecuteQueryForDelete
<1>2. UNCHANGED <<classVars, table, got, altered, unanswered, insertRefused>>
  BY DEF ExecuteQueryForDelete
<1> QED BY <1>1, <1>2 DEF TableInv, RowsInv, GotInv, ClassInv, FoundInv, InsertsAreTaken,
                          classVars, Members, CppType

(* The inductive invariant of the generated classes, whatever tables the    *)
(* table may become.                                                        *)
THEOREM TableInvariant == TableSpec => []TableInv
<1>1. TableInv /\ [TableNext]_tableVars => TableInv'
  <2> SUFFICES ASSUME TableInv, [TableNext]_tableVars PROVE TableInv'
    OBVIOUS
  <2>1. CASE UNCHANGED tableVars
    BY <2>1 DEF tableVars, TableInv, RowsInv, GotInv, ClassInv, FoundInv, InsertsAreTaken,
                classVars, Members, CppType
  <2>2. ASSUME NEW conditions \in Asked, ExecuteQueryForDelete(conditions) PROVE TableInv'
    BY <2>2, DeleteRowsInv
  <2>3. ASSUME NEW conditions \in Asked, NEW fields \in Asked,
               ExecuteQueryForSelect(fields, conditions)
        PROVE  TableInv'
    BY <2>3, SelectInv
  <2> QED BY <2>1, <2>2, <2>3, AlterInv, GenerationInv, InsertInv DEF TableNext
<1> QED BY <1>1, TableInitInv, PTL DEF TableSpec

(* Every value is in the column of its member and comes out of it, however  *)
(* the table is altered (MSSQL main.cpp:222-239, MySQL main.cpp:225-253).   *)
THEOREM ValuesStayInTheirColumn == TableSpec => []ValuesKeepTheirColumn
<1>1. TableInv => ValuesKeepTheirColumn
  BY DEF TableInv, RowsInv, GotInv, ValuesKeepTheirColumn
<1> QED BY <1>1, TableInvariant, PTL

(* No insert is refused before the table is altered, when the generator's   *)
(* queries were answered (MSSQL main.cpp:111-137, 174-204).                 *)
THEOREM NoInsertIsRefused == TableSpec => []InsertsAreTaken
<1>1. TableInv => InsertsAreTaken
  BY DEF TableInv
<1> QED BY <1>1, TableInvariant, PTL

-----------------------------------------------------------------------------
(* The packet generator.                                                    *)

(* The PARAMETERs and the STRUCTUREs there may be.                          *)
Parameters == [name : {ln.name : ln \in Lines}, size : Nat]
Structures == [name : {ln.name : ln \in Lines} \cup {Untitled}, members : Seq(Parameters)]

(* The last VERSION line among lines p + 1 .. a has this name, or there is  *)
(* none.                                                                    *)
NamedBy(name, p, a) ==
  \/ name = Untitled /\ \A i \in p + 1 .. a : packetText[i].kind # "version"
  \/ \E i \in p + 1 .. a :
       /\ packetText[i].kind = "version" /\ packetText[i].name = name
       /\ \A j \in i + 1 .. a : packetText[j].kind # "version"

(* The members are the lines between a and b.                               *)
ReadFrom(ms, a, b) ==
  /\ ms \in Seq(Parameters) /\ Len(ms) = b - a - 1
  /\ \A i \in 1 .. Len(ms) : ms[i] = Parameter(packetText[a + i])

EndOf(k) == IF k = 0 THEN 0 ELSE blocks[k][2]

TextInv ==
  /\ packetText \in Seq(Lines) /\ blocks \in Seq(Nat \X Nat)
  /\ Len(packetInformation) = Len(blocks)
  /\ packetInformation \in Seq(Structures) /\ newInfo \in Structures
  /\ opened \in Nat /\ generated \in Nat

(* The STRUCTURE under construction: what was read since the last one.      *)
OpenInv ==
  LET p == EndOf(Len(blocks))
      n == Len(packetText)
  IN  /\ p \in 0 .. n
      /\ opened = 0 => NamedBy(newInfo.name, p, n) /\ newInfo.members = << >>
      /\ opened # 0 =>
           /\ opened \in p + 1 .. n /\ NamedBy(newInfo.name, p, opened)
           /\ stage = "reading" => ReadFrom(newInfo.members, opened, n + 1)

(* Each STRUCTURE is its block.                                             *)
StructureInv ==
  \A k \in 1 .. Len(blocks) :
    LET a == blocks[k][1]
        b == blocks[k][2]
    IN  /\ EndOf(k - 1) \in Nat /\ EndOf(k - 1) < a /\ a < b /\ b <= Len(packetText)
        /\ NamedBy(packetInformation[k].name, EndOf(k - 1), a)
        /\ ReadFrom(packetInformation[k].members, a, b)

(* Each header is made from a STRUCTURE of its name.                        *)
FileInv ==
  \A n \in DOMAIN files :
    \E k \in 1 .. Len(blocks) :
      files[n] = <<k, Header(packetInformation[k])>> /\ packetInformation[k].name = n

PacketInv == TextInv /\ OpenInv /\ StructureInv /\ FileInv

LEMMA PacketInitInv == GeneratorInit => PacketInv
<1> SUFFICES ASSUME GeneratorInit PROVE PacketInv
  OBVIOUS
<1> USE DEF GeneratorInit, Blank
<1>1. TextInv
  BY DEF TextInv, Structures
<1>2. OpenInv
  BY DEF OpenInv, EndOf, NamedBy
<1>3. StructureInv /\ FileInv
  BY DEF StructureInv, FileInv
<1> QED BY <1>1, <1>2, <1>3 DEF PacketInv

(* A line that is read leaves what was said of the lines before.            *)
LEMMA LongerText ==
  ASSUME packetText \in Seq(Lines), NEW line \in Lines,
         packetText' = Append(packetText, line)
  PROVE  /\ Len(packetText') = Len(packetText) + 1 /\ packetText' \in Seq(Lines)
         /\ packetText'[Len(packetText) + 1] = line
         /\ \A i \in 1 .. Len(packetText) : packetText'[i] = packetText[i]
         /\ \A name : \A p \in Nat : \A a \in 0 .. Len(packetText) :
              NamedBy(name, p, a) => NamedBy(name, p, a)'
         /\ \A ms : \A a \in Nat : \A b \in 0 .. Len(packetText) + 1 :
              ReadFrom(ms, a, b) => ReadFrom(ms, a, b)'
<1>1. /\ Len(packetText') = Len(packetText) + 1 /\ packetText' \in Seq(Lines)
      /\ packetText'[Len(packetText) + 1] = line
      /\ \A i \in 1 .. Len(packetText) : packetText'[i] = packetText[i]
      /\ Len(packetText) \in Nat
  OBVIOUS
<1>2. ASSUME NEW name, NEW p \in Nat, NEW a \in 0 .. Len(packetText), NamedBy(name, p, a)
      PROVE  NamedBy(name, p, a)'
  <2>1. \A i \in p + 1 .. a : packetText'[i] = packetText[i]
    BY <1>1
  <2>2. CASE name = Untitled /\ \A i \in p + 1 .. a : packetText[i].kind # "version"
    BY <2>1, <2>2 DEF NamedBy
  <2>3. ASSUME NEW i \in p + 1 .. a,
               packetText[i].kind = "version" /\ packetText[i].name = name,
               \A j \in i + 1 .. a : packetText[j].kind # "version"
        PROVE  NamedBy(name, p, a)'
    <3>1. \A j \in i + 1 .. a : packetText'[j].kind # "version"
      BY <2>1, <2>3
    <3>2. packetText'[i].kind = "version" /\ packetText'[i].name = name
      BY <2>1, <2>3
    <3> QED BY <3>1, <3>2 DEF NamedBy
  <2> QED BY <1>2, <2>2, <2>3 DEF NamedBy
<1>3. ASSUME NEW ms, NEW a \in Nat, NEW b \in 0 .. Len(packetText) + 1, ReadFrom(ms, a, b)
      PROVE  ReadFrom(ms, a, b)'
  <2>1. \A i \in 1 .. Len(ms) : a + i \in 1 .. Len(packetText)
    BY <1>1, <1>3 DEF ReadFrom
  <2>2. \A i \in 1 .. Len(ms) : Parameter(packetText'[a + i]) = Parameter(packetText[a + i])
    BY <1>1, <2>1
  <2> QED BY <1>3, <2>2 DEF ReadFrom
<1> QED BY <1>1, <1>2, <1>3

(* What was read before a line keeps its blocks and headers.                *)
LEMMA StructuresStay ==
  ASSUME PacketInv, NEW line \in Lines, packetText' = Append(packetText, line),
         UNCHANGED <<blocks, packetInformation, files>>
  PROVE  StructureInv' /\ FileInv'
<1>1. FileInv'
  BY DEF PacketInv, FileInv
<1>2. ASSUME NEW k \in 1 .. Len(blocks)
      PROVE  LET a == blocks[k][1]
                 b == blocks[k][2]
             IN  /\ EndOf(k - 1)' \in Nat /\ EndOf(k - 1)' < a /\ a < b /\ b <= Len(packetText')
                 /\ NamedBy(packetInformation[k].name, EndOf(k - 1), a)'
                 /\ ReadFrom(packetInformation[k].members, a, b)'
  <2> DEFINE a == blocks[k][1]
             b == blocks[k][2]
  <2>1. /\ EndOf(k - 1) \in Nat /\ EndOf(k - 1) < a /\ a < b /\ b <= Len(packetText)
        /\ NamedBy(packetInformation[k].name, EndOf(k - 1), a)
        /\ ReadFrom(packetInformation[k].members, a, b)
    BY DEF PacketInv, StructureInv
  <2>2. EndOf(k - 1)' = EndOf(k - 1)
    BY DEF EndOf
  <2>3. /\ packetText \in Seq(Lines) /\ Len(packetText) \in Nat
        /\ a \in 0 .. Len(packetText) /\ b \in 0 .. Len(packetText) + 1 /\ a \in Nat
    <3>1. blocks[k] \in Nat \X Nat
      BY DEF PacketInv, TextInv
    <3> QED BY <2>1, <3>1 DEF PacketInv, TextInv
  <2>4. NamedBy(packetInformation[k].name, EndOf(k - 1), a)'
    BY <2>1, <2>2, <2>3, LongerText
  <2>5. ReadFrom(packetInformation[k].members, a, b)'
    BY <2>1, <2>3, LongerText
  <2>6. b <= Len(packetText')
    BY <2>1, <2>3, LongerText
  <2> QED BY <2>1, <2>2, <2>4, <2>5, <2>6
<1>3. StructureInv'
  BY <1>2 DEF StructureInv
<1> QED BY <1>1, <1>3

(* What a member keeps of its line.                                         *)
LEMMA ParameterType ==
  ASSUME NEW line \in Lines
  PROVE  /\ Parameter(line) \in Parameters
         /\ Parameter(line).name = line.name
         /\ line.size < 65536 => Parameter(line).size = line.size
         /\ line.size \in Nat /\ line.name \in {ln.name : ln \in Lines}
<1>1. line.size \in Nat /\ line.name \in {ln.name : ln \in Lines}
  BY LinesAssumption
<1>2. line.size % 65536 \in Nat /\ (line.size < 65536 => line.size % 65536 = line.size)
  BY <1>1
<1> QED BY <1>1, <1>2 DEF Parameter, Parameters

(* A line after those the name was taken from.                              *)
LEMMA NextLine ==
  ASSUME packetText \in Seq(Lines), NEW line \in Lines,
         packetText' = Append(packetText, line),
         NEW name, NEW p \in 0 .. Len(packetText), NamedBy(name, p, Len(packetText)),
         NEW n, n = Len(packetText) + 1
  PROVE  /\ line.kind # "version" => NamedBy(name, p, n)'
         /\ line.kind = "version" => NamedBy(line.name, p, n)'
<1>1. /\ Len(packetText) \in Nat /\ packetText'[n] = line
      /\ \A i \in 1 .. Len(packetText) : packetText'[i] = packetText[i]
  BY LongerText
<1>2. ASSUME line.kind # "version" PROVE NamedBy(name, p, n)'
  <2>1. CASE name = Untitled /\ \A i \in p + 1 .. Len(packetText) : packetText[i].kind # "version"
    <3>1. \A i \in p + 1 .. n : packetText'[i].kind # "version"
      BY <1>1, <1>2, <2>1
    <3> QED BY <2>1, <3>1 DEF NamedBy
  <2>2. ASSUME NEW i \in p + 1 .. Len(packetText),
               packetText[i].kind = "version" /\ packetText[i].name = name,
               \A j \in i + 1 .. Len(packetText) : packetText[j].kind # "version"
        PROVE  NamedBy(name, p, n)'
    <3>1. \A j \in i + 1 .. n : packetText'[j].kind # "version"
      BY <1>1, <1>2, <2>2
    <3>2. packetText'[i].kind = "version" /\ packetText'[i].name = name /\ i \in p + 1 .. n
      BY <1>1, <2>2
    <3> QED BY <3>1, <3>2 DEF NamedBy
  <2> QED BY <2>1, <2>2 DEF NamedBy
<1>3. ASSUME line.kind = "version" PROVE NamedBy(line.name, p, n)'
  <2>1. n \in p + 1 .. n /\ \A j \in n + 1 .. n : packetText'[j].kind # "version"
    BY <1>1
  <2> QED BY <1>1, <1>3, <2>1 DEF NamedBy
<1> QED BY <1>2, <1>3

LEMMA OutsideInv ==
  ASSUME PacketInv, NEW line \in Lines, ReadOutside(line)
  PROVE  PacketInv'
<1>1. /\ packetText' = Append(packetText, line) /\ opened = 0
      /\ UNCHANGED <<packetInformation, blocks, stage, generated, files>>
      /\ newInfo' = IF line.kind = "version" THEN [newInfo EXCEPT !.name = line.name]
                                             ELSE newInfo
      /\ opened' = IF line.kind = "open" THEN Len(packetText') ELSE 0
  BY DEF ReadOutside, Read
<1>2. PICK p, n, name : p = EndOf(Len(blocks)) /\ n = Len(packetText) + 1 /\ name = newInfo.name
  OBVIOUS
<1>3. /\ packetText \in Seq(Lines) /\ Len(packetText) \in Nat /\ n \in Nat
      /\ p \in 0 .. Len(packetText) /\ NamedBy(name, p, Len(packetText))
      /\ newInfo.members = << >>
  BY <1>1, <1>2 DEF PacketInv, TextInv, OpenInv
<1>4. /\ Len(packetText') = n /\ packetText' \in Seq(Lines)
      /\ line.kind # "version" => NamedBy(name, p, n)'
      /\ line.kind = "version" => NamedBy(line.name, p, n)'
  BY <1>1, <1>2, <1>3, LongerText, NextLine
<1>5. /\ newInfo' \in Structures /\ newInfo'.members = << >>
      /\ newInfo'.name = IF line.kind = "version" THEN line.name ELSE name
  <2>1. newInfo \in Structures
    BY DEF PacketInv, TextInv
  <2>2. line.name \in {ln.name : ln \in Lines}
    BY ParameterType
  <2> QED BY <1>1, <1>2, <1>3, <2>1, <2>2 DEF Structures
<1>6. TextInv'
  BY <1>1, <1>3, <1>4, <1>5 DEF PacketInv, TextInv
<1>7. OpenInv'
  <2>1. PICK new : new = newInfo'.name
    OBVIOUS
  <2>2. NamedBy(new, p, n)'
    BY <1>4, <1>5, <2>1
  <2>3. EndOf(Len(blocks))' = p /\ p \in 0 .. n
    BY <1>1, <1>2, <1>3 DEF EndOf
  <2>4. n \in p + 1 .. n /\ n # 0
    BY <1>2, <1>3
  <2>5. ReadFrom(<< >>, n, n + 1)'
    BY <1>3 DEF ReadFrom
  <2> QED BY <1>1, <1>4, <1>5, <2>1, <2>2, <2>3, <2>4, <2>5 DEF OpenInv
<1>8. StructureInv' /\ FileInv'
  BY <1>1, StructuresStay
<1> QED BY <1>6, <1>7, <1>8 DEF PacketInv

(* A line of the open block becomes the next member.                        *)
LEMMA MemberInv ==
  ASSUME PacketInv, NEW line \in Lines, ReadMember(line)
  PROVE  PacketInv'
<1>1. /\ packetText' = Append(packetText, line) /\ opened # 0 /\ stage = "reading"
      /\ UNCHANGED <<opened, packetInformation, blocks, generated, files>>
      /\ \/ stage' = "terminated" /\ newInfo' = newInfo
         \/ newInfo' = [newInfo EXCEPT !.members = Append(@, Parameter(line))]
  BY DEF ReadMember, Read
<1>2. PICK p, n, name, a, ms :
        /\ p = EndOf(Len(blocks)) /\ n = Len(packetText) + 1 /\ name = newInfo.name
        /\ a = opened /\ ms = newInfo.members
  OBVIOUS
<1>3. /\ packetText \in Seq(Lines) /\ Len(packetText) \in Nat /\ n \in Nat
      /\ p \in 0 .. Len(packetText) /\ a \in p + 1 .. Len(packetText) /\ a \in Nat
      /\ NamedBy(name, p, a) /\ ReadFrom(ms, a, n)
      /\ newInfo \in Structures /\ ms \in Seq(Parameters)
  BY <1>1, <1>2 DEF PacketInv, TextInv, OpenInv, ReadFrom
<1>4. /\ Len(packetText') = n /\ packetText' \in Seq(Lines) /\ packetText'[n] = line
      /\ NamedBy(name, p, a)' /\ ReadFrom(ms, a, n)'
  BY <1>1, <1>2, <1>3, LongerText
<1>5. PICK next : next = Append(ms, Parameter(line))
  OBVIOUS
<1>6. ReadFrom(next, a, n + 1)'
  <2>1. /\ Parameter(line) \in Parameters /\ Len(ms) = n - a - 1
        /\ \A i \in 1 .. Len(ms) : ms[i] = Parameter(packetText'[a + i])
    BY <1>4, ParameterType DEF ReadFrom
  <2>2. /\ next \in Seq(Parameters) /\ Len(next) = n + 1 - a - 1 /\ next[Len(next)] = Parameter(line)
        /\ \A i \in 1 .. Len(ms) : next[i] = ms[i]
    BY <1>3, <1>5, <2>1
  <2>3. ASSUME NEW i \in 1 .. Len(next) PROVE next[i] = Parameter(packetText'[a + i])
    <3>1. CASE i = Len(next)
      <4>1. a + i = n
        BY <1>3, <2>2, <3>1
      <4> QED BY <1>4, <2>2, <3>1, <4>1
    <3>2. CASE i # Len(next)
      <4>1. i \in 1 .. Len(ms)
        BY <1>3, <2>1, <2>2, <3>2
      <4> QED BY <2>1, <2>2, <4>1
    <3> QED BY <3>1, <3>2
  <2>4. \A i \in 1 .. Len(next) : next[i] = Parameter(packetText[a + i])'
    BY <2>3 DEF Parameter
  <2> QED BY <1>3, <2>2, <2>4 DEF ReadFrom
<1>7. /\ newInfo'.name = name
      /\ newInfo' \in Structures
      /\ stage' # "terminated" => newInfo'.members = next
  <2>1. next \in Seq(Parameters)
    BY <1>6 DEF ReadFrom
  <2> QED BY <1>1, <1>2, <1>3, <1>5, <2>1 DEF Structures
<1>8. TextInv'
  BY <1>1, <1>4, <1>7 DEF PacketInv, TextInv
<1>9. OpenInv'
  <2>1. EndOf(Len(blocks))' = p /\ p \in 0 .. n /\ a \in p + 1 .. n /\ a # 0
    BY <1>1, <1>2, <1>3 DEF EndOf
  <2> QED BY <1>1, <1>2, <1>4, <1>6, <1>7, <2>1 DEF OpenInv
<1>10. StructureInv' /\ FileInv'
  BY <1>1, StructuresStay
<1> QED BY <1>8, <1>9, <1>10 DEF PacketInv

(* The block that closes becomes a STRUCTURE, and the next one begins empty *)
(* and without a name.                                                      *)
LEMMA CloseInv ==
  ASSUME PacketInv, NEW line \in Lines, ReadClose(line)
  PROVE  PacketInv'
<1>1. /\ packetText' = Append(packetText, line) /\ opened # 0 /\ stage = "reading"
      /\ UNCHANGED <<stage, generated, files>>
      /\ newInfo' = Blank /\ opened' = 0
      /\ packetInformation' = Append(packetInformation, newInfo)
      /\ blocks' = Append(blocks, <<opened, Len(packetText')>>)
  BY DEF ReadClose, Read, BlockEnds
<1>2. PICK p, n, name, a, ms, m :
        /\ p = EndOf(Len(blocks)) /\ n = Len(packetText) + 1 /\ name = newInfo.name
        /\ a = opened /\ ms = newInfo.members /\ m = Len(blocks)
  OBVIOUS
<1>3. /\ packetText \in Seq(Lines) /\ Len(packetText) \in Nat /\ n \in Nat /\ m \in Nat
      /\ p \in 0 .. Len(packetText) /\ a \in p + 1 .. Len(packetText) /\ a \in Nat
      /\ NamedBy(name, p, a) /\ ReadFrom(ms, a, n)
      /\ blocks \in Seq(Nat \X Nat) /\ Len(packetInformation) = m
      /\ packetInformation \in Seq(Structures) /\ newInfo \in Structures
  BY <1>1, <1>2 DEF PacketInv, TextInv, OpenInv
<1>4. /\ Len(packetText') = n /\ packetText' \in Seq(Lines)
      /\ NamedBy(name, p, a)' /\ ReadFrom(ms, a, n)'
  BY <1>1, <1>2, <1>3, LongerText
<1>5. /\ blocks' \in Seq(Nat \X Nat) /\ Len(blocks') = m + 1 /\ blocks'[m + 1] = <<a, n>>
      /\ \A k \in 1 .. m : blocks'[k] = blocks[k]
  BY <1>1, <1>2, <1>3, <1>4
<1>6. /\ packetInformation' \in Seq(Structures) /\ Len(packetInformation') = m + 1
      /\ packetInformation'[m + 1].name = name /\ packetInformation'[m + 1].members = ms
      /\ \A k \in 1 .. m : packetInformation'[k] = packetInformation[k]
  <2>1. /\ packetInformation' \in Seq(Structures) /\ Len(packetInformation') = m + 1
        /\ packetInformation'[m + 1] = newInfo
        /\ \A k \in 1 .. m : packetInformation'[k] = packetInformation[k]
    BY <1>1, <1>3
  <2> QED BY <1>2, <2>1
<1>7. newInfo' \in Structures /\ newInfo'.name = Untitled /\ newInfo'.members = << >>
  BY <1>1 DEF Blank, Structures
<1>8. TextInv'
  BY <1>1, <1>4, <1>5, <1>6, <1>7 DEF PacketInv, TextInv
<1>9. \A k \in 0 .. m : EndOf(k)' = EndOf(k)
  BY <1>5 DEF EndOf
<1>10. EndOf(m + 1)' = n
  BY <1>3, <1>5 DEF EndOf
<1>11. OpenInv'
  <2>1. NamedBy(Untitled, n, n)'
    BY <1>3 DEF NamedBy
  <2>2. EndOf(Len(blocks))' = n
    BY <1>5, <1>10
  <2>3. opened' = 0 /\ Len(packetText') = n /\ n \in Nat
    BY <1>1, <1>3, <1>4
  <2> QED BY <1>7, <2>1, <2>2, <2>3 DEF OpenInv
<1>12. StructureInv'
  <2>1. ASSUME NEW k \in 1 .. m + 1, NEW b, NEW e, NEW s, NEW q,
               b = blocks'[k][1], e = blocks'[k][2], s = packetInformation'[k],
               q = EndOf(k - 1)'
        PROVE  /\ q \in Nat /\ q < b /\ b < e /\ e <= Len(packetText')
               /\ NamedBy(s.name, q, b)' /\ ReadFrom(s.members, b, e)'
    <3>1. CASE k = m + 1
      <4>1. q = p /\ b = a /\ e = n /\ s.name = name /\ s.members = ms
        BY <1>2, <1>3, <1>5, <1>6, <1>9, <2>1, <3>1
      <4> QED BY <1>2, <1>3, <1>4, <4>1
    <3>2. CASE k \in 1 .. m
      <4>1. /\ q = EndOf(k - 1) /\ b = blocks[k][1] /\ e = blocks[k][2]
            /\ s = packetInformation[k]
        <5>1. k - 1 \in 0 .. m
          BY <1>3, <3>2
        <5>2. EndOf(k - 1)' = EndOf(k - 1)
          BY <1>9, <5>1
        <5>3. blocks'[k] = blocks[k] /\ packetInformation'[k] = packetInformation[k]
          BY <1>5, <1>6, <3>2
        <5> QED BY <2>1, <5>2, <5>3
      <4>2. /\ q \in Nat /\ q < b /\ b < e /\ e <= Len(packetText)
            /\ NamedBy(s.name, q, b) /\ ReadFrom(s.members, b, e)
        BY <1>2, <3>2, <4>1 DEF PacketInv, StructureInv
      <4>3. blocks[k] \in Nat \X Nat
        BY <1>2, <1>3, <3>2
      <4>4. b \in 0 .. Len(packetText) /\ e \in 0 .. Len(packetText) + 1 /\ b \in Nat
        BY <1>3, <4>1, <4>2, <4>3
      <4>5. NamedBy(s.name, q, b)' /\ ReadFrom(s.members, b, e)'
        BY <1>1, <1>3, <4>2, <4>4, LongerText
      <4> QED BY <1>2, <1>3, <1>4, <4>2, <4>4, <4>5
    <3> QED BY <1>3, <3>1, <3>2
  <2>2. ASSUME NEW k \in 1 .. m + 1
        PROVE  LET b == blocks[k][1]
                   e == blocks[k][2]
               IN  (/\ EndOf(k - 1) \in Nat /\ EndOf(k - 1) < b /\ b < e /\ e <= Len(packetText)
                    /\ NamedBy(packetInformation[k].name, EndOf(k - 1), b)
                    /\ ReadFrom(packetInformation[k].members, b, e))'
    <3>1. PICK b, e, s, q : /\ b = blocks'[k][1] /\ e = blocks'[k][2]
                            /\ s = packetInformation'[k] /\ q = EndOf(k - 1)'
      OBVIOUS
    <3> QED BY <2>1, <3>1
  <2> QED BY <1>5, <2>2 DEF StructureInv
<1>13. FileInv'
  <2>1. ASSUME NEW f \in DOMAIN files
        PROVE  \E k \in 1 .. m + 1 :
                 /\ files[f] = <<k, Header(packetInformation'[k])>>
                 /\ packetInformation'[k].name = f
    <3>1. PICK k \in 1 .. m :
            files[f] = <<k, Header(packetInformation[k])>> /\ packetInformation[k].name = f
      BY <1>2 DEF PacketInv, FileInv
    <3> QED BY <1>3, <1>6, <3>1
  <2> QED BY <1>1, <1>5, <2>1 DEF FileInv
<1> QED BY <1>8, <1>11, <1>12, <1>13 DEF PacketInv

LEMMA SameStructures ==
  ASSUME PacketInv, UNCHANGED <<packetText, packetInformation, blocks>>
  PROVE  StructureInv'
BY DEF PacketInv, StructureInv, EndOf, NamedBy, ReadFrom

LEMMA ReadingEndsInv == ASSUME PacketInv, EndOfText PROVE PacketInv'
<1>1. UNCHANGED <<packetText, opened, newInfo, packetInformation, blocks, generated, files>>
      /\ stage' # "reading"
  BY DEF EndOfText, parsed
<1>2. TextInv' /\ FileInv'
  BY <1>1 DEF PacketInv, TextInv, FileInv
<1>3. OpenInv'
  BY <1>1 DEF PacketInv, OpenInv, EndOf, NamedBy
<1>4. StructureInv'
  BY <1>1, SameStructures
<1> QED BY <1>2, <1>3, <1>4 DEF PacketInv

LEMMA GenerateClassInv == ASSUME PacketInv, GenerateClass PROVE PacketInv'
<1> DEFINE k == generated + 1
           s == packetInformation[k]
<1>1. /\ UNCHANGED <<packetText, opened, newInfo, packetInformation, blocks, stage>>
      /\ generated' = k /\ k \in 1 .. Len(blocks)
      /\ \/ files' = files
         \/ files' = [f \in DOMAIN files \cup {s.name} |->
                       IF f = s.name THEN <<k, Header(s)>> ELSE files[f]]
  BY DEF GenerateClass, parsed, PacketInv, TextInv
<1>2. TextInv'
  BY <1>1 DEF PacketInv, TextInv
<1>3. OpenInv'
  BY <1>1 DEF PacketInv, OpenInv, EndOf, NamedBy, ReadFrom
<1>4. StructureInv'
  BY <1>1, SameStructures
<1>5. FileInv'
  <2> HIDE DEF k, s
  <2>1. ASSUME NEW f \in DOMAIN files'
        PROVE  \E j \in 1 .. Len(blocks) :
                 files'[f] = <<j, Header(packetInformation[j])>> /\ packetInformation[j].name = f
    <3>1. CASE f \in DOMAIN files /\ files'[f] = files[f]
      BY <3>1 DEF PacketInv, FileInv
    <3>2. CASE f = s.name /\ files'[f] = <<k, Header(s)>>
      BY <1>1, <3>2 DEF s
    <3> QED BY <1>1, <2>1, <3>1, <3>2
  <2> QED BY <1>1, <2>1 DEF FileInv
<1> QED BY <1>2, <1>3, <1>4, <1>5 DEF PacketInv

(* What the generator has read and written, line by line: the inductive     *)
(* invariant of PacketGenerator, for every set of lines.                    *)
THEOREM PacketInvariant == GeneratorSpec => []PacketInv
<1>1. PacketInv /\ [GeneratorNext]_generatorVars => PacketInv'
  <2> SUFFICES ASSUME PacketInv, [GeneratorNext]_generatorVars PROVE PacketInv'
    OBVIOUS
  <2>1. CASE UNCHANGED generatorVars
    <3>1. TextInv' /\ FileInv'
      BY <2>1 DEF PacketInv, TextInv, FileInv, generatorVars, parsed
    <3>2. OpenInv'
      BY <2>1 DEF PacketInv, OpenInv, EndOf, NamedBy, ReadFrom, generatorVars, parsed
    <3>3. StructureInv'
      BY <2>1, SameStructures DEF generatorVars, parsed
    <3> QED BY <3>1, <3>2, <3>3 DEF PacketInv
  <2> QED BY <2>1, OutsideInv, MemberInv, CloseInv, ReadingEndsInv, GenerateClassInv
          DEF GeneratorNext
<1> QED BY <1>1, PacketInitInv, PTL DEF GeneratorSpec

(* Each header has the name, and as its members the lines, of one block of  *)
(* packet.txt, in their order (main.cpp:28-71).                             *)
THEOREM HeadersAreTheirBlocks == GeneratorSpec => []HeadersDescribeBlocks
<1>1. PacketInv => HeadersDescribeBlocks
  <2> SUFFICES ASSUME PacketInv, NEW f \in DOMAIN files
               PROVE  LET k == files[f][1]
                          ms == files[f][2].members
                      IN  /\ Title(k) = f /\ Len(ms) = Len(Block(k))
                          /\ \A i \in DOMAIN ms :
                               /\ ms[i].name = Block(k)[i].name
                               /\ Block(k)[i].size < 65536 => ms[i].size = Block(k)[i].size
    BY DEF HeadersDescribeBlocks
  <2>1. PICK k \in 1 .. Len(blocks) :
          files[f] = <<k, Header(packetInformation[k])>> /\ packetInformation[k].name = f
    BY DEF PacketInv, FileInv
  <2> DEFINE a == blocks[k][1]
             b == blocks[k][2]
             p == EndOf(k - 1)
             ms == packetInformation[k].members
             n == Len(packetText)
  <2>2. files[f][1] = k /\ files[f][2].members = ms
    BY <2>1 DEF Header
  <2>3. /\ packetText \in Seq(Lines) /\ n \in Nat /\ a \in Nat /\ b \in Nat
        /\ p \in Nat /\ p < a /\ a < b /\ b <= n
        /\ NamedBy(f, p, a) /\ ReadFrom(ms, a, b)
    <3>1. blocks[k] \in Nat \X Nat /\ packetText \in Seq(Lines)
      BY DEF PacketInv, TextInv
    <3> QED BY <2>1, <3>1 DEF PacketInv, StructureInv
  <2> HIDE DEF a, b, p, ms, n
  <2>4. Title(k) = f
    <3> DEFINE T == {i \in p + 1 .. a : packetText[i].kind = "version"}
    <3>1. Titles(k) = T
      BY DEF Titles, EndOf, p, a
    <3>2. CASE f = Untitled /\ \A i \in p + 1 .. a : packetText[i].kind # "version"
      <4>1. T = {}
        BY <3>2
      <4> QED BY <3>1, <3>2, <4>1 DEF Title
    <3>3. ASSUME NEW i \in p + 1 .. a,
                 packetText[i].kind = "version" /\ packetText[i].name = f,
                 \A j \in i + 1 .. a : packetText[j].kind # "version"
          PROVE  Title(k) = f
      <4>1. i \in T /\ \A j \in T : i >= j
        BY <2>3, <3>3
      <4>2. Max(T) \in T /\ \A j \in T : Max(T) >= j
        BY <4>1 DEF Max
      <4>3. Max(T) = i
        BY <2>3, <4>1, <4>2
      <4> QED BY <3>1, <3>3, <4>1, <4>3 DEF Title
    <3> QED BY <2>3, <3>2, <3>3 DEF NamedBy
  <2>5. /\ Len(Block(k)) = b - a - 1
        /\ \A i \in 1 .. b - a - 1 : Block(k)[i] = packetText[a + i]
    <3>1. \A i \in a + 1 .. b - 1 : packetText[i] \in Lines
      BY <2>3 DEF n
    <3>2. Block(k) = SubSeq(packetText, a + 1, b - 1)
      BY DEF Block, a, b
    <3> DEFINE c == a + 1
               e == b - 1
    <3>3. c \in Int /\ e \in Int /\ \A i \in c .. e : packetText[i] \in Lines
      BY <2>3, <3>1
    <3> HIDE DEF c, e
    <3>4. /\ Len(SubSeq(packetText, c, e)) = IF c <= e THEN e - c + 1 ELSE 0
          /\ \A i \in 1 .. e - c + 1 : SubSeq(packetText, c, e)[i] = packetText[c + i - 1]
      BY <3>3, SubSeqProperties
    <3>5. Block(k) = SubSeq(packetText, c, e) /\ c = a + 1 /\ e = b - 1
      BY <3>2 DEF c, e
    <3>6. Len(Block(k)) = b - a - 1
      BY <2>3, <3>4, <3>5
    <3>7. ASSUME NEW i \in 1 .. b - a - 1 PROVE Block(k)[i] = packetText[a + i]
      <4>1. i \in 1 .. e - c + 1 /\ c + i - 1 = a + i
        BY <2>3, <3>5
      <4> QED BY <3>4, <3>5, <4>1
    <3> QED BY <3>6, <3>7
  <2>6. ASSUME NEW i \in DOMAIN ms
        PROVE  /\ ms[i].name = Block(k)[i].name
               /\ Block(k)[i].size < 65536 => ms[i].size = Block(k)[i].size
    <3>1. i \in 1 .. b - a - 1 /\ ms[i] = Parameter(packetText[a + i])
      BY <2>3 DEF ReadFrom
    <3>2. packetText[a + i] \in Lines
      BY <2>3, <3>1 DEF n
    <3> QED BY <2>5, <3>1, <3>2, ParameterType
  <2>7. Len(ms) = Len(Block(k))
    BY <2>3, <2>5 DEF ReadFrom
  <2> QED BY <2>2, <2>4, <2>6, <2>7
<1> QED BY <1>1, PacketInvariant, PTL

-----------------------------------------------------------------------------
(* Induction over the naturals, as a fact about sets.                       *)
LEMMA SetInduction ==
  ASSUME NEW S, 0 \in S, \A n \in Nat : n \in S => n + 1 \in S
  PROVE  Nat \subseteq S
<1>1. SUFFICES ASSUME Nat \ S # {} PROVE FALSE
  OBVIOUS
<1>2. IsWellFoundedOn(OpToRel(<, Nat), Nat)
  BY NatLessThanWellFounded
<1>3. PICK n \in Nat \ S : \A m \in Nat \ S : <<m, n>> \notin OpToRel(<, Nat)
  BY <1>1, <1>2, WFMin
<1>4. \A m \in Nat \ S : ~ (m < n)
  BY <1>3 DEF OpToRel
<1>5. n # 0 /\ n - 1 \in Nat /\ n - 1 < n
  OBVIOUS
<1>6. n - 1 \in S
  BY <1>4, <1>5
<1>7. (n - 1) + 1 \in S /\ (n - 1) + 1 = n
  BY <1>5, <1>6
<1> QED BY <1>3, <1>7

(* The pieces of p up to the k-th joined, one after the other.              *)
Joined(g, p, k) ==
  /\ g = [i \in 1 .. k |-> g[i]] /\ g[1] = p[1]
  /\ \A i \in 2 .. k : g[i] = g[i - 1] \o p[i]

LEMMA JoinOne ==
  ASSUME NEW p, NEW k \in Nat \ {0}, NEW g, Joined(g, p, k)
  PROVE  \E h : Joined(h, p, k + 1)
<1> DEFINE next == g[k] \o p[k + 1]
           h == [i \in 1 .. k + 1 |-> IF i = k + 1 THEN next ELSE g[i]]
<1>1. DOMAIN g = 1 .. k /\ g[1] = p[1]
  BY DEF Joined
<1>2. ASSUME NEW i \in 2 .. k + 1 PROVE h[i] = h[i - 1] \o p[i]
  <2>1. CASE i = k + 1
    <3>1. i - 1 \in 1 .. k + 1 /\ i - 1 # k + 1 /\ i - 1 = k
      BY <2>1
    <3>2. h[i] = next /\ h[i - 1] = g[k]
      <4> HIDE DEF next
      <4> QED BY <2>1, <3>1
    <3> QED BY <2>1, <3>2
  <2>2. CASE i # k + 1
    <3>1. i \in 2 .. k /\ i - 1 \in 1 .. k + 1 /\ i - 1 # k + 1
      BY <2>2
    <3>2. h[i] = g[i] /\ h[i - 1] = g[i - 1]
      <4> HIDE DEF next
      <4> QED BY <2>2, <3>1
    <3>3. g[i] = g[i - 1] \o p[i]
      BY <3>1 DEF Joined
    <3> QED BY <3>2, <3>3
  <2> QED BY <2>1, <2>2
<1>3. h[1] = p[1]
  <2> HIDE DEF next
  <2> QED BY <1>1
<1>a. h = [i \in 1 .. k + 1 |-> h[i]]
  <2> DEFINE e(i) == IF i = k + 1 THEN next ELSE g[i]
  <2>1. h = [i \in 1 .. k + 1 |-> e(i)]
    OBVIOUS
  <2> HIDE DEF e, h
  <2> QED BY <2>1
<1> HIDE DEF h
<1>4. Joined(h, p, k + 1)
  BY <1>2, <1>3, <1>a DEF Joined
<1> QED BY <1>4

LEMMA JoinAll ==
  ASSUME NEW p, NEW n \in Nat \ {0} PROVE \E g : Joined(g, p, n)
<1> DEFINE S == {k \in Nat : \E g : Joined(g, p, k + 1)}
<1>1. 0 \in S
  <2>1. Joined([i \in 1 .. 1 |-> p[1]], p, 0 + 1)
    BY DEF Joined
  <2> QED BY <2>1
<1>2. ASSUME NEW k \in Nat, k \in S PROVE k + 1 \in S
  BY <1>2, JoinOne
<1> HIDE DEF S
<1>3. Nat \subseteq S
  BY <1>1, <1>2, SetInduction
<1>4. n - 1 \in S /\ (n - 1) + 1 = n
  BY <1>3
<1> QED BY <1>4 DEF S

(* A sequence is flattened piece by piece.                                  *)
LEMMA FlattenSteps ==
  ASSUME NEW p, NEW n \in Nat \ {0}, Len(p) = n
  PROVE  \E f : Joined(f, p, n) /\ FlattenSeq(p) = f[n]
<1> DEFINE flatten == CHOOSE f :
             f = [i \in 1 .. n |-> IF i = 1 THEN p[i] ELSE f[i - 1] \o p[i]]
<1>1. FlattenSeq(p) = flatten[n]
  BY DEF FlattenSeq
<1>2. ASSUME NEW g, Joined(g, p, n)
      PROVE  g = [i \in 1 .. n |-> IF i = 1 THEN p[i] ELSE g[i - 1] \o p[i]]
  <2> HIDE DEF flatten
  <2>1. g = [i \in 1 .. n |-> g[i]] /\ g[1] = p[1]
    BY <1>2 DEF Joined
  <2>2. ASSUME NEW i \in 1 .. n PROVE g[i] = IF i = 1 THEN p[i] ELSE g[i - 1] \o p[i]
    <3>1. CASE i = 1
      BY <2>1, <3>1
    <3>2. CASE i # 1
      <4>1. i \in 2 .. n
        BY <3>2
      <4>2. g[i] = g[i - 1] \o p[i]
        BY <1>2, <4>1 DEF Joined
      <4> QED BY <3>2, <4>2
    <3> QED BY <3>1, <3>2
  <2> DEFINE e(i) == IF i = 1 THEN p[i] ELSE g[i - 1] \o p[i]
  <2>3. \A i \in 1 .. n : g[i] = e(i)
    BY <2>2
  <2> HIDE DEF e
  <2>4. g = [i \in 1 .. n |-> e(i)]
    BY <2>1, <2>3
  <2> QED BY <2>4 DEF e
<1>3. flatten = [i \in 1 .. n |-> IF i = 1 THEN p[i] ELSE flatten[i - 1] \o p[i]]
  BY <1>2, JoinAll
<1> HIDE DEF flatten
<1>4. Joined(flatten, p, n)
  <2> DEFINE e(i) == IF i = 1 THEN p[i] ELSE flatten[i - 1] \o p[i]
  <2>0. flatten = [i \in 1 .. n |-> e(i)]
    BY <1>3
  <2>1. flatten = [i \in 1 .. n |-> flatten[i]]
    <3> HIDE DEF e
    <3> QED BY <2>0
  <2>2. \A i \in 1 .. n : flatten[i] = IF i = 1 THEN p[i] ELSE flatten[i - 1] \o p[i]
    BY <1>3
  <2>3. flatten[1] = p[1]
    BY <2>2
  <2>4. ASSUME NEW i \in 2 .. n PROVE flatten[i] = flatten[i - 1] \o p[i]
    <3>1. i \in 1 .. n /\ i # 1
      OBVIOUS
    <3> QED BY <2>2, <3>1
  <2> QED BY <2>1, <2>3, <2>4 DEF Joined
<1> QED BY <1>1, <1>4

(* What is written of each member: in the list, and in the body.            *)
Piece(ms, i) ==
  IF IsArray(ms[i]) THEN << >>
  ELSE <<ms[i].name>> \o (IF i < Len(ms) THEN <<Comma>> ELSE << >>)
Copy(ms, i) == IF IsArray(ms[i]) THEN <<ms[i]>> ELSE << >>

Alternates(s, parity) == \A k \in DOMAIN s : s[k] = Comma <=> k % 2 = parity

(* What the loops have written when they have passed the i-th member.       *)
Passed(ms, i, s, c) ==
  /\ s \in Seq({ln.name : ln \in Lines} \cup {Comma}) /\ c \in Seq(Parameters)
  /\ Alternates(s, 0)
  /\ Len(s) + 2 * Len(c) = IF i < Len(ms) THEN 2 * i ELSE 2 * i - 1
  /\ \A j \in 1 .. i :
       IF IsArray(ms[j]) THEN \E k \in DOMAIN c : c[k] = ms[j]
                         ELSE \E k \in DOMAIN s : s[k] = ms[j].name

(* What the (i + 1)-th adds.                                                *)
Adds(ms, i, t, d) ==
  /\ t \in Seq({ln.name : ln \in Lines} \cup {Comma}) /\ d \in Seq(Parameters)
  /\ Alternates(t, 0)
  /\ Len(t) + 2 * Len(d) = IF i + 1 < Len(ms) THEN 2 ELSE 1
  /\ IF IsArray(ms[i + 1]) THEN \E k \in DOMAIN d : d[k] = ms[i + 1]
                           ELSE \E k \in DOMAIN t : t[k] = ms[i + 1].name

LEMMA JoinedSeqs ==
  ASSUME NEW X, NEW s \in Seq(X), NEW t \in Seq(X)
  PROVE  /\ s \o t \in Seq(X) /\ Len(s \o t) = Len(s) + Len(t)
         /\ \A k \in 1 .. Len(s) : (s \o t)[k] = s[k]
         /\ \A k \in 1 .. Len(t) : (s \o t)[Len(s) + k] = t[k]
         /\ DOMAIN (s \o t) = 1 .. Len(s) + Len(t)
OBVIOUS

LEMMA OneMore ==
  ASSUME NEW ms \in Seq(Parameters), NEW i \in 0 .. Len(ms) - 1, NEW s, NEW c,
         Passed(ms, i, s, c), IsArray(ms[i + 1]) => i + 1 < Len(ms)
  PROVE  Passed(ms, i + 1, s \o Piece(ms, i + 1), c \o Copy(ms, i + 1))
<1> DEFINE X == {ln.name : ln \in Lines} \cup {Comma}
           p == Piece(ms, i + 1)
           q == Copy(ms, i + 1)
           m == ms[i + 1]
<1>1. /\ s \in Seq(X) /\ c \in Seq(Parameters) /\ Alternates(s, 0)
      /\ Len(s) \in Nat /\ Len(c) \in Nat /\ Len(s) + 2 * Len(c) = 2 * i
      /\ \A j \in 1 .. i :
           IF IsArray(ms[j]) THEN \E k \in DOMAIN c : c[k] = ms[j]
                             ELSE \E k \in DOMAIN s : s[k] = ms[j].name
  BY DEF Passed
<1>2. /\ m \in Parameters /\ m.name \in X /\ m.name # Comma /\ Comma \in X
      /\ i \in Nat /\ Len(ms) \in Nat /\ i < Len(ms)
  <2>1. i \in Nat /\ Len(ms) \in Nat /\ i < Len(ms) /\ i + 1 \in 1 .. Len(ms)
    OBVIOUS
  <2>2. m \in Parameters
    <3> HIDE DEF Parameters
    <3> QED BY <2>1
  <2>3. PICK ln \in Lines : m.name = ln.name
    BY <2>2 DEF Parameters
  <2> QED BY <2>1, <2>2, <2>3, CommaAssumption
<1>3. /\ p = IF IsArray(m) THEN << >>
             ELSE <<m.name>> \o (IF i + 1 < Len(ms) THEN <<Comma>> ELSE << >>)
      /\ q = IF IsArray(m) THEN <<m>> ELSE << >>
  BY DEF Piece, Copy
<1> HIDE DEF p, q, m, X
<1>4. ASSUME NEW t, NEW d, Adds(ms, i, t, d) PROVE Passed(ms, i + 1, s \o t, c \o d)
  <2>0. /\ t \in Seq(X) /\ d \in Seq(Parameters) /\ Alternates(t, 0)
        /\ Len(t) + 2 * Len(d) = IF i + 1 < Len(ms) THEN 2 ELSE 1
        /\ IF IsArray(m) THEN \E k \in DOMAIN d : d[k] = m
                         ELSE \E k \in DOMAIN t : t[k] = m.name
    BY <1>4 DEF Adds, X, m
  <2>1. /\ s \o t \in Seq(X) /\ Len(s \o t) = Len(s) + Len(t)
        /\ \A k \in 1 .. Len(s) : (s \o t)[k] = s[k]
        /\ \A k \in 1 .. Len(t) : (s \o t)[Len(s) + k] = t[k]
        /\ DOMAIN (s \o t) = 1 .. Len(s) + Len(t)
    BY <1>1, <2>0, JoinedSeqs
  <2>2. /\ c \o d \in Seq(Parameters) /\ Len(c \o d) = Len(c) + Len(d)
        /\ \A k \in 1 .. Len(c) : (c \o d)[k] = c[k]
        /\ \A k \in 1 .. Len(d) : (c \o d)[Len(c) + k] = d[k]
        /\ DOMAIN (c \o d) = 1 .. Len(c) + Len(d)
    BY <1>1, <2>0, JoinedSeqs
  <2>3. PICK st, cd : st = s \o t /\ cd = c \o d
    OBVIOUS
  <2>4. /\ DOMAIN s = 1 .. Len(s) /\ DOMAIN c = 1 .. Len(c)
        /\ DOMAIN t = 1 .. Len(t) /\ DOMAIN d = 1 .. Len(d)
        /\ Len(t) \in Nat /\ Len(d) \in Nat
    BY <1>1, <2>0
  <2>5. Alternates(st, 0)
    <3>1. ASSUME NEW k \in 1 .. Len(s) + Len(t) PROVE st[k] = Comma <=> k % 2 = 0
      <4>1. CASE k <= Len(s)
        <5>1. k \in 1 .. Len(s) /\ k \in DOMAIN s
          BY <1>1, <2>4, <4>1
        <5> QED BY <1>1, <2>1, <2>3, <5>1 DEF Alternates
      <4>2. CASE k > Len(s)
        <5>1. k - Len(s) \in 1 .. Len(t) /\ Len(s) + (k - Len(s)) = k
          BY <1>1, <2>4, <4>2
        <5>2. st[k] = t[k - Len(s)]
          BY <2>1, <2>3, <5>1
        <5>3. Len(s) = 2 * (i - Len(c))
          BY <1>1, <1>2
        <5>4. k % 2 = (k - Len(s)) % 2
          BY <1>1, <1>2, <5>1, <5>3
        <5> QED BY <2>0, <2>4, <5>1, <5>2, <5>4 DEF Alternates
      <4> QED BY <1>1, <4>1, <4>2
    <3> QED BY <2>1, <2>3, <3>1 DEF Alternates
  <2>6. ASSUME NEW j \in 1 .. i + 1
        PROVE  IF IsArray(ms[j]) THEN \E k \in DOMAIN cd : cd[k] = ms[j]
                                 ELSE \E k \in DOMAIN st : st[k] = ms[j].name
    <3>1. \A k \in DOMAIN s : k \in DOMAIN st /\ st[k] = s[k]
      BY <1>1, <2>1, <2>3, <2>4
    <3>2. \A k \in DOMAIN c : k \in DOMAIN cd /\ cd[k] = c[k]
      BY <1>1, <2>2, <2>3, <2>4
    <3>3. \A k \in DOMAIN t : Len(s) + k \in DOMAIN st /\ st[Len(s) + k] = t[k]
      BY <1>1, <2>1, <2>3, <2>4
    <3>4. \A k \in DOMAIN d : Len(c) + k \in DOMAIN cd /\ cd[Len(c) + k] = d[k]
      BY <1>1, <2>2, <2>3, <2>4
    <3>5. CASE j \in 1 .. i
      BY <1>1, <3>1, <3>2, <3>5
    <3>6. CASE j = i + 1
      BY <2>0, <3>3, <3>4, <3>6 DEF m
    <3> QED BY <1>2, <3>5, <3>6
  <2>7. Len(st) + 2 * Len(cd) = IF i + 1 < Len(ms) THEN 2 * (i + 1) ELSE 2 * (i + 1) - 1
    <3>1. Len(st) = Len(s) + Len(t) /\ Len(cd) = Len(c) + Len(d)
      BY <2>1, <2>2, <2>3
    <3>2. /\ Len(s) \in Nat /\ Len(c) \in Nat /\ Len(s) + 2 * Len(c) = 2 * i
          /\ Len(t) + 2 * Len(d) = IF i + 1 < Len(ms) THEN 2 ELSE 1
      BY <1>1, <2>0
    <3>3. CASE i + 1 < Len(ms)
      BY <1>2, <2>4, <3>1, <3>2, <3>3
    <3>4. CASE ~(i + 1 < Len(ms))
      BY <1>2, <2>4, <3>1, <3>2, <3>4
    <3> QED BY <3>3, <3>4
  <2> QED BY <2>1, <2>2, <2>3, <2>5, <2>6, <2>7 DEF Passed, X
<1>5. CASE IsArray(m)
  <2>1. PICK t, d : t = << >> /\ d = <<m>>
    OBVIOUS
  <2>2. /\ t \in Seq(X) /\ d \in Seq(Parameters) /\ Len(t) = 0 /\ Len(d) = 1
        /\ 1 \in DOMAIN d /\ d[1] = m
    BY <1>2, <2>1
  <2>3. p = t /\ q = d /\ i + 1 < Len(ms)
    BY <1>3, <1>5, <2>1 DEF m
  <2>4. Passed(ms, i + 1, s \o t, c \o d)
    <3>1. Alternates(t, 0)
      BY <2>2 DEF Alternates
    <3>2. Adds(ms, i, t, d)
      BY <1>5, <2>2, <2>3, <3>1 DEF Adds, X, m
    <3> QED BY <1>4, <3>2
  <2> QED BY <2>3, <2>4 DEF p, q
<1>6. CASE ~IsArray(m) /\ i + 1 < Len(ms)
  <2>1. PICK a, b, d : a = <<m.name>> /\ b = <<Comma>> /\ d = << >>
    OBVIOUS
  <2>2. /\ a \in Seq(X) /\ b \in Seq(X) /\ Len(a) = 1 /\ Len(b) = 1
        /\ a[1] = m.name /\ b[1] = Comma /\ d \in Seq(Parameters) /\ Len(d) = 0
    BY <1>2, <2>1
  <2>3. PICK t : t = a \o b
    OBVIOUS
  <2>4. /\ t \in Seq(X) /\ Len(t) = 2 /\ DOMAIN t = 1 .. 2
        /\ t[1] = m.name /\ t[2] = Comma
    <3>1. /\ t \in Seq(X) /\ Len(t) = Len(a) + Len(b) /\ DOMAIN t = 1 .. Len(a) + Len(b)
          /\ \A k \in 1 .. Len(a) : t[k] = a[k]
          /\ \A k \in 1 .. Len(b) : t[Len(a) + k] = b[k]
      <4>1. a \in Seq(X) /\ b \in Seq(X)
        BY <2>2
      <4> QED BY <4>1, <2>3, JoinedSeqs
    <3> QED BY <2>2, <3>1
  <2>5. p = t /\ q = d
    BY <1>3, <1>6, <2>1, <2>3
  <2>6. \A k \in 1 .. Len(t) : t[k] = Comma <=> k % 2 = 0
    BY <1>2, <2>4
  <2>7. Passed(ms, i + 1, s \o t, c \o d)
    <3>1. Alternates(t, 0)
      BY <2>4, <2>6 DEF Alternates
    <3>2. Adds(ms, i, t, d)
      BY <1>6, <2>2, <2>4, <3>1 DEF Adds, X, m
    <3> QED BY <1>4, <3>2
  <2> QED BY <2>5, <2>7 DEF p, q
<1>7. CASE ~IsArray(m) /\ ~(i + 1 < Len(ms))
  <2>1. PICK a, b, d : a = <<m.name>> /\ b = << >> /\ d = << >>
    OBVIOUS
  <2>2. /\ a \in Seq(X) /\ b \in Seq(X) /\ Len(a) = 1 /\ Len(b) = 0
        /\ a[1] = m.name /\ d \in Seq(Parameters) /\ Len(d) = 0
    BY <1>2, <2>1
  <2>3. PICK t : t = a \o b
    OBVIOUS
  <2>4. t \in Seq(X) /\ Len(t) = 1 /\ DOMAIN t = 1 .. 1 /\ t[1] = m.name
    <3>1. /\ t \in Seq(X) /\ Len(t) = Len(a) + Len(b) /\ DOMAIN t = 1 .. Len(a) + Len(b)
          /\ \A k \in 1 .. Len(a) : t[k] = a[k]
      <4>1. a \in Seq(X) /\ b \in Seq(X)
        BY <2>2
      <4> QED BY <4>1, <2>3, JoinedSeqs
    <3> QED BY <2>2, <3>1
  <2>5. p = t /\ q = d
    BY <1>3, <1>7, <2>1, <2>3
  <2>6. \A k \in 1 .. Len(t) : t[k] = Comma <=> k % 2 = 0
    BY <1>2, <2>4
  <2>7. Passed(ms, i + 1, s \o t, c \o d)
    <3>1. Alternates(t, 0)
      BY <2>4, <2>6 DEF Alternates
    <3>2. Adds(ms, i, t, d)
      BY <1>7, <2>2, <2>4, <3>1 DEF Adds, X, m
    <3> QED BY <1>4, <3>2
  <2> QED BY <2>5, <2>7 DEF p, q
<1> QED BY <1>5, <1>6, <1>7

LEMMA AllPassed ==
  ASSUME NEW ms \in Seq(Parameters), ms # << >>, ~IsArray(ms[Len(ms)])
  PROVE  \E s, c : /\ Initializers(ms) = <<Comma>> \o s /\ Copied(ms) = c
                   /\ Passed(ms, Len(ms), s, c)
<1> DEFINE n == Len(ms)
           p == [i \in 1 .. n |-> Piece(ms, i)]
           q == [i \in 1 .. n |-> Copy(ms, i)]
<1>1. n \in Nat \ {0} /\ DOMAIN ms = 1 .. n /\ Len(ms) = n
  OBVIOUS
<1>2. Len(p) = n /\ Len(q) = n
  BY <1>1
<1>3. PICK f : Joined(f, p, n) /\ FlattenSeq(p) = f[n]
  BY <1>1, <1>2, FlattenSteps
<1>4. PICK g : Joined(g, q, n) /\ FlattenSeq(q) = g[n]
  BY <1>1, <1>2, FlattenSteps
<1>5. Initializers(ms) = <<Comma>> \o f[n] /\ Copied(ms) = g[n]
  BY <1>1, <1>3, <1>4 DEF Initializers, Copied, Piece, Copy
<1>6. \A i \in 1 .. n : p[i] = Piece(ms, i) /\ q[i] = Copy(ms, i)
  OBVIOUS
<1> HIDE DEF p, q
<1>7. /\ f[1] = Piece(ms, 1) /\ g[1] = Copy(ms, 1)
      /\ \A i \in 2 .. n : f[i] = f[i - 1] \o Piece(ms, i) /\ g[i] = g[i - 1] \o Copy(ms, i)
  <2> HIDE DEF n
  <2>1. /\ f[1] = p[1] /\ \A i \in 2 .. n : f[i] = f[i - 1] \o p[i]
    BY <1>3 DEF Joined
  <2>2. /\ g[1] = q[1] /\ \A i \in 2 .. n : g[i] = g[i - 1] \o q[i]
    BY <1>4 DEF Joined
  <2>3. f[1] = Piece(ms, 1) /\ g[1] = Copy(ms, 1)
    <3>1. 1 \in 1 .. n
      BY <1>1
    <3> QED BY <1>6, <2>1, <2>2, <3>1
  <2>4. ASSUME NEW i \in 2 .. n
        PROVE  f[i] = f[i - 1] \o Piece(ms, i) /\ g[i] = g[i - 1] \o Copy(ms, i)
    <3>1. i \in 1 .. n
      BY <1>1
    <3> QED BY <1>6, <2>1, <2>2, <3>1
  <2> QED BY <2>3, <2>4
<1> HIDE DEF n
<1>8. ASSUME NEW i \in 1 .. n PROVE IsArray(ms[i]) => i < n
  BY <1>1, <1>8 DEF n
<1> DEFINE S == {i \in Nat : i \in 1 .. n => Passed(ms, i, f[i], g[i])}
<1>9. 0 \in S
  OBVIOUS
<1>10. ASSUME NEW i \in Nat, i \in S PROVE i + 1 \in S
  <2>1. SUFFICES ASSUME i + 1 \in 1 .. n PROVE Passed(ms, i + 1, f[i + 1], g[i + 1])
    OBVIOUS
  <2>2. i \in 0 .. Len(ms) - 1 /\ (IsArray(ms[i + 1]) => i + 1 < Len(ms))
    BY <1>1, <1>8, <2>1
  <2>3. CASE i = 0
    <3>1. Passed(ms, 0, << >>, << >>)
      BY <1>1 DEF Passed, Alternates
    <3>2. Passed(ms, 0 + 1, << >> \o Piece(ms, 0 + 1), << >> \o Copy(ms, 0 + 1))
      BY <2>2, <2>3, <3>1, OneMore
    <3>3. << >> \o Piece(ms, 1) = f[1] /\ << >> \o Copy(ms, 1) = g[1]
      BY <1>7 DEF Piece, Copy
    <3> QED BY <2>3, <3>2, <3>3
  <2>4. CASE i # 0
    <3>1. i \in 1 .. n /\ i + 1 \in 2 .. n /\ (i + 1) - 1 = i
      BY <1>1, <2>1, <2>4
    <3>2. Passed(ms, i, f[i], g[i])
      BY <1>10, <3>1
    <3>3. f[i + 1] = f[i] \o Piece(ms, i + 1) /\ g[i + 1] = g[i] \o Copy(ms, i + 1)
      BY <1>7, <3>1
    <3>4. Passed(ms, i + 1, f[i] \o Piece(ms, i + 1), g[i] \o Copy(ms, i + 1))
      BY <2>2, <3>2, OneMore
    <3> QED BY <3>3, <3>4
  <2> QED BY <2>3, <2>4
<1> HIDE DEF S
<1>11. n \in S
  BY <1>1, <1>9, <1>10, SetInduction
<1>12. Passed(ms, n, f[n], g[n])
  BY <1>1, <1>11 DEF S
<1> QED BY <1>5, <1>12 DEF n


(* What ConstructorsInitialise says of a header.                            *)
Complete(h) ==
  /\ \A i \in DOMAIN h.list : h.list[i] = Comma <=> i % 2 = 1
  /\ Len(h.list) % 2 = 0
  /\ Len(h.list) \div 2 + Len(h.copied) = Len(h.members)
  /\ \A i \in DOMAIN h.members :
       IF IsArray(h.members[i])
         THEN \E j \in DOMAIN h.copied : h.copied[j] = h.members[i]
         ELSE \E j \in DOMAIN h.list : h.list[j] = h.members[i].name

LEMMA EmptyHeader ==
  ASSUME NEW s, s.members = << >> PROVE Complete(Header(s))
<1>1. Header(s) = [members |-> << >>, list |-> << >>, copied |-> << >>]
  <2>1. FlattenSeq([i \in DOMAIN << >> |-> Piece(<< >>, i)]) = << >>
    BY DEF FlattenSeq
  <2>2. FlattenSeq([i \in DOMAIN << >> |-> Copy(<< >>, i)]) = << >>
    BY DEF FlattenSeq
  <2>3. Initializers(<< >>) = << >>
    BY <2>1 DEF Initializers, Piece
  <2>4. Copied(<< >>) = << >>
    BY <2>2 DEF Copied, Copy
  <2> QED BY <2>3, <2>4 DEF Header
<1> QED BY <1>1 DEF Complete

LEMMA Evenness ==
  ASSUME NEW a \in Nat, NEW b \in Nat, NEW n \in Nat, a + 2 * b = 2 * n - 1
  PROVE  (1 + a) % 2 = 0 /\ (1 + a) \div 2 + b = n
<1>1. PICK d \in Int : d = n - b
  OBVIOUS
<1>2. 1 + a = 2 * d
  BY <1>1
<1>3. (2 * d) % 2 = 0 /\ (2 * d) \div 2 = d
  OBVIOUS
<1> QED BY <1>1, <1>2, <1>3

LEMMA Parity == \A i \in Int : (i - 1) % 2 = 0 <=> i % 2 = 1
OBVIOUS

LEMMA FullHeader ==
  ASSUME NEW ms, NEW n \in Nat \ {0}, n = Len(ms), DOMAIN ms = 1 .. n,
         NEW t, NEW c, Passed(ms, n, t, c),
         NEW h, h.members = ms, h.list = <<Comma>> \o t, h.copied = c
  PROVE  Complete(h)
<1> DEFINE X == {ln.name : ln \in Lines} \cup {Comma}
<1>1. t \in Seq(X) /\ Len(t) \in Nat /\ DOMAIN t = 1 .. Len(t) /\ Len(c) \in Nat
  BY DEF Passed
<1>2. Len(t) + 2 * Len(c) = 2 * n - 1
  <2>1. Len(t) + 2 * Len(c) = IF n < Len(ms) THEN 2 * n ELSE 2 * n - 1
    BY DEF Passed
  <2>2. ~(n < Len(ms))
    OBVIOUS
  <2> QED BY <2>1, <2>2
<1>3. \A k \in DOMAIN t : t[k] = Comma <=> k % 2 = 0
  BY DEF Passed, Alternates
<1>4. \A j \in 1 .. n : IF IsArray(ms[j]) THEN \E k \in DOMAIN c : c[k] = ms[j]
                                          ELSE \E k \in DOMAIN t : t[k] = ms[j].name
  BY DEF Passed
<1>5. PICK l : l = h.list
  OBVIOUS
<1>6. /\ Len(l) = 1 + Len(t) /\ DOMAIN l = 1 .. 1 + Len(t)
      /\ l[1] = Comma /\ \A k \in 1 .. Len(t) : l[1 + k] = t[k]
  <2>1. PICK a : a = <<Comma>>
    OBVIOUS
  <2>2. Comma \in X
    OBVIOUS
  <2> HIDE DEF X
  <2>3. a \in Seq(X) /\ Len(a) = 1 /\ a[1] = Comma
    BY <2>1, <2>2
  <2>4. l = a \o t
    BY <1>5, <2>1
  <2>5. /\ Len(a \o t) = Len(a) + Len(t) /\ DOMAIN (a \o t) = 1 .. Len(a) + Len(t)
        /\ \A k \in 1 .. Len(a) : (a \o t)[k] = a[k]
        /\ \A k \in 1 .. Len(t) : (a \o t)[Len(a) + k] = t[k]
    <3>1. a \in Seq(X) /\ t \in Seq(X)
      BY <1>1, <2>3
    <3> QED BY <3>1, JoinedSeqs
  <2> QED BY <2>3, <2>4, <2>5
<1> HIDE DEF X
<1>7. Len(l) % 2 = 0 /\ Len(l) \div 2 + Len(c) = n
  BY <1>1, <1>2, <1>6, Evenness
<1>8. ASSUME NEW i \in DOMAIN l PROVE l[i] = Comma <=> i % 2 = 1
  <2>1. CASE i = 1
    BY <1>6, <2>1
  <2>2. CASE i # 1
    <3>1. i - 1 \in 1 .. Len(t) /\ 1 + (i - 1) = i /\ i \in Int
      BY <1>1, <1>6, <2>2
    <3>2. l[i] = t[i - 1] /\ (t[i - 1] = Comma <=> (i - 1) % 2 = 0)
      BY <1>1, <1>3, <1>6, <3>1
    <3> QED BY <3>1, <3>2, Parity
  <2> QED BY <2>1, <2>2
<1>9. ASSUME NEW i \in DOMAIN ms
      PROVE  IF IsArray(ms[i]) THEN \E j \in DOMAIN c : c[j] = ms[i]
                               ELSE \E j \in DOMAIN l : l[j] = ms[i].name
  <2>1. CASE IsArray(ms[i])
    BY <1>4, <2>1
  <2>2. CASE ~IsArray(ms[i])
    <3>1. PICK k \in DOMAIN t : t[k] = ms[i].name
      BY <1>4, <2>2
    <3>2. 1 + k \in DOMAIN l /\ l[1 + k] = t[k]
      BY <1>1, <1>6
    <3> QED BY <2>2, <3>1, <3>2
  <2> QED BY <2>1, <2>2
<1> QED BY <1>5, <1>7, <1>8, <1>9 DEF Complete

LEMMA WholeHeader ==
  ASSUME NEW s, s.members \in Seq(Parameters), s.members # << >>, ~IsArray(Last(s.members))
  PROVE  Complete(Header(s))
<1>1. PICK ms, n : ms = s.members /\ n = Len(ms)
  OBVIOUS
<1>2. ms \in Seq(Parameters) /\ n \in Nat \ {0} /\ DOMAIN ms = 1 .. n
  <2> HIDE DEF Parameters
  <2> QED BY <1>1
<1>3. ms # << >> /\ ~IsArray(ms[Len(ms)])
  BY <1>1 DEF Last
<1>4. PICK t, c : Initializers(ms) = <<Comma>> \o t /\ Copied(ms) = c /\ Passed(ms, Len(ms), t, c)
  BY <1>2, <1>3, AllPassed
<1>5. PICK h : h = Header(s)
  OBVIOUS
<1>6. h.members = ms /\ h.list = <<Comma>> \o t /\ h.copied = c
  BY <1>1, <1>4, <1>5 DEF Header
<1> QED BY <1>1, <1>2, <1>4, <1>5, <1>6, FullHeader

(* In every header ever written, the constructor's list alternates commas   *)
(* and members, and every member is initialised once, in the list or in the *)
(* body, unless the last one is an array (main.cpp:117-143).                *)
THEOREM ConstructorsAreComplete == GeneratorSpec => []ConstructorsInitialise
<1>1. ASSUME PacketInv, NEW f \in DOMAIN files,
             files[f][2].members = << >> \/ ~IsArray(Last(files[f][2].members))
      PROVE  Complete(files[f][2])
  <2>1. PICK k \in 1 .. Len(blocks) : files[f] = <<k, Header(packetInformation[k])>>
    BY <1>1 DEF PacketInv, FileInv
  <2>2. PICK s, h : s = packetInformation[k] /\ h = files[f][2]
    OBVIOUS
  <2>3. h = Header(s) /\ h.members = s.members
    BY <2>1, <2>2 DEF Header
  <2>4. s.members \in Seq(Parameters)
    <3>1. k \in 1 .. Len(packetInformation) /\ packetInformation \in Seq(Structures)
      BY <1>1, <2>1 DEF PacketInv, TextInv
    <3>2. s \in Structures
      <4> HIDE DEF Structures
      <4> QED BY <2>2, <3>1
    <3> QED BY <3>2 DEF Structures
  <2>5. s.members = << >> \/ ~IsArray(Last(s.members))
    BY <1>1, <2>2, <2>3
  <2> QED BY <2>2, <2>3, <2>4, <2>5, EmptyHeader, WholeHeader
<1>2. PacketInv => ConstructorsInitialise
  BY <1>1 DEF ConstructorsInitialise, Complete
<1> QED BY <1>2, PacketInvariant, PTL


-----------------------------------------------------------------------------
(* The timers.                                                              *)

(* The places of a call that are under the list's critical section.         *)
InsideCall == {"generate", "create", "emplace", "clear", "delete"}

(* Those before and after it: a caller there may wait for the lock.         *)
OutsideCall == {"idle", "bind", "find"}

TimerRange ==
  /\ timerList \in [Handles -> Timers \cup {NoTimer}]
  /\ wait \in [Timers -> {"none", "pending", "due", "aborted", "fired", "never"}]
  /\ freed \subseteq Timers
  /\ caller \in [Threads -> [pc : InsideCall \cup OutsideCall, handle : Handles]]
  /\ thread \in [pc : {"run", "callback", "rebind", "crashed", "done"},
                 timer : Timers \cup {NoTimer}]
  /\ history \in [overtaken : SUBSET Timers, keepers : SUBSET Threads, failures : Nat]

(* An idle caller may own the lock too: it was not left after a collision.  *)
ListLockInv == \A u \in Threads : caller[u].pc \in InsideCall => listLock.owner = u

(* A timer of the list has waited once, was not freed, and is under one     *)
(* handle; what ClearTimer found is still there when it deletes it.         *)
ListedInv ==
  /\ \A h \in Handles : timerList[h] # NoTimer =>
       /\ wait[timerList[h]] # "none" /\ timerList[h] \notin freed
       /\ \A g \in Handles : timerList[g] = timerList[h] => g = h
  /\ \A u \in Threads : caller[u].pc = "delete" => timerList[caller[u].handle] # NoTimer

(* A timer that was freed does not wait any more, and its handler calls it  *)
(* back only when it was queued before.                                     *)
FreedInv ==
  \A t \in freed :
    /\ wait[t] \notin {"none", "pending"}
    /\ wait[t] = "due" => t \in history.overtaken

(* The timer the thread works with.                                         *)
WorkInv ==
  thread.pc \in {"callback", "rebind", "crashed"} =>
    /\ thread.timer \in Timers /\ wait[thread.timer] # "none"
    /\ thread.timer \in freed => thread.timer \in history.overtaken
    /\ thread.pc = "crashed" => thread.timer \in freed

TimerInv == TimerRange /\ ListLockInv /\ ListedInv /\ FreedInv /\ WorkInv

LEMMA TimerInitInv == TimerInit => TimerInv
<1> SUFFICES ASSUME TimerInit PROVE TimerInv
  OBVIOUS
<1> USE DEF TimerInit
<1>1. TimerRange
  <2>1. 0 \in Handles
    BY TimerAssumption
  <2> QED BY <2>1 DEF TimerRange, OutsideCall
<1>2. ListLockInv /\ ListedInv
  BY DEF ListLockInv, ListedInv, InsideCall
<1>3. FreedInv /\ WorkInv
  BY DEF FreedInv, WorkInv
<1> QED BY <1>1, <1>2, <1>3 DEF TimerInv

(* A caller under the list's lock is alone there.                           *)
LEMMA AloneInside ==
  ASSUME ListLockInv, NEW u \in Threads, NEW v \in Threads,
         caller[u].pc \in InsideCall, caller[v].pc \in InsideCall
  PROVE  u = v
BY DEF ListLockInv

(* A step of one caller that is under the lock before, or enters it, or     *)
(* leaves it alone.                                                         *)
LEMMA CallerLock ==
  ASSUME TimerInv, NEW u \in Threads,
         \A v \in Threads \ {u} : caller'[v] = caller[v],
         \/ caller[u].pc \in InsideCall
         \/ CanEnter(listLock, u)
         \/ listLock' = listLock /\ caller'[u].pc \notin InsideCall,
         caller'[u].pc \in InsideCall => listLock'.owner = u
  PROVE  ListLockInv'
<1>0. CASE listLock' = listLock /\ caller'[u].pc \notin InsideCall
  <2>1. ASSUME NEW v \in Threads, caller'[v].pc \in InsideCall
        PROVE  listLock'.owner = v
    <3>1. v # u /\ caller'[v] = caller[v]
      BY <1>0, <2>1
    <3> QED BY <1>0, <2>1, <3>1 DEF TimerInv, ListLockInv
  <2> QED BY <2>1 DEF ListLockInv
<1>1. ASSUME NEW v \in Threads, v # u,
             caller[u].pc \in InsideCall \/ CanEnter(listLock, u)
      PROVE  caller[v].pc \notin InsideCall
  <2>1. CASE caller[u].pc \in InsideCall
    BY <1>1, <2>1, AloneInside DEF TimerInv
  <2>2. CASE CanEnter(listLock, u)
    BY <1>1, <2>2, NoThreadAssumption DEF CanEnter, TimerInv, ListLockInv
  <2> QED BY <1>1, <2>1, <2>2
<1>2. ASSUME NEW v \in Threads, caller'[v].pc \in InsideCall,
             caller[u].pc \in InsideCall \/ CanEnter(listLock, u)
      PROVE  listLock'.owner = v
  BY <1>1, <1>2
<1> QED BY <1>0, <1>2 DEF ListLockInv

(* Calling, entering, Generate and NotFound touch neither the list nor a    *)
(* timer, and none of them goes to the deletion.                            *)
LEMMA QuietCall ==
  ASSUME TimerInv, NEW u \in Threads, ListLockInv',
         caller' \in [Threads -> [pc : InsideCall \cup OutsideCall, handle : Handles]],
         caller'[u].pc # "delete", \A v \in Threads \ {u} : caller'[v] = caller[v],
         UNCHANGED <<timerList, wait, freed, thread>>,
         history' \in [overtaken : SUBSET Timers, keepers : SUBSET Threads, failures : Nat],
         history'.overtaken = history.overtaken
  PROVE  TimerInv'
<1>1. TimerRange'
  BY DEF TimerInv, TimerRange
<1>2. ListedInv'
  <2>1. ASSUME NEW v \in Threads, caller'[v].pc = "delete"
        PROVE  timerList[caller'[v].handle] # NoTimer
    <3>1. v # u /\ caller'[v] = caller[v]
      BY <2>1
    <3> QED BY <2>1, <3>1 DEF TimerInv, ListedInv
  <2> QED BY <2>1 DEF TimerInv, ListedInv
<1>3. FreedInv' /\ WorkInv'
  BY DEF TimerInv, FreedInv, WorkInv
<1> QED BY <1>1, <1>2, <1>3 DEF TimerInv

LEMMA GoneTo ==
  ASSUME TimerRange, NEW u \in Threads, NEW l \in InsideCall \cup OutsideCall, Goto(u, l)
  PROVE  /\ caller' \in [Threads -> [pc : InsideCall \cup OutsideCall, handle : Handles]]
         /\ caller'[u].pc = l /\ \A v \in Threads \ {u} : caller'[v] = caller[v]
BY DEF TimerRange, Goto

LEMMA QuietCalls ==
  ASSUME TimerInv, NEW u \in Threads,
         \/ CallBind(u) \/ EnterBind(u) \/ EnterClear(u)
         \/ EnterGenerate(u) \/ Generate(u) \/ NotFound(u)
         \/ \E h \in Handles : CallClear(u, h)
  PROVE  TimerInv'
<1> DEFINE Histories == [overtaken : SUBSET Timers, keepers : SUBSET Threads, failures : Nat]
           Callers == [Threads -> [pc : InsideCall \cup OutsideCall, handle : Handles]]
<1>0. /\ caller \in Callers
      /\ history \in Histories /\ caller[u].handle \in Handles /\ 0 \in Handles
  BY TimerAssumption DEF TimerInv, TimerRange
<1>1. CASE CallBind(u)
  <2>0. Goto(u, "bind") /\ UNCHANGED <<timerList, wait, freed, thread, history, listLock>>
    BY <1>1 DEF CallBind, io, locks
  <2>1. /\ caller' \in Callers
        /\ caller'[u].pc = "bind" /\ \A v \in Threads \ {u} : caller'[v] = caller[v]
    BY <2>0, GoneTo DEF TimerInv, OutsideCall
  <2>2. listLock' = listLock /\ caller'[u].pc \notin InsideCall
    BY <2>0, <2>1 DEF InsideCall
  <2>3. ListLockInv'
    BY <2>1, <2>2, CallerLock
  <2> QED BY <1>0, <2>0, <2>1, <2>3, QuietCall
<1>6. ASSUME NEW l \in {"generate", "clear"}, Goto(u, l), EnterBind(u) \/ EnterClear(u)
      PROVE  TimerInv'
  <2>0. UNCHANGED <<timerList, wait, freed, thread, history>>
    BY <1>6 DEF EnterBind, EnterClear, io
  <2>1. /\ caller' \in Callers
        /\ caller'[u].pc = l /\ \A v \in Threads \ {u} : caller'[v] = caller[v]
    BY <1>6, GoneTo DEF TimerInv, InsideCall
  <2>2. CanEnter(listLock, u) /\ listLock'.owner = u
    BY <1>6 DEF EnterBind, EnterClear, Entered
  <2>3. ListLockInv'
    BY <2>1, <2>2, CallerLock
  <2> QED BY <1>0, <1>6, <2>0, <2>1, <2>3, QuietCall
<1>7. CASE EnterBind(u) \/ EnterClear(u)
  BY <1>6, <1>7 DEF EnterBind, EnterClear
<1>2. CASE EnterGenerate(u)
  <2>0. Goto(u, "create") /\ UNCHANGED <<timerList, wait, freed, thread, history>>
    BY <1>2 DEF EnterGenerate, io
  <2>1. /\ caller' \in Callers
        /\ caller'[u].pc = "create" /\ \A v \in Threads \ {u} : caller'[v] = caller[v]
    BY <2>0, GoneTo DEF TimerInv, InsideCall
  <2>2. caller[u].pc \in InsideCall /\ listLock'.owner = u
    BY <1>2 DEF EnterGenerate, CallerAt, InsideCall, TimerInv, ListLockInv
  <2>3. ListLockInv'
    BY <1>0, <2>1, <2>2, CallerLock
  <2> QED BY <1>0, <2>0, <2>1, <2>3, QuietCall
<1>3. CASE Generate(u)
  <2>0. PICK h \in Handles : caller' = [caller EXCEPT ![u] = [pc |-> "emplace", handle |-> h]]
    BY <1>0, <1>3 DEF Generate
  <2>1. /\ caller' \in Callers
        /\ caller'[u].pc = "emplace" /\ \A v \in Threads \ {u} : caller'[v] = caller[v]
    BY <1>0, <2>0 DEF InsideCall
  <2>2. UNCHANGED <<timerList, wait, freed, thread>>
    BY <1>3 DEF Generate, io
  <2>3. history' \in Histories /\ history'.overtaken = history.overtaken
    <3>1. history' = history \/ history' = [history EXCEPT !.failures = @ + 1]
      BY <1>3 DEF Generate
    <3> QED BY <1>0, <3>1
  <2>4. caller[u].pc \in InsideCall /\ listLock'.owner = u
    BY <1>3 DEF Generate, CallerAt, InsideCall, TimerInv, ListLockInv
  <2>5. ListLockInv'
    BY <1>0, <2>1, <2>4, CallerLock
  <2> QED BY <1>0, <2>1, <2>2, <2>3, <2>5, QuietCall
<1>4. CASE NotFound(u)
  <2>0. Goto(u, "idle") /\ UNCHANGED <<timerList, wait, freed, thread, history>>
    BY <1>4 DEF NotFound, io
  <2>1. /\ caller' \in Callers
        /\ caller'[u].pc = "idle" /\ \A v \in Threads \ {u} : caller'[v] = caller[v]
    BY <2>0, GoneTo DEF TimerInv, OutsideCall
  <2>2. caller[u].pc \in InsideCall /\ caller'[u].pc \notin InsideCall
    BY <1>0, <1>4, <2>1 DEF NotFound, CallerAt, InsideCall
  <2>3. ListLockInv'
    BY <1>0, <2>1, <2>2, CallerLock
  <2> QED BY <1>0, <2>0, <2>1, <2>3, QuietCall
<1>5. ASSUME NEW h \in Handles, CallClear(u, h) PROVE TimerInv'
  <2>0. /\ caller' = [caller EXCEPT ![u] = [pc |-> "find", handle |-> h]]
        /\ UNCHANGED <<timerList, wait, freed, thread, history, listLock>>
    BY <1>5 DEF CallClear, io, locks
  <2>1. /\ caller' \in Callers
        /\ caller'[u].pc = "find" /\ \A v \in Threads \ {u} : caller'[v] = caller[v]
    BY <1>0, <2>0 DEF OutsideCall
  <2>2. listLock' = listLock /\ caller'[u].pc \notin InsideCall
    BY <2>0, <2>1 DEF InsideCall
  <2>3. ListLockInv'
    BY <2>1, <2>2, CallerLock
  <2> QED BY <1>0, <2>0, <2>1, <2>3, QuietCall
<1> QED BY <1>1, <1>2, <1>3, <1>4, <1>5, <1>7

(* The new timer was not used before, so that it is under no handle, and    *)
(* was not freed.                                                           *)
LEMMA EmplaceInv ==
  ASSUME TimerInv, NEW u \in Threads, Emplace(u)
  PROVE  TimerInv'
<1> DEFINE h == caller[u].handle
<1>0. /\ TimerRange /\ h \in Handles /\ NoTimer \notin Timers
      /\ caller[u].pc \in InsideCall
  BY TimerAssumption DEF TimerInv, TimerRange, Emplace, CallerAt, InsideCall
<1>1. PICK t \in Timers :
        /\ wait[t] = "none"
        /\ \/ /\ timerList[h] = NoTimer
              /\ timerList' = [timerList EXCEPT ![h] = t]
              /\ wait' = [wait EXCEPT ![t] = "pending"]
              /\ UNCHANGED history
           \/ /\ wait' = [wait EXCEPT ![t] = "never"]
              /\ history' = [history EXCEPT !.keepers = @ \cup {u}]
              /\ UNCHANGED timerList
  BY DEF Emplace, Fresh, Unused
<1>2. /\ caller' = [caller EXCEPT ![u].pc = "idle"]
      /\ UNCHANGED <<freed, thread>>
  BY DEF Emplace, Goto
<1>3. /\ t \notin freed
      /\ \A g \in Handles : timerList[g] # t
      /\ thread.pc \in {"callback", "rebind", "crashed"} => thread.timer # t
  BY <1>0, <1>1 DEF TimerInv, FreedInv, ListedInv, WorkInv
<1>4. /\ history' \in [overtaken : SUBSET Timers, keepers : SUBSET Threads, failures : Nat]
      /\ history'.overtaken = history.overtaken
  BY <1>0, <1>1 DEF TimerRange
<1>5. /\ wait' \in [Timers -> {"none", "pending", "due", "aborted", "fired", "never"}]
      /\ \A s \in Timers : s # t => wait'[s] = wait[s]
      /\ wait'[t] # "none"
  BY <1>0, <1>1 DEF TimerRange
<1>6. timerList' \in [Handles -> Timers \cup {NoTimer}]
  BY <1>0, <1>1 DEF TimerRange
<1>7. caller' \in [Threads -> [pc : InsideCall \cup OutsideCall, handle : Handles]]
  BY <1>0, <1>2 DEF TimerRange, OutsideCall
<1>8. TimerRange'
  BY <1>0, <1>2, <1>4, <1>5, <1>6, <1>7 DEF TimerRange
<1>9. ListLockInv'
  <2>1. /\ \A v \in Threads \ {u} : caller'[v] = caller[v]
        /\ caller'[u].pc \notin InsideCall
    BY <1>0, <1>2 DEF TimerRange, InsideCall
  <2> QED BY <1>0, <2>1, CallerLock
<1>10. ListedInv'
  <2>1. ASSUME NEW g \in Handles, timerList'[g] # NoTimer
        PROVE  /\ wait'[timerList'[g]] # "none" /\ timerList'[g] \notin freed
               /\ \A k \in Handles : timerList'[k] = timerList'[g] => k = g
    <3>1. CASE timerList' = timerList
      BY <1>0, <1>3, <1>5, <2>1, <3>1 DEF TimerInv, ListedInv, TimerRange
    <3>2. CASE timerList' = [timerList EXCEPT ![h] = t] /\ g = h
      BY <1>0, <1>3, <1>5, <2>1, <3>2 DEF TimerRange
    <3>3. CASE timerList' = [timerList EXCEPT ![h] = t] /\ g # h
      <4>1. timerList'[g] = timerList[g] /\ timerList[g] \in Timers
        BY <1>0, <2>1, <3>3 DEF TimerRange
      <4>2. \A k \in Handles : timerList'[k] = (IF k = h THEN t ELSE timerList[k])
        BY <1>0, <3>3 DEF TimerRange
      <4> QED BY <1>3, <1>5, <2>1, <4>1, <4>2 DEF TimerInv, ListedInv
    <3> QED BY <1>1, <3>1, <3>2, <3>3
  <2>2. ASSUME NEW v \in Threads, caller'[v].pc = "delete"
        PROVE  timerList'[caller'[v].handle] # NoTimer
    <3>1. caller'[u].pc = "idle"
      BY <1>0, <1>2 DEF TimerRange
    <3>2. v # u /\ caller'[v] = caller[v]
      BY <1>0, <1>2, <2>2, <3>1 DEF TimerRange
    <3> QED BY <1>0, <2>2, <3>2, AloneInside DEF TimerInv, InsideCall
  <2> QED BY <1>2, <2>1, <2>2 DEF ListedInv
<1>11. FreedInv'
  BY <1>0, <1>2, <1>3, <1>4, <1>5 DEF TimerInv, FreedInv, TimerRange
<1>12. WorkInv'
  BY <1>2, <1>3, <1>4, <1>5 DEF TimerInv, WorkInv
<1> QED BY <1>8, <1>9, <1>10, <1>11, <1>12 DEF TimerInv

(* Cancelling aborts a wait that is pending and touches no other.           *)
LEMMA AbortedWaits ==
  ASSUME TimerRange, NEW t \in Timers
  PROVE  /\ Aborted(t) \in [Timers -> {"none", "pending", "due", "aborted", "fired", "never"}]
         /\ \A s \in Timers : s # t => Aborted(t)[s] = wait[s]
         /\ Aborted(t)[t] # "pending"
         /\ Aborted(t)[t] = "none" => wait[t] = "none"
         /\ Aborted(t)[t] = "due" => wait[t] = "due"
BY DEF TimerRange, Aborted

LEMMA CancelInv ==
  ASSUME TimerInv, NEW u \in Threads, Cancel(u)
  PROVE  TimerInv'
<1> DEFINE t == timerList[caller[u].handle]
<1>0. /\ TimerRange /\ t \in Timers /\ t # NoTimer /\ caller[u].handle \in Handles
      /\ caller[u].pc \in InsideCall
  BY TimerAssumption DEF TimerInv, TimerRange, Cancel, CallerAt, InsideCall
<1>1. /\ caller' = [caller EXCEPT ![u].pc = "delete"] /\ wait' = Aborted(t)
      /\ UNCHANGED <<timerList, listLock, freed, thread, history>>
  BY DEF Cancel, Goto, locks
<1>2. /\ wait' \in [Timers -> {"none", "pending", "due", "aborted", "fired", "never"}]
      /\ \A s \in Timers :
           /\ wait'[s] = "none" => wait[s] = "none"
           /\ wait'[s] = "pending" => wait[s] = "pending"
           /\ wait'[s] = "due" => wait[s] = "due"
  BY <1>0, <1>1, AbortedWaits
<1>3. /\ caller'[u] = [pc |-> "delete", handle |-> caller[u].handle]
      /\ \A v \in Threads \ {u} : caller'[v] = caller[v]
      /\ caller' \in [Threads -> [pc : InsideCall \cup OutsideCall, handle : Handles]]
  BY <1>0, <1>1 DEF TimerRange, InsideCall
<1>4. TimerRange'
  BY <1>0, <1>1, <1>2, <1>3 DEF TimerRange
<1>5. ListLockInv'
  BY <1>0, <1>1, <1>3, CallerLock DEF TimerInv, ListLockInv
<1>6. ListedInv'
  <2>1. \A h \in Handles : timerList[h] # NoTimer => wait'[timerList[h]] # "none"
    BY <1>0, <1>2 DEF TimerInv, TimerRange, ListedInv
  <2>2. ASSUME NEW v \in Threads, caller'[v].pc = "delete"
        PROVE  timerList[caller'[v].handle] # NoTimer
    BY <1>0, <1>3, <2>2 DEF TimerInv, ListedInv
  <2> QED BY <1>1, <2>1, <2>2 DEF TimerInv, ListedInv
<1>7. FreedInv'
  BY <1>0, <1>1, <1>2 DEF TimerInv, TimerRange, FreedInv
<1>8. WorkInv'
  BY <1>1, <1>2 DEF TimerInv, WorkInv
<1> QED BY <1>4, <1>5, <1>6, <1>7, <1>8 DEF TimerInv

(* A timer that is deleted is overtaken when its handler is queued or       *)
(* running; when its wait is pending, the destructor aborts it.             *)
LEMMA DeleteInv ==
  ASSUME TimerInv, NEW u \in Threads, Delete(u)
  PROVE  TimerInv'
<1> DEFINE h == caller[u].handle
           t == timerList[h]
<1>0. /\ TimerRange /\ h \in Handles /\ t \in Timers /\ t # NoTimer
      /\ caller[u].pc = "delete" /\ caller[u].pc \in InsideCall
  BY TimerAssumption
  DEF TimerInv, TimerRange, ListedInv, Delete, CallerAt, InsideCall
<1>1. /\ caller' = [caller EXCEPT ![u].pc = "idle"] /\ wait' = Aborted(t)
      /\ freed' = freed \cup {t} /\ timerList' = [timerList EXCEPT ![h] = NoTimer]
      /\ UNCHANGED thread
  BY DEF Delete, Goto
<1>2. /\ wait' \in [Timers -> {"none", "pending", "due", "aborted", "fired", "never"}]
      /\ \A s \in Timers :
           /\ wait'[s] = "none" => wait[s] = "none"
           /\ wait'[s] = "pending" => wait[s] = "pending"
           /\ wait'[s] = "due" => wait[s] = "due"
      /\ wait'[t] # "pending"
  BY <1>0, <1>1, AbortedWaits
<1>3. /\ caller'[u].pc = "idle" /\ \A v \in Threads \ {u} : caller'[v] = caller[v]
      /\ caller' \in [Threads -> [pc : InsideCall \cup OutsideCall, handle : Handles]]
  BY <1>0, <1>1 DEF TimerRange, OutsideCall
<1>4. /\ history' \in [overtaken : SUBSET Timers, keepers : SUBSET Threads, failures : Nat]
      /\ history.overtaken \subseteq history'.overtaken
      /\ wait[t] = "due" \/ thread.timer = t => t \in history'.overtaken
  <2>1. history' = IF wait[t] = "due" \/ thread.timer = t
                     THEN [history EXCEPT !.overtaken = @ \cup {t}] ELSE history
    BY DEF Delete
  <2> QED BY <1>0, <2>1 DEF TimerRange
<1>5. timerList' \in [Handles -> Timers \cup {NoTimer}]
  BY <1>0, <1>1 DEF TimerRange
<1>6. TimerRange'
  BY <1>0, <1>1, <1>2, <1>3, <1>4, <1>5 DEF TimerRange
<1>7. ListLockInv'
  BY <1>0, <1>3, CallerLock DEF InsideCall
<1>8. ListedInv'
  <2>1. \A g \in Handles : timerList'[g] = (IF g = h THEN NoTimer ELSE timerList[g])
    BY <1>0, <1>1 DEF TimerRange
  <2>2. ASSUME NEW g \in Handles, timerList'[g] # NoTimer
        PROVE  /\ wait'[timerList'[g]] # "none" /\ timerList'[g] \notin freed'
               /\ \A k \in Handles : timerList'[k] = timerList'[g] => k = g
    <3>1. g # h /\ timerList'[g] = timerList[g] /\ timerList[g] \in Timers
      BY <1>0, <2>1, <2>2 DEF TimerRange
    <3>2. wait[timerList[g]] # "none" /\ timerList[g] \notin freed /\ timerList[g] # t
      BY <1>0, <2>2, <3>1 DEF TimerInv, ListedInv
    <3>3. \A k \in Handles : timerList[k] = timerList[g] => k = g
      BY <2>2, <3>1 DEF TimerInv, ListedInv
    <3> QED BY <1>1, <1>2, <2>1, <2>2, <3>1, <3>2, <3>3
  <2>3. ASSUME NEW v \in Threads, caller'[v].pc = "delete" PROVE FALSE
    <3>1. v # u /\ caller[v].pc = "delete"
      BY <1>3, <2>3
    <3> QED BY <1>0, <3>1, AloneInside DEF TimerInv, InsideCall
  <2> QED BY <2>2, <2>3 DEF ListedInv
<1>9. FreedInv'
  <2>1. ASSUME NEW s \in freed'
        PROVE  /\ wait'[s] # "none" /\ wait'[s] # "pending"
               /\ wait'[s] = "due" => s \in history'.overtaken
    <3>1. s \in Timers
      BY <1>0, <1>1 DEF TimerRange
    <3>2. CASE s = t
      BY <1>0, <1>2, <1>4, <3>2 DEF TimerInv, ListedInv
    <3>3. CASE s \in freed
      BY <1>2, <1>4, <3>1, <3>3 DEF TimerInv, FreedInv
    <3> QED BY <1>1, <3>2, <3>3
  <2> QED BY <2>1 DEF FreedInv
<1>10. WorkInv'
  BY <1>0, <1>1, <1>2, <1>4 DEF TimerInv, WorkInv
<1> QED BY <1>6, <1>7, <1>8, <1>9, <1>10 DEF TimerInv

(* The steps of the timer thread, and the expiry of a wait.                 *)
LEMMA ThreadSteps ==
  ASSUME TimerInv, Running,
         \/ \E t \in Timers : Expire(t) \/ RunHandler(t)
         \/ CallbackEnds \/ Rebind \/ RunEnds
  PROVE  TimerInv'
<1>0. TimerRange /\ NoTimer \notin Timers
  BY TimerAssumption DEF TimerInv
<1>1. UNCHANGED <<timerList, listLock, freed, caller, history>>
  BY DEF Expire, RunHandler, CallbackEnds, Rebind, RunEnds, locks
<1>2. ListLockInv'
  BY <1>1 DEF TimerInv, ListLockInv
<1> SUFFICES /\ wait' \in [Timers -> {"none", "pending", "due", "aborted", "fired", "never"}]
             /\ thread' \in [pc : {"run", "callback", "rebind", "crashed", "done"},
                             timer : Timers \cup {NoTimer}]
             /\ \A t \in Timers : wait'[t] = "none" => wait[t] = "none"
             /\ \A t \in freed : wait'[t] \in {wait[t], "fired"}
             /\ WorkInv'
  <2>1. ASSUME wait' \in [Timers -> {"none", "pending", "due", "aborted", "fired", "never"}],
               thread' \in [pc : {"run", "callback", "rebind", "crashed", "done"},
                             timer : Timers \cup {NoTimer}],
               \A t \in Timers : wait'[t] = "none" => wait[t] = "none",
               \A t \in freed : wait'[t] \in {wait[t], "fired"}
        PROVE  TimerRange' /\ ListedInv' /\ FreedInv'
    <3>1. TimerRange'
      BY <1>0, <1>1, <2>1 DEF TimerRange
    <3>2. ListedInv'
      BY <1>0, <1>1, <2>1 DEF TimerInv, TimerRange, ListedInv
    <3>3. FreedInv'
      BY <1>0, <1>1, <2>1 DEF TimerInv, FreedInv
    <3> QED BY <3>1, <3>2, <3>3
  <2> QED BY <1>2, <2>1 DEF TimerInv
<1>3. CASE \E t \in Timers : Expire(t)
  <2>1. PICK t \in Timers : Expire(t)
    BY <1>3
  <2>2. wait[t] = "pending" /\ wait' = [wait EXCEPT ![t] = "due"] /\ thread' = thread
    BY <2>1 DEF Expire
  <2>3. t \notin freed
    BY <2>2 DEF TimerInv, FreedInv
  <2>4. \A s \in Timers : wait'[s] = (IF s = t THEN "due" ELSE wait[s])
    BY <1>0, <2>2 DEF TimerRange
  <2>5. WorkInv'
    BY <1>1, <2>2, <2>4 DEF TimerInv, WorkInv
  <2> QED BY <1>0, <2>2, <2>3, <2>4, <2>5 DEF TimerRange
<1>4. CASE \E t \in Timers : RunHandler(t)
  <2>1. PICK t \in Timers : RunHandler(t)
    BY <1>4
  <2>2. thread.pc = "run" /\ wait[t] \in {"due", "aborted"} /\ wait' = [wait EXCEPT ![t] = "fired"]
    BY <2>1 DEF RunHandler
  <2>3. \A s \in Timers : wait'[s] = (IF s = t THEN "fired" ELSE wait[s])
    BY <1>0, <2>2 DEF TimerRange
  <2>4. CASE thread' = thread
    BY <1>0, <1>1, <2>2, <2>3, <2>4 DEF TimerInv, TimerRange, WorkInv
  <2>5. CASE wait[t] = "due" /\ thread' = [pc |-> IF t \in freed THEN "crashed" ELSE "callback", timer |-> t]
    <3>1. t \in freed => t \in history.overtaken
      BY <2>5 DEF TimerInv, FreedInv
    <3>2. WorkInv'
      BY <1>1, <2>3, <2>5, <3>1 DEF WorkInv
    <3> QED BY <1>0, <2>2, <2>3, <2>5, <3>2 DEF TimerRange
  <2> QED BY <2>1, <2>4, <2>5 DEF RunHandler, CallsBack, ThreadGoto
<1>5. CASE CallbackEnds
  <2>1. /\ thread.pc = "callback" /\ UNCHANGED wait
        /\ \/ thread' = [pc |-> IF thread.timer \in freed THEN "crashed" ELSE "rebind",
                         timer |-> thread.timer]
           \/ thread' = [pc |-> "run", timer |-> NoTimer]
    BY <1>5 DEF CallbackEnds, ThreadGoto
  <2> QED BY <1>0, <1>1, <2>1 DEF TimerInv, TimerRange, WorkInv
<1>6. CASE Rebind
  <2>1. thread.pc = "rebind" /\ thread.timer \in Timers
    BY <1>6 DEF Rebind, TimerInv, WorkInv
  <2>2. CASE thread.timer \in freed
    <3>1. wait' = wait /\ thread' = [pc |-> "crashed", timer |-> thread.timer]
      BY <1>6, <2>2 DEF Rebind, ThreadGoto
    <3> QED BY <1>0, <1>1, <2>1, <2>2, <3>1 DEF TimerInv, TimerRange, WorkInv
  <2>3. CASE thread.timer \notin freed
    <3>1. /\ wait' = [wait EXCEPT ![thread.timer] = "pending"]
          /\ thread' = [pc |-> "run", timer |-> NoTimer]
      BY <1>6, <2>3 DEF Rebind
    <3>2. WorkInv'
      BY <3>1 DEF WorkInv
    <3> QED BY <1>0, <2>1, <2>3, <3>1, <3>2 DEF TimerRange
  <2> QED BY <2>2, <2>3
<1>7. CASE RunEnds
  BY <1>0, <1>1, <1>7 DEF RunEnds, TimerRange, WorkInv
<1> QED BY <1>3, <1>4, <1>5, <1>6, <1>7

LEMMA TimerStutter ==
  ASSUME TimerInv, UNCHANGED <<timerList, listLock, wait, freed, caller, thread, history>>
  PROVE  TimerInv'
BY DEF TimerInv, TimerRange, ListLockInv, ListedInv, FreedInv, WorkInv

(* What the list, the waits and the timer thread agree on, in every state   *)
(* that is reached: the inductive invariant of Timer.                       *)
THEOREM TimerInvariant == TimerSpec => []TimerInv
<1>1. TimerInv /\ [Running /\ TimerNext]_timerVars => TimerInv'
  <2> SUFFICES ASSUME TimerInv, [Running /\ TimerNext]_timerVars PROVE TimerInv'
    OBVIOUS
  <2>1. ASSUME NEW u \in Threads, UserStep(u) PROVE TimerInv'
    BY <2>1, QuietCalls, EmplaceInv, CancelInv, DeleteInv DEF UserStep, EnterList
  <2>2. ASSUME NEW u \in Threads, CallBind(u) \/ \E h \in Handles : CallClear(u, h)
        PROVE  TimerInv'
    BY <2>2, QuietCalls
  <2>3. ASSUME Running, \/ \E t \in Timers : Expire(t) \/ RunHandler(t)
                        \/ CallbackEnds \/ Rebind \/ RunEnds
        PROVE  TimerInv'
    BY <2>3, ThreadSteps
  <2>4. CASE Stop \/ StopContext \/ Join
    BY <2>4, TimerStutter DEF Stop, StopContext, Join, locks, io
  <2>5. CASE UNCHANGED timerVars
    BY <2>5, TimerStutter DEF timerVars, locks, io
  <2> QED BY <2>1, <2>2, <2>3, <2>4, <2>5 DEF TimerNext
<1> QED BY <1>1, TimerInitInv, PTL DEF TimerSpec

(* A timer that was freed is called only when its handler was queued or     *)
(* running before ClearTimer deleted it (Timer.hpp:75-78, 104-111).         *)
THEOREM FreedTimersWereOvertaken == TimerSpec => []UsedAfterFreeOnlyIfOvertaken
<1>1. TimerInv => UsedAfterFreeOnlyIfOvertaken
  BY DEF TimerInv, TimerRange, WorkInv, UsedAfterFreeOnlyIfOvertaken, Running
<1> QED BY <1>1, TimerInvariant, PTL

-----------------------------------------------------------------------------
(* The timing wheel.                                                        *)

(* What RemoveAt leaves.                                                    *)
LEMMA Removed ==
  ASSUME NEW S, NEW s \in Seq(S), NEW i \in 1 .. Len(s)
  PROVE  /\ RemoveAt(s, i) \in Seq(S)
         /\ Len(RemoveAt(s, i)) = Len(s) - 1
         /\ DOMAIN RemoveAt(s, i) = 1 .. Len(s) - 1
         /\ \A j \in 1 .. Len(s) - 1 :
              RemoveAt(s, i)[j] = IF j < i THEN s[j] ELSE s[j + 1]
<1> DEFINE a == SubSeq(s, 1, i - 1)
           b == SubSeq(s, i + 1, Len(s))
<1>1. /\ a \in Seq(S) /\ Len(a) = i - 1
      /\ \A j \in 1 .. i - 1 : a[j] = s[j]
  OBVIOUS
<1>2. /\ b \in Seq(S) /\ Len(b) = Len(s) - i
      /\ \A j \in 1 .. Len(s) - i : b[j] = s[i + j]
  OBVIOUS
<1>3. RemoveAt(s, i) = a \o b
  BY DEF RemoveAt
<1> HIDE DEF a, b
<1>4. /\ a \o b \in Seq(S) /\ Len(a \o b) = Len(s) - 1
      /\ DOMAIN (a \o b) = 1 .. Len(s) - 1
  <2>0. a \in Seq(S) /\ b \in Seq(S)
    BY <1>1, <1>2
  <2>1. a \o b \in Seq(S)
    BY <2>0
  <2>2. Len(a \o b) = Len(a) + Len(b)
    BY <2>0
  <2>3. Len(a) + Len(b) = Len(s) - 1
    BY <1>1, <1>2
  <2> QED BY <2>1, <2>2, <2>3
<1>5. ASSUME NEW j \in 1 .. Len(s) - 1
      PROVE  (a \o b)[j] = IF j < i THEN s[j] ELSE s[j + 1]
  <2>1. CASE j < i
    BY <1>1, <1>2, <2>1
  <2>2. CASE ~(j < i)
    <3>1. (a \o b)[j] = b[j - (i - 1)]
      BY <1>1, <1>2, <2>2
    <3>2. j - (i - 1) \in 1 .. Len(s) - i /\ i + (j - (i - 1)) = j + 1
      BY <2>2
    <3> QED BY <1>2, <2>2, <3>1, <3>2
  <2> QED BY <2>1, <2>2
<1> QED BY <1>1, <1>2, <1>3, <1>4, <1>5

------------------------------------------------------------------------------
(* The walk of the turner, between the slots of the wheel.                  *)
WheelRange ==
  /\ index \in Slots /\ rotation \in Nat /\ walks \in Nat
  /\ wheel \in [Slots -> Seq(Delegates)]
  /\ turner \in [pc : {"sleep", "walk", "turn", "wrap"}, at : Nat \ {0}]
  /\ adder \in [Delegates ->
       [pc : {"new", "rotation", "push", "added"}, delay : Nat, slot : Nat, count : Nat]]
  /\ due \in [Delegates -> Nat]
  /\ fired \in [Delegates -> SUBSET Nat]
  /\ turner.pc = "walk" => turner.at <= Len(wheel[index])

(* How far the walks are ahead of index and rotation count.                 *)
Ahead(pc) == CASE pc = "sleep" -> 0
               [] pc = "wrap" -> MaxWheelSize
               [] OTHER -> 1

PositionInv == walks = rotation * MaxWheelSize + index + Ahead(turner.pc)

(* A callback is made once.                                                 *)
FiredInv == \A d \in Delegates : fired[d] = {} \/ \E w \in Nat : fired[d] = {w}

(* The walk the slot at the index is for.                                   *)
Now == IF Walking THEN walks ELSE walks + 1

(* What AddNewTimer has read is still so while nothing has overtaken it.    *)
AddingInv ==
  \A d \in Adding \ overtaken :
    /\ turner.pc # "wrap"
    /\ adder[d].delay = 0 => ~Walking
    /\ adder[d].slot = index + adder[d].delay
    /\ due[d] = Now + adder[d].delay
    /\ adder[d].pc = "push" => adder[d].count = RotationOf(adder[d].slot)

PlaceOf(d) == adder[d].slot % MaxWheelSize

(* A timer is in one place of the wheel, from when it was added until it is *)
(* called back.                                                             *)
OnceInv ==
  /\ \A s \in Slots : \A i \in DOMAIN wheel[s] : \A d \in Delegates :
       wheel[s][i] = d =>
         /\ adder[d].pc = "added" /\ fired[d] = {} /\ PlaceOf(d) = s
         /\ \A j \in DOMAIN wheel[s] : wheel[s][j] = d => j = i
  /\ \A d \in Delegates : adder[d].pc # "added" => fired[d] = {}

(* The walk in which the turner comes to the timer's slot in its rotation.  *)
Target(d) == adder[d].count * MaxWheelSize + PlaceOf(d) + 1

(* It is the walk asked for, or whole turns before it.                      *)
Meant(d) ==
  IF Near(d) THEN due[d] = Target(d)
  ELSE \E k \in 1 .. due[d] : Target(d) + k * MaxWheelSize = due[d]

(* The timer is in its slot, and the turner has not passed it in that walk. *)
Waits(d) ==
  \E i \in DOMAIN wheel[PlaceOf(d)] :
    /\ wheel[PlaceOf(d)][i] = d
    /\ \/ Target(d) > walks
       \/ Target(d) = walks /\ turner.pc = "walk" /\ turner.at <= i

AddedInv ==
  \A d \in Delegates \ overtaken :
    adder[d].pc = "added" => Meant(d) /\ (Waits(d) \/ fired[d] = {Target(d)})

WheelInv ==
  WheelRange /\ PositionInv /\ FiredInv /\ AddingInv /\ OnceInv /\ AddedInv

(* A number has one quotient and one remainder ...                          *)
LEMMA Euclid ==
  ASSUME NEW a \in Nat, NEW b \in Nat, NEW i \in Slots, NEW j \in Slots,
         a * MaxWheelSize + i = b * MaxWheelSize + j
  PROVE  a = b /\ i = j
<1>0. MaxWheelSize \in Nat \ {0} /\ i \in 0 .. MaxWheelSize - 1
        /\ j \in 0 .. MaxWheelSize - 1
  BY WheelAssumption DEF Slots
<1>1. ASSUME NEW x \in Nat, NEW y \in Nat, x < y
      PROVE  x * MaxWheelSize + MaxWheelSize <= y * MaxWheelSize
  <2>1. PICK k \in Nat : y = x + 1 + k
    BY <1>1, y - x - 1 \in Nat, y = x + 1 + (y - x - 1)
  <2>2. y * MaxWheelSize = x * MaxWheelSize + MaxWheelSize + k * MaxWheelSize
    BY <1>0, <2>1
  <2>3. k * MaxWheelSize >= 0
    BY <1>0
  <2> QED BY <1>0, <2>2, <2>3
<1>2. ~(a < b)
  BY <1>0, <1>1
<1>3. ~(b < a)
  BY <1>0, <1>1
<1> QED BY <1>0, <1>2, <1>3

(* ... and is made of them.                                                 *)
LEMMA Division ==
  ASSUME NEW n \in Nat
  PROVE  /\ n % MaxWheelSize \in Slots /\ n \div MaxWheelSize \in Nat
         /\ n = (n \div MaxWheelSize) * MaxWheelSize + (n % MaxWheelSize)
         /\ n < MaxWheelSize => n % MaxWheelSize = n /\ n \div MaxWheelSize = 0
         /\ n >= MaxWheelSize => n \div MaxWheelSize >= 1
         /\ n < 2 * MaxWheelSize <=> n \div MaxWheelSize < 2
<1>1. MaxWheelSize \in Nat \ {0} /\ n % MaxWheelSize \in 0 .. MaxWheelSize - 1
  BY WheelAssumption
<1>2. n \div MaxWheelSize \in Nat
  BY WheelAssumption
<1>3. n = (n \div MaxWheelSize) * MaxWheelSize + (n % MaxWheelSize)
  BY WheelAssumption
<1> DEFINE q == n \div MaxWheelSize
           r == n % MaxWheelSize
<1>4. q \in Nat /\ r \in 0 .. MaxWheelSize - 1 /\ n = q * MaxWheelSize + r
  BY <1>1, <1>2, <1>3
<1> HIDE DEF q, r
<1>5. CASE q = 0
  BY <1>1, <1>4, <1>5 DEF q, r, Slots
<1>6. CASE q = 1
  BY <1>1, <1>4, <1>6 DEF q, r, Slots
<1>7. CASE q \notin {0, 1}
  <2>1. PICK k \in Nat : q = k + 2
    BY <1>4, <1>7, q - 2 \in Nat, q = (q - 2) + 2
  <2>2. q * MaxWheelSize = k * MaxWheelSize + 2 * MaxWheelSize /\ k * MaxWheelSize \in Nat
    BY <1>1, <2>1
  <2> QED BY <1>1, <1>4, <2>1, <2>2 DEF q, r, Slots
<1> QED BY <1>5, <1>6, <1>7

(* The position of the turner, in whole numbers.                            *)
LEMMA Position ==
  ASSUME WheelInv
  PROVE  /\ MaxWheelSize \in Nat \ {0} /\ index \in 0 .. MaxWheelSize - 1
         /\ rotation \in Nat /\ rotation * MaxWheelSize \in Nat /\ walks \in Nat
         /\ (rotation + 1) * MaxWheelSize = rotation * MaxWheelSize + MaxWheelSize
         /\ turner.pc = "sleep" => walks = rotation * MaxWheelSize + index
         /\ Walking => walks = rotation * MaxWheelSize + index + 1
         /\ turner.pc = "wrap" => walks = rotation * MaxWheelSize + index + MaxWheelSize
         /\ turner.pc # "wrap" => Now = rotation * MaxWheelSize + index + 1
<1>1. MaxWheelSize \in Nat \ {0} /\ index \in 0 .. MaxWheelSize - 1
        /\ rotation \in Nat /\ walks \in Nat
  BY WheelAssumption DEF WheelInv, WheelRange, Slots
<1>2. rotation * MaxWheelSize \in Nat
        /\ (rotation + 1) * MaxWheelSize = rotation * MaxWheelSize + MaxWheelSize
  BY <1>1
<1>3. turner.pc \in {"sleep", "walk", "turn", "wrap"}
  BY DEF WheelInv, WheelRange
<1> QED BY <1>1, <1>2, <1>3 DEF WheelInv, PositionInv, Ahead, Walking, Now

(* The numbers of a timer.                                                  *)
LEMMA TimerNumbers ==
  ASSUME WheelInv, NEW d \in Delegates
  PROVE  /\ adder[d].slot \in Nat /\ adder[d].delay \in Nat /\ adder[d].count \in Nat
         /\ PlaceOf(d) \in Slots /\ PlaceOf(d) \in 0 .. MaxWheelSize - 1
         /\ adder[d].count * MaxWheelSize \in Nat
         /\ Target(d) \in Nat /\ due[d] \in Nat /\ wheel[PlaceOf(d)] \in Seq(Delegates)
<1>1. /\ adder[d].slot \in Nat /\ adder[d].delay \in Nat /\ adder[d].count \in Nat
      /\ due[d] \in Nat
  BY DEF WheelInv, WheelRange
<1>2. PlaceOf(d) \in Slots
  BY <1>1, Division DEF PlaceOf
<1>3. adder[d].count * MaxWheelSize \in Nat
  BY <1>1, WheelAssumption
<1>4. wheel[PlaceOf(d)] \in Seq(Delegates)
  BY <1>2 DEF WheelInv, WheelRange
<1> QED BY <1>1, <1>2, <1>3, <1>4 DEF Target, Slots

(* The turner is at a timer's slot, in its rotation, in its walk.           *)
LEMMA InItsWalk ==
  ASSUME WheelInv, NEW d \in Delegates,
         NEW w \in Nat, w = rotation * MaxWheelSize + index, Target(d) = w + 1
  PROVE  PlaceOf(d) = index /\ adder[d].count = rotation
<1>1. /\ rotation \in Nat /\ index \in Slots
      /\ adder[d].count \in Nat /\ PlaceOf(d) \in Slots
  BY TimerNumbers DEF WheelInv, WheelRange
<1>2. adder[d].count * MaxWheelSize + PlaceOf(d) = rotation * MaxWheelSize + index
  <2> DEFINE x == adder[d].count * MaxWheelSize
             r == rotation * MaxWheelSize
  <2>1. Target(d) = x + PlaceOf(d) + 1 /\ w = r + index /\ Target(d) = w + 1
    BY DEF Target
  <2>2. x \in Nat /\ PlaceOf(d) \in Nat /\ r \in Nat /\ index \in Nat
    BY Position, TimerNumbers
  <2> HIDE DEF x, r
  <2>3. x + PlaceOf(d) = r + index
    BY <2>1, <2>2
  <2> QED BY <2>3 DEF x, r
<1> QED BY <1>1, <1>2, Euclid

(* What is said of a timer depends on the timer alone.                      *)
LEMMA OtherTimers ==
  ASSUME NEW e \in Delegates, adder'[e] = adder[e], due'[e] = due[e]
  PROVE  PlaceOf(e)' = PlaceOf(e) /\ Target(e)' = Target(e) /\ Meant(e)' = Meant(e)
<1>1. PlaceOf(e)' = PlaceOf(e)
  BY DEF PlaceOf
<1>2. Target(e)' = Target(e)
  BY <1>1 DEF Target
<1>3. Near(e)' = Near(e)
  BY DEF Near
<1> QED BY <1>1, <1>2, <1>3 DEF Meant

(* A timer of the wheel has its place, is not called back, and is there once. *)
LEMMA InWheel ==
  ASSUME WheelInv, NEW s \in Slots, NEW i \in DOMAIN wheel[s], NEW e \in Delegates,
         wheel[s][i] = e
  PROVE  /\ adder[e].pc = "added" /\ fired[e] = {} /\ PlaceOf(e) = s
         /\ \A j \in DOMAIN wheel[s] : wheel[s][j] = e => j = i
<1>1. adder[e].pc = "added"
  BY DEF WheelInv, OnceInv
<1>2. fired[e] = {} /\ PlaceOf(e) = s
  BY DEF WheelInv, OnceInv
<1>3. \A j \in DOMAIN wheel[s] : wheel[s][j] = e => j = i
  BY DEF WheelInv, OnceInv
<1> QED BY <1>1, <1>2, <1>3

(* A step that moves the turner alone leaves the timers as they are.        *)
LEMMA TimersStay ==
  ASSUME WheelInv, UNCHANGED <<wheel, adder, fired>>
  PROVE  FiredInv' /\ OnceInv'
<1>1. \A e \in Delegates : PlaceOf(e)' = PlaceOf(e)
  BY DEF PlaceOf
<1> QED BY <1>1 DEF WheelInv, FiredInv, OnceInv

(* A timer that is being added is not in the wheel.                         *)
LEMMA NotYetInWheel ==
  ASSUME WheelInv, NEW d \in Delegates, adder[d].pc # "added"
  PROVE  \A s \in Slots : \A i \in DOMAIN wheel[s] : wheel[s][i] \in Delegates \ {d}
<1> TAKE s \in Slots
<1>1. wheel[s] \in Seq(Delegates)
  BY DEF WheelInv, WheelRange
<1> TAKE i \in DOMAIN wheel[s]
<1>2. wheel[s][i] \in Delegates
  BY <1>1
<1>3. adder[wheel[s][i]].pc = "added"
  BY <1>2 DEF WheelInv, OnceInv
<1> QED BY <1>2, <1>3

LEMMA WheelInitInv == WheelInit => WheelInv
<1> SUFFICES ASSUME WheelInit PROVE WheelInv
  OBVIOUS
<1> USE DEF WheelInit
<1>1. WheelRange
  BY WheelAssumption DEF WheelRange, Slots
<1>2. PositionInv
  BY WheelAssumption DEF PositionInv, Ahead
<1>3. FiredInv /\ AddingInv /\ OnceInv /\ AddedInv
  BY DEF FiredInv, AddingInv, Adding, OnceInv, AddedInv
<1> QED BY <1>1, <1>2, <1>3 DEF WheelInv

(* What AddNewTimer reads first: the walk that is meant is fixed by it.     *)
LEMMA ReadIndexInv ==
  ASSUME WheelInv, NEW d \in Delegates, ReadIndex(d)
  PROVE  WheelInv'
<1>1. PICK n \in 0 .. MAX_DELAY :
        /\ adder' = [adder EXCEPT ![d] =
             [pc |-> "rotation", delay |-> n, slot |-> index + n, count |-> 0]]
        /\ due' = [due EXCEPT ![d] = IF Walking THEN walks + n ELSE walks + 1 + n]
        /\ overtaken' = IF turner.pc = "wrap" \/ (n = 0 /\ Walking)
                          THEN overtaken \cup {d} ELSE overtaken
  BY DEF ReadIndex
<1>2. adder[d].pc = "new" /\ UNCHANGED <<index, rotation, wheel, turner, walks, fired>>
  BY DEF ReadIndex, New
<1>3. n \in Nat /\ index + n \in Nat
  BY Position, WheelAssumption
<1>4. \A e \in Delegates : e # d => adder'[e] = adder[e] /\ due'[e] = due[e]
  BY <1>1 DEF WheelInv, WheelRange
<1>5. /\ adder'[d] = [pc |-> "rotation", delay |-> n, slot |-> index + n, count |-> 0]
      /\ due'[d] = Now + n
  BY <1>1, <1>3, Position DEF WheelInv, WheelRange, Now
<1>6. Walking' = Walking /\ Now' = Now
  BY <1>2 DEF Walking, Now
<1>7. WheelRange'
  <2>1. (IF Walking THEN walks + n ELSE walks + 1 + n) \in Nat
    BY <1>3, Position
  <2> QED BY <1>1, <1>2, <1>3, <2>1 DEF WheelInv, WheelRange
<1>8. PositionInv' /\ FiredInv'
  BY <1>2 DEF WheelInv, PositionInv, FiredInv
<1>9. AddingInv'
  <2> SUFFICES ASSUME NEW e \in (Adding \ overtaken)'
               PROVE  /\ turner'.pc # "wrap"
                      /\ adder'[e].delay = 0 => ~Walking
                      /\ adder'[e].slot = index + adder'[e].delay
                      /\ due'[e] = Now + adder'[e].delay
                      /\ adder'[e].pc = "push" =>
                           adder'[e].count = RotationOf(adder'[e].slot)
    BY <1>2, <1>6 DEF AddingInv, RotationOf
  <2>1. CASE e = d
    BY <1>1, <1>2, <1>5, <2>1
  <2>2. CASE e # d
    <3>1. e \in Adding \ overtaken
      BY <1>1, <1>4, <2>2 DEF Adding
    <3> QED BY <1>2, <1>4, <2>2, <3>1 DEF WheelInv, AddingInv, Adding
  <2> QED BY <2>1, <2>2
<1>10. \A s \in Slots : \A i \in DOMAIN wheel[s] : wheel[s][i] \in Delegates \ {d}
  BY <1>2, NotYetInWheel
<1>11. OnceInv'
  <2>1. \A e \in Delegates : e # d => PlaceOf(e)' = PlaceOf(e)
    BY <1>4 DEF PlaceOf
  <2>2. fired[d] = {}
    BY <1>2 DEF WheelInv, OnceInv
  <2> QED BY <1>2, <1>4, <1>10, <2>1, <2>2 DEF WheelInv, OnceInv
<1>12. AddedInv'
  <2> SUFFICES ASSUME NEW e \in Delegates, e \notin overtaken', adder'[e].pc = "added"
               PROVE  Meant(e)' /\ (Waits(e)' \/ fired'[e] = {Target(e)'})
    BY DEF AddedInv
  <2>1. e # d /\ e \notin overtaken
    BY <1>1, <1>5
  <2>2. PlaceOf(e)' = PlaceOf(e) /\ Target(e)' = Target(e) /\ Meant(e)' = Meant(e)
    BY <1>4, <2>1, OtherTimers
  <2> QED BY <1>2, <1>4, <2>1, <2>2 DEF WheelInv, AddedInv, Waits
<1> QED BY <1>7, <1>8, <1>9, <1>11, <1>12 DEF WheelInv

(* The rotation count is read while nothing has overtaken the call.         *)
LEMMA ReadRotationInv ==
  ASSUME WheelInv, NEW d \in Delegates, ReadRotation(d)
  PROVE  WheelInv'
<1>1. /\ adder[d].pc = "rotation"
      /\ adder' = [adder EXCEPT ![d].pc = "push", ![d].count = RotationOf(adder[d].slot)]
      /\ UNCHANGED <<index, rotation, wheel, turner, walks, due, fired, overtaken>>
  BY DEF ReadRotation
<1>2. \A e \in Delegates : e # d => adder'[e] = adder[e]
  BY <1>1 DEF WheelInv, WheelRange
<1>3. /\ adder'[d].pc = "push" /\ adder'[d].count = RotationOf(adder[d].slot)
      /\ adder'[d].slot = adder[d].slot /\ adder'[d].delay = adder[d].delay
  BY <1>1 DEF WheelInv, WheelRange
<1>4. WheelRange'
  <2>1. RotationOf(adder[d].slot) \in Nat
    BY Position DEF RotationOf
  <2> QED BY <1>1, <2>1 DEF WheelInv, WheelRange
<1>5. PositionInv' /\ FiredInv'
  BY <1>1 DEF WheelInv, PositionInv, FiredInv
<1>6. Walking' = Walking /\ Now' = Now
  BY <1>1 DEF Walking, Now
<1>7. AddingInv'
  <2> SUFFICES ASSUME NEW e \in (Adding \ overtaken)'
               PROVE  /\ turner.pc # "wrap"
                      /\ adder'[e].delay = 0 => ~Walking
                      /\ adder'[e].slot = index + adder'[e].delay
                      /\ due[e] = Now + adder'[e].delay
                      /\ adder'[e].pc = "push" =>
                           adder'[e].count = RotationOf(adder'[e].slot)
    BY <1>1, <1>6 DEF AddingInv, RotationOf
  <2>1. e \in Adding \ overtaken
    BY <1>1, <1>2 DEF Adding
  <2> QED BY <1>2, <1>3, <2>1 DEF WheelInv, AddingInv, Adding
<1>8. \A s \in Slots : \A i \in DOMAIN wheel[s] : wheel[s][i] \in Delegates \ {d}
  BY <1>1, NotYetInWheel
<1>9. OnceInv'
  <2>1. \A e \in Delegates : e # d => PlaceOf(e)' = PlaceOf(e)
    BY <1>2 DEF PlaceOf
  <2>2. fired[d] = {}
    BY <1>1 DEF WheelInv, OnceInv
  <2>3. ASSUME NEW s \in Slots, NEW i \in DOMAIN wheel'[s], NEW e \in Delegates,
               wheel'[s][i] = e
        PROVE  /\ adder'[e].pc = "added" /\ fired'[e] = {} /\ PlaceOf(e)' = s
               /\ \A j \in DOMAIN wheel'[s] : wheel'[s][j] = e => j = i
    <3>1. e # d /\ adder'[e] = adder[e] /\ PlaceOf(e)' = PlaceOf(e)
      BY <1>1, <1>2, <1>8, <2>1, <2>3
    <3>2. wheel' = wheel /\ fired' = fired
      BY <1>1
    <3>3. adder[e].pc = "added" /\ fired[e] = {} /\ PlaceOf(e) = s
      BY <2>3, <3>2, InWheel
    <3>4. \A j \in DOMAIN wheel[s] : wheel[s][j] = e => j = i
      BY <2>3, <3>2, InWheel
    <3> QED BY <3>1, <3>2, <3>3, <3>4
  <2> QED BY <1>1, <1>2, <2>2, <2>3 DEF WheelInv, OnceInv
<1>10. AddedInv'
  <2> SUFFICES ASSUME NEW e \in Delegates, e \notin overtaken', adder'[e].pc = "added"
               PROVE  Meant(e)' /\ (Waits(e)' \/ fired'[e] = {Target(e)'})
    BY DEF AddedInv
  <2>1. e # d /\ e \notin overtaken
    BY <1>1, <1>3
  <2>2. PlaceOf(e)' = PlaceOf(e) /\ Target(e)' = Target(e) /\ Meant(e)' = Meant(e)
    BY <1>1, <1>2, <2>1, OtherTimers
  <2> QED BY <1>1, <1>2, <2>1, <2>2 DEF WheelInv, AddedInv, Waits
<1> QED BY <1>4, <1>5, <1>7, <1>9, <1>10 DEF WheelInv

(* The slot and the rotation count that were worked out are those of the    *)
(* walk that is meant, or of one whole turns before, and it is to come.     *)
LEMMA WorkedOut ==
  ASSUME WheelInv, NEW d \in Delegates, adder[d].pc = "push", d \notin overtaken
  PROVE  Meant(d) /\ Target(d) > walks
<1> DEFINE slot == adder[d].slot
           q == slot \div MaxWheelSize
           r == rotation * MaxWheelSize
<1>1. /\ turner.pc # "wrap"
      /\ adder[d].delay = 0 => ~Walking
      /\ slot = index + adder[d].delay
      /\ due[d] = Now + adder[d].delay
      /\ adder[d].count = RotationOf(slot)
  BY DEF WheelInv, AddingInv, Adding
<1>2. /\ slot \in Nat /\ adder[d].delay \in Nat /\ q \in Nat
      /\ PlaceOf(d) \in 0 .. MaxWheelSize - 1 /\ slot = q * MaxWheelSize + PlaceOf(d)
      /\ slot < MaxWheelSize => PlaceOf(d) = slot
      /\ slot >= MaxWheelSize => q >= 1
      /\ Near(d) <=> q < 2
  BY TimerNumbers, Division DEF PlaceOf, Near
<1>3. /\ MaxWheelSize \in Nat \ {0} /\ index \in 0 .. MaxWheelSize - 1 /\ r \in Nat
      /\ walks \in Nat /\ Now = r + index + 1
      /\ Walking => Now = walks
      /\ ~Walking => Now = walks + 1
      /\ (rotation + 1) * MaxWheelSize = r + MaxWheelSize /\ rotation \in Nat
  BY <1>1, Position DEF Now
<1>4. due[d] = r + slot + 1
  BY <1>1, <1>2, <1>3
<1> HIDE DEF q, r
<1>5. CASE slot < MaxWheelSize
  <2>1. Target(d) = r + slot + 1
    <3>1. adder[d].count = rotation
      BY <1>1, <1>2, <1>3, <1>5 DEF RotationOf
    <3> QED BY <1>2, <1>5, <3>1 DEF Target, r
  <2>2. Near(d)
    BY <1>2, <1>3, <1>5 DEF Near
  <2>3. Target(d) > walks
    BY <1>1, <1>2, <1>3, <2>1
  <2> QED BY <1>4, <2>1, <2>2, <2>3 DEF Meant
<1>6. CASE slot >= MaxWheelSize
  <2>1. Target(d) = r + MaxWheelSize + PlaceOf(d) + 1
    <3>1. adder[d].count = rotation + 1
      BY <1>1, <1>6 DEF RotationOf
    <3> QED BY <1>3, <3>1 DEF Target
  <2>2. Target(d) > walks
    BY <1>2, <1>3, <2>1
  <2>3. CASE q < 2
    <3>1. q = 1
      BY <1>2, <1>6, <2>3
    <3>2. slot = MaxWheelSize + PlaceOf(d)
      BY <1>2, <1>3, <3>1
    <3> QED BY <1>2, <1>3, <1>4, <2>1, <2>2, <2>3, <3>2 DEF Meant
  <2>4. CASE ~(q < 2)
    <3>1. PICK k \in Nat : q = k + 1 /\ k >= 1
      BY <1>2, <2>4, q - 1 \in Nat, q = (q - 1) + 1
    <3>2. q * MaxWheelSize = k * MaxWheelSize + MaxWheelSize
      BY <1>3, <3>1
    <3>3. k * MaxWheelSize \in Nat /\ k * MaxWheelSize >= k
      BY <1>3, <3>1
    <3>4. Target(d) + k * MaxWheelSize = due[d]
      BY <1>2, <1>3, <1>4, <2>1, <3>2, <3>3
    <3>5. k \in 1 .. due[d]
      BY <1>2, <1>3, <2>1, <3>1, <3>3, <3>4
    <3> QED BY <1>2, <2>2, <2>4, <3>4, <3>5 DEF Meant
  <2> QED BY <2>3, <2>4
<1> QED BY <1>2, <1>3, <1>5, <1>6

(* The timer goes behind the others of its slot.                            *)
LEMMA PushBackInv ==
  ASSUME WheelInv, NEW d \in Delegates, PushBack(d)
  PROVE  WheelInv'
<1>0. /\ adder[d].pc = "push"
      /\ wheel' = [wheel EXCEPT ![PlaceOf(d)] = Append(@, d)]
      /\ adder' = [adder EXCEPT ![d].pc = "added"]
      /\ UNCHANGED <<index, rotation, turner, walks, due, fired, overtaken>>
  BY DEF PushBack, PlaceOf
<1> DEFINE p == PlaceOf(d)
           n == Len(wheel[p])
<1>1. p \in Slots /\ wheel[p] \in Seq(Delegates) /\ n \in Nat /\ DOMAIN wheel[p] = 1 .. n
  BY TimerNumbers
<1>2. /\ wheel' \in [Slots -> Seq(Delegates)]
      /\ \A s \in Slots : s # p => wheel'[s] = wheel[s]
      /\ DOMAIN wheel'[p] = 1 .. n + 1 /\ Len(wheel'[p]) = n + 1
      /\ \A i \in 1 .. n : wheel'[p][i] = wheel[p][i]
      /\ wheel'[p][n + 1] = d
  <2>1. wheel \in [Slots -> Seq(Delegates)] /\ wheel'[p] = Append(wheel[p], d)
    BY <1>0, <1>1 DEF WheelInv, WheelRange
  <2>2. /\ Append(wheel[p], d) \in Seq(Delegates) /\ Len(Append(wheel[p], d)) = n + 1
        /\ DOMAIN Append(wheel[p], d) = 1 .. n + 1
        /\ \A i \in 1 .. n : Append(wheel[p], d)[i] = wheel[p][i]
        /\ Append(wheel[p], d)[n + 1] = d
    BY <1>1
  <2> QED BY <1>0, <1>1, <2>1, <2>2
<1>3. /\ \A e \in Delegates : e # d => adder'[e] = adder[e]
      /\ adder'[d] = [adder[d] EXCEPT !.pc = "added"] /\ adder'[d].pc = "added"
      /\ adder'[d].slot = adder[d].slot /\ adder'[d].count = adder[d].count
  BY <1>0 DEF WheelInv, WheelRange
<1>4. \A e \in Delegates :
        PlaceOf(e)' = PlaceOf(e) /\ Target(e)' = Target(e) /\ Meant(e)' = Meant(e)
  <2> TAKE e \in Delegates
  <2>1. CASE e # d
    BY <1>0, <1>3, <2>1, OtherTimers
  <2>2. CASE e = d
    <3>1. PlaceOf(e)' = PlaceOf(e) /\ Near(e)' = Near(e)
      BY <1>3, <2>2 DEF PlaceOf, Near
    <3>2. Target(e)' = Target(e)
      BY <1>3, <2>2, <3>1 DEF Target
    <3> QED BY <1>0, <3>1, <3>2 DEF Meant
  <2> QED BY <2>1, <2>2
<1>5. \A s \in Slots : \A i \in DOMAIN wheel[s] : wheel[s][i] \in Delegates \ {d}
  BY <1>0, NotYetInWheel
<1>6. fired[d] = {}
  BY <1>0 DEF WheelInv, OnceInv
<1> HIDE DEF p, n
<1>7. WheelRange'
  <2>1. turner'.pc = "walk" => turner'.at <= Len(wheel'[index'])
    <3>1. turner.pc = "walk" => turner.at <= Len(wheel[index])
      BY DEF WheelInv, WheelRange
    <3>2. index \in Slots /\ turner.at \in Nat
      BY DEF WheelInv, WheelRange
    <3>3. CASE index = p
      BY <1>0, <1>1, <1>2, <3>1, <3>2, <3>3 DEF n
    <3>4. CASE index # p
      BY <1>0, <1>2, <3>1, <3>2, <3>4
    <3> QED BY <3>3, <3>4
  <2>2. adder' \in [Delegates ->
       [pc : {"new", "rotation", "push", "added"}, delay : Nat, slot : Nat, count : Nat]]
    BY <1>0 DEF WheelInv, WheelRange
  <2> QED BY <1>0, <1>2, <2>1, <2>2 DEF WheelInv, WheelRange
<1>8. PositionInv' /\ FiredInv'
  BY <1>0 DEF WheelInv, PositionInv, FiredInv
<1>9. AddingInv'
  <2>1. Walking' = Walking /\ Now' = Now
    BY <1>0 DEF Walking, Now
  <2>2. \A e \in (Adding \ overtaken)' : e \in Adding \ overtaken /\ e # d
    BY <1>0, <1>3 DEF Adding
  <2> QED BY <1>0, <1>3, <2>1, <2>2 DEF WheelInv, AddingInv, RotationOf, Adding
<1>10. OnceInv'
  <2>1. ASSUME NEW s \in Slots, NEW i \in DOMAIN wheel'[s], NEW e \in Delegates,
               wheel'[s][i] = e
        PROVE  /\ adder'[e].pc = "added" /\ fired'[e] = {} /\ PlaceOf(e)' = s
               /\ \A j \in DOMAIN wheel'[s] : wheel'[s][j] = e => j = i
    <3>1. CASE s # p
      <4>1. wheel'[s] = wheel[s]
        BY <1>2, <3>1
      <4>2. e # d
        BY <1>5, <2>1, <4>1
      <4>3. /\ adder[e].pc = "added" /\ fired[e] = {} /\ PlaceOf(e) = s
            /\ \A j \in DOMAIN wheel[s] : wheel[s][j] = e => j = i
        BY <2>1, <4>1 DEF WheelInv, OnceInv
      <4> QED BY <1>0, <1>3, <1>4, <4>1, <4>2, <4>3
    <3>2. CASE s = p /\ i \in 1 .. n
      <4>1. wheel[p][i] = e /\ e # d
        BY <1>1, <1>2, <1>5, <2>1, <3>2
      <4>2. /\ adder[e].pc = "added" /\ fired[e] = {} /\ PlaceOf(e) = p
            /\ \A j \in 1 .. n : wheel[p][j] = e => j = i
        <5>1. DOMAIN wheel[p] = 1 .. n
          BY <1>1
        <5>2. p \in Slots /\ i \in DOMAIN wheel[p] /\ wheel[p][i] = e
          BY <1>1, <3>2, <4>1
        <5> HIDE DEF p
        <5>3. adder[e].pc = "added" /\ fired[e] = {} /\ PlaceOf(e) = p
          BY <5>2, InWheel
        <5>4. \A j \in DOMAIN wheel[p] : wheel[p][j] = e => j = i
          BY <5>2, InWheel
        <5> QED BY <5>1, <5>2, <5>3, <5>4
      <4>3. \A j \in DOMAIN wheel'[p] : wheel'[p][j] = e => j = i
        BY <1>1, <1>2, <4>1, <4>2
      <4> QED BY <1>0, <1>3, <1>4, <3>2, <4>1, <4>2, <4>3
    <3>3. CASE s = p /\ i = n + 1
      <4>1. e = d
        BY <1>2, <2>1, <3>3
      <4>2. \A j \in 1 .. n : wheel'[p][j] # d
        BY <1>1, <1>2, <1>5
      <4>3. \A j \in DOMAIN wheel'[p] : wheel'[p][j] = d => j = n + 1
        BY <1>1, <1>2, <4>2
      <4> QED BY <1>0, <1>3, <1>4, <1>6, <3>3, <4>1, <4>3 DEF p
    <3> QED BY <1>1, <1>2, <3>1, <3>2, <3>3
  <2>2. \A e \in Delegates : adder'[e].pc # "added" => fired'[e] = {}
    BY <1>0, <1>3 DEF WheelInv, OnceInv
  <2> QED BY <2>1, <2>2 DEF OnceInv
<1>11. AddedInv'
  <2> SUFFICES ASSUME NEW e \in Delegates, e \notin overtaken', adder'[e].pc = "added"
               PROVE  Meant(e)' /\ (Waits(e)' \/ fired'[e] = {Target(e)'})
    BY DEF AddedInv
  <2>1. CASE e = d
    <3>1. Meant(d) /\ Target(d) > walks
      BY <1>0, <2>1, WorkedOut
    <3>2. n + 1 \in DOMAIN wheel'[p] /\ wheel'[p][n + 1] = d
      BY <1>1, <1>2
    <3> QED BY <1>0, <1>4, <2>1, <3>1, <3>2 DEF Waits, p
  <2>2. CASE e # d
    <3>1. Meant(e) /\ (Waits(e) \/ fired[e] = {Target(e)})
      BY <1>0, <1>3, <2>2 DEF WheelInv, AddedInv
    <3>2. ASSUME Waits(e) PROVE Waits(e)'
      <4>1. PICK i \in DOMAIN wheel[PlaceOf(e)] :
              /\ wheel[PlaceOf(e)][i] = e
              /\ \/ Target(e) > walks
                 \/ Target(e) = walks /\ turner.pc = "walk" /\ turner.at <= i
        BY <3>2 DEF Waits
      <4>2. i \in DOMAIN wheel'[PlaceOf(e)] /\ wheel'[PlaceOf(e)][i] = e
        <5>1. CASE PlaceOf(e) = p
          BY <1>1, <1>2, <4>1, <5>1
        <5>2. CASE PlaceOf(e) # p
          BY <1>2, <4>1, <5>2, TimerNumbers
        <5> QED BY <5>1, <5>2
      <4> QED BY <1>0, <1>4, <4>1, <4>2 DEF Waits
    <3> QED BY <1>0, <1>4, <3>1, <3>2
  <2> QED BY <2>1, <2>2
<1> QED BY <1>7, <1>8, <1>9, <1>10, <1>11 DEF WheelInv

(* A walk begins: the timers it is for are in the slot, before the turner.  *)
LEMMA ElapseInv ==
  ASSUME WheelInv, Elapse
  PROVE  WheelInv'
<1>1. /\ turner.pc = "sleep" /\ turner' = From(1, Len(Here)) /\ walks' = walks + 1
      /\ overtaken' = overtaken \cup {d \in Adding : adder[d].delay = 0}
      /\ UNCHANGED <<index, rotation, wheel, adder, due, fired>>
  BY DEF Elapse
<1>2. Len(Here) \in Nat /\ DOMAIN Here = 1 .. Len(Here)
  BY DEF WheelInv, WheelRange, Here
<1>3. /\ turner'.at = 1
      /\ turner'.pc \in {"walk", "turn"}
      /\ turner'.pc = "walk" <=> Len(Here) >= 1
      /\ turner' \in [pc : {"sleep", "walk", "turn", "wrap"}, at : Nat \ {0}]
  BY <1>1, <1>2 DEF From
<1>4. ~Walking /\ Walking' /\ Now' = Now
  BY <1>1, <1>3 DEF Walking, Now
<1>5. WheelRange'
  BY <1>1, <1>2, <1>3 DEF WheelInv, WheelRange, Here
<1>6. PositionInv'
  <2>1. walks' = rotation * MaxWheelSize + index + 1
    BY <1>1, Position
  <2> QED BY <1>1, <1>3, <2>1 DEF PositionInv, Ahead
<1>7. FiredInv' /\ OnceInv'
  BY <1>1, TimersStay
<1>8. AddingInv'
  <2>1. \A d \in (Adding \ overtaken)' : d \in Adding \ overtaken /\ adder[d].delay # 0
    BY <1>1 DEF Adding
  <2> QED BY <1>1, <1>3, <1>4, <2>1 DEF WheelInv, AddingInv, RotationOf
<1>9. AddedInv'
  <2> SUFFICES ASSUME NEW e \in Delegates, e \notin overtaken', adder'[e].pc = "added"
               PROVE  Meant(e)' /\ (Waits(e)' \/ fired'[e] = {Target(e)'})
    BY DEF AddedInv
  <2>1. PlaceOf(e)' = PlaceOf(e) /\ Target(e)' = Target(e) /\ Meant(e)' = Meant(e)
    BY <1>1, OtherTimers
  <2>2. Meant(e) /\ (Waits(e) \/ fired[e] = {Target(e)})
    BY <1>1 DEF WheelInv, AddedInv
  <2>3. ASSUME Waits(e) PROVE Waits(e)'
    <3>1. PICK i \in DOMAIN wheel[PlaceOf(e)] :
            /\ wheel[PlaceOf(e)][i] = e
            /\ \/ Target(e) > walks
               \/ Target(e) = walks /\ turner.pc = "walk" /\ turner.at <= i
      BY <2>3 DEF Waits
    <3>2. Target(e) > walks
      BY <1>1, <3>1
    <3>3. i >= 1 /\ i \in Nat
      BY <3>1, TimerNumbers
    <3>4. CASE Target(e) = walks + 1
      <4>1. PlaceOf(e) = index
        BY <1>1, <3>4, InItsWalk, Position
      <4>2. Len(Here) >= 1
        BY <1>2, <3>1, <4>1 DEF Here
      <4> QED BY <1>1, <1>3, <2>1, <3>1, <3>3, <3>4, <4>2 DEF Waits
    <3>5. CASE Target(e) # walks + 1
      <4>1. Target(e) > walks'
        BY <1>1, <3>2, <3>5, Position, TimerNumbers
      <4> QED BY <1>1, <2>1, <3>1, <4>1 DEF Waits
    <3> QED BY <3>4, <3>5
  <2> QED BY <1>1, <2>1, <2>2, <2>3
<1> QED BY <1>5, <1>6, <1>7, <1>8, <1>9 DEF WheelInv

(* What a visit finds.                                                      *)
LEMMA Visited ==
  ASSUME WheelInv, turner.pc = "walk"
  PROVE  /\ index \in Slots /\ Here \in Seq(Delegates) /\ Len(Here) \in Nat
         /\ DOMAIN Here = 1 .. Len(Here) /\ wheel[index] = Here
         /\ turner.at \in 1 .. Len(Here) /\ Here[turner.at] \in Delegates
         /\ turner = [pc |-> "walk", at |-> turner.at]
<1>1. /\ index \in Slots /\ Here \in Seq(Delegates) /\ turner.at \in Nat \ {0}
      /\ turner.at <= Len(Here)
      /\ turner \in [pc : {"sleep", "walk", "turn", "wrap"}, at : Nat \ {0}]
  BY DEF WheelInv, WheelRange, Here
<1> QED BY <1>1 DEF Here

(* The turner goes on to a place of a slot that has n timers.               *)
LEMMA GoesOn ==
  ASSUME NEW i \in Nat \ {0}, NEW n \in Nat, turner.pc = "walk", turner' = From(i, n)
  PROVE  /\ turner' \in [pc : {"sleep", "walk", "turn", "wrap"}, at : Nat \ {0}]
         /\ turner'.pc \in {"walk", "turn"}
         /\ i <= n => turner'.pc = "walk" /\ turner'.at = i
         /\ turner'.pc = "walk" => turner'.at <= n
         /\ Ahead(turner'.pc) = Ahead(turner.pc)
         /\ Walking /\ Walking'
BY DEF From, Ahead, Walking

(* A timer of another rotation is left alone.                               *)
LEMMA PassOverInv ==
  ASSUME WheelInv, Visit, adder[Here[turner.at]].count # rotation
  PROVE  WheelInv'
<1>1. /\ turner.pc = "walk" /\ turner' = From(turner.at + 1, Len(Here))
      /\ UNCHANGED <<index, rotation, wheel, adder, walks, due, fired, overtaken>>
  BY DEF Visit, PassOver
<1>2. /\ turner.at \in 1 .. Len(Here) /\ Len(Here) \in Nat /\ wheel[index] = Here
      /\ turner.at + 1 \in Nat \ {0} /\ DOMAIN Here = 1 .. Len(Here)
  BY <1>1, Visited
<1>3. /\ turner' \in [pc : {"sleep", "walk", "turn", "wrap"}, at : Nat \ {0}]
      /\ turner'.pc \in {"walk", "turn"}
      /\ turner.at + 1 <= Len(Here) => turner'.pc = "walk" /\ turner'.at = turner.at + 1
      /\ turner'.pc = "walk" => turner'.at <= Len(Here)
      /\ Ahead(turner'.pc) = Ahead(turner.pc)
      /\ Walking /\ Walking'
  BY <1>1, <1>2, GoesOn
<1>4. WheelRange'
  BY <1>1, <1>2, <1>3 DEF WheelInv, WheelRange
<1>5. PositionInv'
  BY <1>1, <1>3 DEF WheelInv, PositionInv
<1>6. FiredInv' /\ OnceInv'
  BY <1>1, TimersStay
<1>7. AddingInv'
  <2>1. (Adding \ overtaken)' = Adding \ overtaken /\ Now' = Now
    BY <1>1, <1>3 DEF Adding, Now
  <2> QED BY <1>1, <1>3, <2>1 DEF WheelInv, AddingInv, RotationOf
<1>8. AddedInv'
  <2> SUFFICES ASSUME NEW e \in Delegates, e \notin overtaken', adder'[e].pc = "added"
               PROVE  Meant(e)' /\ (Waits(e)' \/ fired'[e] = {Target(e)'})
    BY DEF AddedInv
  <2>1. PlaceOf(e)' = PlaceOf(e) /\ Target(e)' = Target(e) /\ Meant(e)' = Meant(e)
    BY <1>1, OtherTimers
  <2>2. Meant(e) /\ (Waits(e) \/ fired[e] = {Target(e)})
    BY <1>1 DEF WheelInv, AddedInv
  <2>3. ASSUME Waits(e) PROVE Waits(e)'
    <3>1. PICK i \in DOMAIN wheel[PlaceOf(e)] :
            /\ wheel[PlaceOf(e)][i] = e
            /\ \/ Target(e) > walks
               \/ Target(e) = walks /\ turner.pc = "walk" /\ turner.at <= i
      BY <2>3 DEF Waits
    <3>2. CASE Target(e) > walks
      BY <1>1, <2>1, <3>1, <3>2 DEF Waits
    <3>3. CASE Target(e) = walks
      <4>1. Target(e) = rotation * MaxWheelSize + index + 1
        BY <1>3, <3>3, Position
      <4>2. PlaceOf(e) = index /\ adder[e].count = rotation
        BY <4>1, InItsWalk, Position
      <4>3. i \in 1 .. Len(Here) /\ Here[i] = e
        BY <1>2, <3>1, <4>2
      <4>4. i # turner.at /\ turner.at <= i
        <5>1. i # turner.at
          BY <4>2, <4>3
        <5>2. turner.at <= i
          BY <3>1, <3>3, Position
        <5> QED BY <5>1, <5>2
      <4>5. turner.at + 1 <= i /\ turner.at + 1 <= Len(Here)
        BY <1>2, <4>3, <4>4
      <4> QED BY <1>1, <1>3, <2>1, <3>1, <3>3, <4>5 DEF Waits
    <3> QED BY <3>1, <3>2, <3>3
  <2> QED BY <1>1, <2>1, <2>2, <2>3
<1> QED BY <1>4, <1>5, <1>6, <1>7, <1>8 DEF WheelInv

(* A timer of this rotation is called back in its walk and leaves the slot; *)
(* those behind it move up to where the turner is.                          *)
LEMMA CallBackInv ==
  ASSUME WheelInv, Visit, adder[Here[turner.at]].count = rotation
  PROVE  WheelInv'
<1>1. /\ turner.pc = "walk" /\ turner' = From(turner.at, Len(Here) - 1)
      /\ fired' = [fired EXCEPT ![Here[turner.at]] = @ \cup {walks}]
      /\ wheel' = [wheel EXCEPT ![index] = RemoveAt(@, turner.at)]
      /\ UNCHANGED <<index, rotation, adder, walks, due, overtaken>>
  BY DEF Visit, CallBack
<1>2. PICK d \in Delegates : d = Here[turner.at] /\ adder[d].count = rotation
  BY <1>1, Visited
<1>3. PICK at \in 1 .. Len(Here) : at = turner.at
  BY <1>1, Visited
<1>4. PICK n \in Nat : n = Len(Here) /\ at \in 1 .. n /\ n - 1 \in Nat /\ at \in Nat \ {0}
  BY <1>1, <1>3, Visited
<1>5. index \in Slots /\ wheel[index] \in Seq(Delegates) /\ Len(wheel[index]) = n
        /\ DOMAIN wheel[index] = 1 .. n /\ wheel[index][at] = d
  BY <1>1, <1>2, <1>3, <1>4, Visited
<1>6. /\ wheel' \in [Slots -> Seq(Delegates)]
      /\ \A s \in Slots : s # index => wheel'[s] = wheel[s]
      /\ Len(wheel'[index]) = n - 1 /\ DOMAIN wheel'[index] = 1 .. n - 1
      /\ \A j \in 1 .. n - 1 :
           wheel'[index][j] = IF j < at THEN wheel[index][j] ELSE wheel[index][j + 1]
  <2>1. wheel \in [Slots -> Seq(Delegates)]
    BY DEF WheelInv, WheelRange
  <2>2. wheel'[index] = RemoveAt(wheel[index], at)
    BY <1>1, <1>3, <1>5, <2>1
  <2>3. at \in 1 .. Len(wheel[index])
    BY <1>4, <1>5
  <2>4. /\ RemoveAt(wheel[index], at) \in Seq(Delegates)
        /\ Len(RemoveAt(wheel[index], at)) = Len(wheel[index]) - 1
        /\ DOMAIN RemoveAt(wheel[index], at) = 1 .. Len(wheel[index]) - 1
        /\ \A j \in 1 .. Len(wheel[index]) - 1 :
             RemoveAt(wheel[index], at)[j] =
               IF j < at THEN wheel[index][j] ELSE wheel[index][j + 1]
    BY <1>5, <2>3, Removed
  <2>5. wheel' = [wheel EXCEPT ![index] = RemoveAt(wheel[index], at)]
    BY <1>1, <1>3
  <2> QED BY <1>5, <2>1, <2>2, <2>4, <2>5
<1>7. /\ turner' \in [pc : {"sleep", "walk", "turn", "wrap"}, at : Nat \ {0}]
      /\ turner'.pc \in {"walk", "turn"}
      /\ at <= n - 1 => turner'.pc = "walk" /\ turner'.at = at
      /\ turner'.pc = "walk" => turner'.at <= n - 1
      /\ Ahead(turner'.pc) = Ahead(turner.pc)
      /\ Walking /\ Walking'
  BY <1>1, <1>3, <1>4, GoesOn
<1>8. walks = rotation * MaxWheelSize + index + 1 /\ walks \in Nat
  BY <1>7, Position
<1>9. /\ adder[d].pc = "added" /\ fired[d] = {} /\ PlaceOf(d) = index
      /\ \A j \in 1 .. n : wheel[index][j] = d => j = at
  <2>1. at \in DOMAIN wheel[index]
    BY <1>4, <1>5
  <2>2. adder[d].pc = "added" /\ fired[d] = {} /\ PlaceOf(d) = index
    BY <1>5, <2>1, InWheel
  <2>3. \A j \in DOMAIN wheel[index] : wheel[index][j] = d => j = at
    BY <1>5, <2>1, InWheel
  <2> QED BY <1>5, <2>2, <2>3
<1>10. /\ fired' \in [Delegates -> SUBSET Nat] /\ fired'[d] = {walks}
       /\ \A e \in Delegates : e # d => fired'[e] = fired[e]
  <2>1. fired \in [Delegates -> SUBSET Nat]
    BY DEF WheelInv, WheelRange
  <2>2. fired' = [fired EXCEPT ![d] = @ \cup {walks}]
    BY <1>1, <1>2
  <2> QED BY <1>8, <1>9, <2>1, <2>2
<1>11. \A e \in Delegates :
         PlaceOf(e)' = PlaceOf(e) /\ Target(e)' = Target(e) /\ Meant(e)' = Meant(e)
  BY <1>1, OtherTimers
<1>12. WheelRange'
  BY <1>1, <1>5, <1>6, <1>7, <1>10 DEF WheelInv, WheelRange
<1>13. PositionInv'
  BY <1>1, <1>7 DEF WheelInv, PositionInv
<1>14. FiredInv'
  <2> SUFFICES ASSUME NEW e \in Delegates
               PROVE  fired'[e] = {} \/ \E w \in Nat : fired'[e] = {w}
    BY DEF FiredInv
  <2>1. CASE e = d
    BY <1>8, <1>10, <2>1
  <2>2. CASE e # d
    BY <1>10, <2>2 DEF WheelInv, FiredInv
  <2> QED BY <2>1, <2>2
<1>15. AddingInv'
  <2>1. (Adding \ overtaken)' = Adding \ overtaken /\ Now' = Now
    BY <1>1, <1>7 DEF Adding, Now
  <2> QED BY <1>1, <1>7, <2>1 DEF WheelInv, AddingInv, RotationOf
<1>16. OnceInv'
  <2>1. ASSUME NEW s \in Slots, NEW i \in DOMAIN wheel'[s], NEW e \in Delegates,
               wheel'[s][i] = e
        PROVE  /\ adder'[e].pc = "added" /\ fired'[e] = {} /\ PlaceOf(e)' = s
               /\ \A j \in DOMAIN wheel'[s] : wheel'[s][j] = e => j = i
    <3>1. CASE s # index
      <4>1. wheel'[s] = wheel[s]
        BY <1>6, <3>1
      <4>2. /\ adder[e].pc = "added" /\ fired[e] = {} /\ PlaceOf(e) = s
            /\ \A j \in DOMAIN wheel[s] : wheel[s][j] = e => j = i
        <5>1. i \in DOMAIN wheel[s] /\ wheel[s][i] = e
          BY <2>1, <4>1
        <5>2. adder[e].pc = "added" /\ fired[e] = {} /\ PlaceOf(e) = s
          BY <5>1, InWheel
        <5>3. \A j \in DOMAIN wheel[s] : wheel[s][j] = e => j = i
          BY <5>1, InWheel
        <5> QED BY <5>2, <5>3
      <4>3. e # d
        BY <1>9, <3>1, <4>2
      <4> QED BY <1>1, <1>10, <1>11, <4>1, <4>2, <4>3
    <3>2. CASE s = index
      <4> DEFINE was(j) == IF j < at THEN j ELSE j + 1
      <4>1. i \in 1 .. n - 1
        BY <1>6, <3>2
      <4>2. \A j \in 1 .. n - 1 :
              was(j) \in 1 .. n /\ was(j) # at /\ wheel'[index][j] = wheel[index][was(j)]
        BY <1>4, <1>6
      <4>3. \A j \in 1 .. n - 1 : was(j) = was(i) => j = i
        BY <1>4, <4>1
      <4> HIDE DEF was
      <4>4. wheel[index][was(i)] = e /\ was(i) \in 1 .. n /\ was(i) # at
        BY <2>1, <3>2, <4>1, <4>2
      <4>5. /\ adder[e].pc = "added" /\ fired[e] = {} /\ PlaceOf(e) = index
            /\ \A j \in 1 .. n : wheel[index][j] = e => j = was(i)
        <5>1. was(i) \in DOMAIN wheel[index] /\ index \in Slots
          BY <1>5, <4>4
        <5>2. PICK k \in DOMAIN wheel[index] : k = was(i) /\ wheel[index][k] = e
          BY <4>4, <5>1
        <5>4. adder[e].pc = "added" /\ fired[e] = {} /\ PlaceOf(e) = index
          <6>1. index \in Slots
            BY <5>1
          <6>2. wheel[index][k] = e
            BY <5>2
          <6>3. adder[e].pc = "added"
            BY <6>1, <6>2, InWheel
          <6>4. fired[e] = {}
            BY <6>1, <6>2, InWheel
          <6>5. PlaceOf(e) = index
            BY <6>1, <6>2, InWheel
          <6> QED BY <6>3, <6>4, <6>5
        <5>3. \A j \in DOMAIN wheel[index] : wheel[index][j] = e => j = was(i)
          BY <4>4, <5>1, InWheel
        <5> QED BY <1>5, <5>3, <5>4
      <4>6. e # d
        BY <1>9, <4>4
      <4>7. \A j \in 1 .. n - 1 : wheel'[index][j] = e => j = i
        BY <4>2, <4>3, <4>5
      <4> QED BY <1>1, <1>6, <1>10, <1>11, <3>2, <4>5, <4>6, <4>7
    <3> QED BY <3>1, <3>2
  <2>2. \A e \in Delegates : adder'[e].pc # "added" => fired'[e] = {}
    BY <1>1, <1>9, <1>10 DEF WheelInv, OnceInv
  <2> QED BY <2>1, <2>2 DEF OnceInv
<1>17. AddedInv'
  <2> SUFFICES ASSUME NEW e \in Delegates, e \notin overtaken', adder'[e].pc = "added"
               PROVE  Meant(e)' /\ (Waits(e)' \/ fired'[e] = {Target(e)'})
    BY DEF AddedInv
  <2>1. Meant(e) /\ (Waits(e) \/ fired[e] = {Target(e)})
    BY <1>1 DEF WheelInv, AddedInv
  <2>2. CASE e = d
    <3>1. Target(d) = walks
      BY <1>2, <1>8, <1>9 DEF Target
    <3> QED BY <1>10, <1>11, <2>1, <2>2, <3>1
  <2>3. ASSUME Waits(e), e # d PROVE Waits(e)'
    <3>1. PICK i \in DOMAIN wheel[PlaceOf(e)] :
            /\ wheel[PlaceOf(e)][i] = e
            /\ \/ Target(e) > walks
               \/ Target(e) = walks /\ turner.pc = "walk" /\ turner.at <= i
      BY <2>3 DEF Waits
    <3>2. CASE PlaceOf(e) # index
      <4>1. Target(e) # walks
        BY <1>8, <3>2, InItsWalk, Position
      <4>2. wheel'[PlaceOf(e)] = wheel[PlaceOf(e)]
        BY <1>6, <3>2, TimerNumbers
      <4> QED BY <1>1, <1>11, <3>1, <4>1, <4>2 DEF Waits
    <3>3. CASE PlaceOf(e) = index
      <4>1. i \in 1 .. n /\ i # at
        BY <1>5, <2>3, <3>1, <3>3
      <4>2. PICK j \in 1 .. n - 1 : /\ wheel'[index][j] = e
                                    /\ i > at => j = i - 1
        <5>1. CASE i < at
          BY <1>4, <1>6, <3>1, <3>3, <4>1, <5>1
        <5>2. CASE i > at
          <6>1. i - 1 \in 1 .. n - 1 /\ ~(i - 1 < at) /\ (i - 1) + 1 = i
            BY <1>4, <4>1, <5>2
          <6> QED BY <1>6, <3>1, <3>3, <6>1
        <5> QED BY <1>4, <4>1, <5>1, <5>2
      <4>3. j \in DOMAIN wheel'[PlaceOf(e)] /\ wheel'[PlaceOf(e)][j] = e
        BY <1>6, <3>3, <4>2
      <4>4. CASE Target(e) > walks
        BY <1>1, <1>11, <4>3, <4>4 DEF Waits
      <4>5. CASE Target(e) = walks
        <5>1. at <= i
          BY <1>3, <3>1, <4>5, Position
        <5>2. i > at /\ j = i - 1
          BY <1>4, <4>1, <4>2, <5>1
        <5>3. at <= j /\ at <= n - 1
          BY <1>4, <4>1, <4>2, <5>2
        <5>4. turner'.pc = "walk" /\ turner'.at <= j
          BY <1>7, <5>3
        <5> QED BY <1>1, <1>11, <4>3, <4>5, <5>4 DEF Waits
      <4> QED BY <3>1, <4>4, <4>5
    <3> QED BY <3>2, <3>3
  <2> QED BY <1>10, <1>11, <2>1, <2>2, <2>3
<1> QED BY <1>12, <1>13, <1>14, <1>15, <1>16, <1>17 DEF WheelInv

(* The index moves on when no timer of the walk waits any more.             *)
LEMMA TurnInv ==
  ASSUME WheelInv, Turn
  PROVE  WheelInv'
<1>1. /\ turner.pc = "turn" /\ index' = (index + 1) % MaxWheelSize
      /\ turner' = [turner EXCEPT !.pc = IF index + 1 >= MaxWheelSize THEN "wrap"
                                         ELSE "sleep"]
      /\ overtaken' = overtaken \cup Adding
      /\ UNCHANGED <<rotation, wheel, adder, walks, due, fired>>
  BY DEF Turn
<1>2. turner'.pc = IF index + 1 >= MaxWheelSize THEN "wrap" ELSE "sleep"
  BY <1>1 DEF WheelInv, WheelRange
<1>3. index' = IF index + 1 >= MaxWheelSize THEN 0 ELSE index + 1
  <2>1. CASE index + 1 >= MaxWheelSize
    <3>1. index + 1 = MaxWheelSize
      BY <2>1, Position
    <3>2. MaxWheelSize % MaxWheelSize = 0
      BY WheelAssumption
    <3> QED BY <1>1, <2>1, <3>1, <3>2
  <2>2. CASE ~(index + 1 >= MaxWheelSize)
    <3>1. index + 1 \in Nat /\ index + 1 < MaxWheelSize
      BY <2>2, Position
    <3> QED BY <1>1, <2>2, <3>1, Division
  <2> QED BY <2>1, <2>2
<1>4. WheelRange'
  <2>1. index' \in Slots
    BY <1>3, Position DEF Slots
  <2> QED BY <1>1, <1>2, <2>1 DEF WheelInv, WheelRange
<1>5. PositionInv'
  <2>1. walks = rotation * MaxWheelSize + index + 1
    BY <1>1, Position DEF Walking
  <2>2. walks = rotation * MaxWheelSize + index' + Ahead(turner'.pc)
    BY <1>2, <1>3, <2>1, Position DEF Ahead
  <2> QED BY <1>1, <2>2 DEF PositionInv
<1>6. FiredInv' /\ OnceInv'
  BY <1>1, TimersStay
<1>7. AddingInv'
  BY <1>1 DEF AddingInv, Adding
<1>8. AddedInv'
  <2> SUFFICES ASSUME NEW e \in Delegates, e \notin overtaken', adder'[e].pc = "added"
               PROVE  Meant(e)' /\ (Waits(e)' \/ fired'[e] = {Target(e)'})
    BY DEF AddedInv
  <2>1. PlaceOf(e)' = PlaceOf(e) /\ Target(e)' = Target(e) /\ Meant(e)' = Meant(e)
    BY <1>1, OtherTimers
  <2>2. Meant(e) /\ (Waits(e) \/ fired[e] = {Target(e)})
    BY <1>1 DEF WheelInv, AddedInv
  <2>3. Waits(e) => Waits(e)'
    BY <1>1, <2>1 DEF Waits
  <2> QED BY <1>1, <2>1, <2>2, <2>3
<1> QED BY <1>4, <1>5, <1>6, <1>7, <1>8 DEF WheelInv

(* The rotation count follows the index.                                    *)
LEMMA WrapInv ==
  ASSUME WheelInv, Wrap
  PROVE  WheelInv'
<1>1. /\ turner.pc = "wrap" /\ rotation' = rotation + 1
      /\ turner' = [turner EXCEPT !.pc = "sleep"]
      /\ overtaken' = overtaken \cup Adding
      /\ UNCHANGED <<index, wheel, adder, walks, due, fired>>
  BY DEF Wrap
<1>2. turner'.pc = "sleep"
  BY <1>1 DEF WheelInv, WheelRange
<1>3. WheelRange'
  <2>1. rotation' \in Nat
    BY <1>1, Position
  <2>2. turner' \in [pc : {"sleep", "walk", "turn", "wrap"}, at : Nat \ {0}]
    BY <1>1 DEF WheelInv, WheelRange
  <2> QED BY <1>1, <1>2, <2>1, <2>2 DEF WheelInv, WheelRange
<1>4. PositionInv'
  <2>1. walks = (rotation + 1) * MaxWheelSize + index + 0
    BY <1>1, Position
  <2> QED BY <1>1, <1>2, <2>1 DEF PositionInv, Ahead
<1>5. FiredInv' /\ OnceInv'
  BY <1>1, TimersStay
<1>6. AddingInv'
  BY <1>1 DEF AddingInv, Adding
<1>7. AddedInv'
  <2> SUFFICES ASSUME NEW e \in Delegates, e \notin overtaken', adder'[e].pc = "added"
               PROVE  Meant(e)' /\ (Waits(e)' \/ fired'[e] = {Target(e)'})
    BY DEF AddedInv
  <2>1. PlaceOf(e)' = PlaceOf(e) /\ Target(e)' = Target(e) /\ Meant(e)' = Meant(e)
    BY <1>1, OtherTimers
  <2>2. Meant(e) /\ (Waits(e) \/ fired[e] = {Target(e)})
    BY <1>1 DEF WheelInv, AddedInv
  <2>3. Waits(e) => Waits(e)'
    BY <1>1, <2>1 DEF Waits
  <2> QED BY <1>1, <2>1, <2>2, <2>3
<1> QED BY <1>3, <1>4, <1>5, <1>6, <1>7 DEF WheelInv

LEMMA WheelStays ==
  ASSUME WheelInv, UNCHANGED <<index, rotation, wheel, turner, adder, walks, due,
                               fired, overtaken>>
  PROVE  WheelInv'
<1>1. WheelRange' /\ PositionInv'
  BY DEF WheelInv, WheelRange, PositionInv
<1>2. FiredInv' /\ OnceInv'
  BY TimersStay
<1>3. AddingInv'
  <2>1. Adding' = Adding /\ Walking' = Walking /\ Now' = Now
    BY DEF Adding, Walking, Now
  <2> QED BY <2>1 DEF WheelInv, AddingInv, RotationOf
<1>4. AddedInv'
  <2> SUFFICES ASSUME NEW e \in Delegates, e \notin overtaken', adder'[e].pc = "added"
               PROVE  Meant(e)' /\ (Waits(e)' \/ fired'[e] = {Target(e)'})
    BY DEF AddedInv
  <2>1. PlaceOf(e)' = PlaceOf(e) /\ Target(e)' = Target(e) /\ Meant(e)' = Meant(e)
    BY OtherTimers
  <2> QED BY <2>1 DEF WheelInv, AddedInv, Waits
<1> QED BY <1>1, <1>2, <1>3, <1>4 DEF WheelInv

(* The invariant holds in every state.                                      *)
THEOREM WheelInvariant == WheelSpec => []WheelInv
<1>1. WheelInv /\ [WheelNext]_wheelVars => WheelInv'
  <2> SUFFICES ASSUME WheelInv, [WheelNext]_wheelVars PROVE WheelInv'
    OBVIOUS
  <2>1. CASE \E d \in Delegates : ReadIndex(d) \/ ReadRotation(d) \/ PushBack(d)
    BY <2>1, ReadIndexInv, ReadRotationInv, PushBackInv
  <2>2. CASE Elapse \/ Turn \/ Wrap
    BY <2>2, ElapseInv, TurnInv, WrapInv
  <2>3. CASE Visit
    BY <2>3, PassOverInv, CallBackInv
  <2>4. CASE StopWheel
    BY <2>4, WheelStays DEF StopWheel
  <2>5. CASE UNCHANGED wheelVars
    BY <2>5, WheelStays DEF wheelVars
  <2> QED BY <2>1, <2>2, <2>3, <2>4, <2>5 DEF WheelNext
<1> QED BY WheelInitInv, <1>1, PTL DEF WheelSpec

(* Every timer the wheel did not move under while it was added is called    *)
(* back once, in the walk it was asked for, or whole turns too soon when    *)
(* its delay ends after the next turn: for any number of timers, slots and  *)
(* turns, and any delays (TimingWheel.hpp:69-89, 101-108).                  *)
THEOREM TimersAreOnTime == WheelSpec => []OnTime
<1>1. WheelInv => OnTime
  <2> SUFFICES ASSUME WheelInv, NEW d \in Delegates
               PROVE  /\ \A v, w \in fired[d] : v = w
                      /\ adder[d].pc = "added" /\ d \notin overtaken =>
                           /\ \A w \in fired[d] :
                                w = due[d] \/ (~Near(d) /\ \E k \in 1 .. due[d] :
                                                 w + k * MaxWheelSize = due[d])
                           /\ Past(d) => fired[d] # {}
    BY DEF OnTime
  <2>1. \A v, w \in fired[d] : v = w
    BY DEF WheelInv, FiredInv
  <2>2. ASSUME adder[d].pc = "added", d \notin overtaken
        PROVE  /\ \A w \in fired[d] :
                    w = due[d] \/ (~Near(d) /\ \E k \in 1 .. due[d] :
                                     w + k * MaxWheelSize = due[d])
               /\ Past(d) => fired[d] # {}
    <3>1. Meant(d) /\ (Waits(d) \/ fired[d] = {Target(d)})
      BY <2>2 DEF WheelInv, AddedInv
    <3>2. CASE fired[d] = {Target(d)}
      BY <3>1, <3>2 DEF Meant
    <3>3. CASE Waits(d)
      <4>1. PICK i \in DOMAIN wheel[PlaceOf(d)] :
              /\ wheel[PlaceOf(d)][i] = d
              /\ \/ Target(d) > walks
                 \/ Target(d) = walks /\ turner.pc = "walk" /\ turner.at <= i
        BY <3>3 DEF Waits
      <4>2. fired[d] = {}
        BY <4>1, InWheel, TimerNumbers
      <4>3. due[d] >= Target(d)
        <5>1. Target(d) \in Nat /\ MaxWheelSize \in Nat
          BY TimerNumbers, WheelAssumption
        <5>2. CASE Near(d)
          BY <3>1, <5>1, <5>2 DEF Meant
        <5>3. CASE ~Near(d)
          <6>1. PICK k \in 1 .. due[d] : Target(d) + k * MaxWheelSize = due[d]
            BY <3>1, <5>3 DEF Meant
          <6>2. k * MaxWheelSize \in Nat
            BY <5>1, TimerNumbers
          <6> QED BY <5>1, <6>1, <6>2
        <5> QED BY <5>2, <5>3
      <4>4. ~Past(d)
        <5>1. walks \in Nat /\ due[d] \in Nat /\ Target(d) \in Nat
          BY Position, TimerNumbers
        <5>2. due[d] >= walks /\ (due[d] = walks => Walking)
          BY <4>1, <4>3, <5>1 DEF Walking
        <5> QED BY <5>1, <5>2 DEF Past
      <4> QED BY <4>2, <4>4
    <3> QED BY <3>1, <3>2, <3>3
  <2> QED BY <2>1, <2>2
<1> QED BY WheelInvariant, <1>1, PTL
=============================================================================
