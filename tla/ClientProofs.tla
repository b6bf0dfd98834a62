----------------------------- MODULE ClientProofs -----------------------------
(* Theorems about the two clients: the watchdog's lists, for any            *)
(* configuration and any number of processes, and the numbers of the        *)
(* network model's client it is built on, for any number of packets and     *)
(* sends and any width of the numbers.                                      *)
EXTENDS WatchDog, EventSelect, TLAPS

-----------------------------------------------------------------------------
(* WatchDog.                                                                *)

Entries == [program : UNION Programs, process : Nat]

(* What a worker that edits the lists has in its hands.                     *)
Editing == worker.pc \in {"dump", "restart", "close", "erase"}

WorkerPlaces ==
  {"none", "test", "wait", "lock", "dump", "restart", "close", "erase", "drop", "ended"}

MainPlaces ==
  {"setup", "exited", "run", "looking", "keys", "join", "stopSending", "notify",
   "joinSender", "destroyed"}

RangeInv ==
  /\ config \subseteq UNION Programs
  /\ main \in MainPlaces
  /\ worker \in [pc : WorkerPlaces, index : Nat]
  /\ list \in Seq(Entries) /\ handles \in Seq(Nat)
  /\ created \in 0 .. Len(Numbers)
  /\ main \in {"setup", "exited"} => worker.pc = "none"

LockInv ==
  /\ lock = Free \/ (lock.owner \in {"main", "worker"} /\ lock.depth = 1)
  /\ Editing <=> lock.owner = "worker"
  /\ main = "looking" <=> lock.owner = "main"

(* The numbers given so far.                                                *)
Given == {Numbers[k] : k \in 1 .. created}

(* Each process is in a list once.                                          *)
Once(s) ==
  /\ \A i \in DOMAIN s : s[i] \in Given
  /\ \A i, j \in DOMAIN s : s[i] = s[j] => i = j

ProcessesOf(l) == [i \in DOMAIN l |-> l[i].process]

OnceInv == Once(handles) /\ (worker.pc = "none" => Once(ProcessesOf(list)))

(* The lists agree, but for the entry that is being edited.                 *)
AgreeInv ==
  /\ worker.pc \in {"test", "wait", "lock", "dump", "restart", "ended"} =>
       handles = ProcessesOf(list)
  /\ worker.pc \in {"close", "erase"} =>
       /\ Len(handles) = Len(list)
       /\ \A i \in DOMAIN list : i # worker.index => handles[i] = list[i].process
  /\ worker.pc = "drop" => RemoveAt(handles, worker.index) = ProcessesOf(list)
  /\ worker.pc \in {"lock", "dump", "restart", "close", "erase", "drop"} =>
       worker.index \in DOMAIN handles

(* The handles in the list are open, but for the one that is to be erased.  *)
OpenInv ==
  \A i \in DOMAIN list :
    list[i].process \in open \/ (worker.pc = "erase" /\ i = worker.index)

IInv == RangeInv /\ LockInv /\ OnceInv /\ AgreeInv /\ OpenInv

(* What RemoveAt leaves.                                                    *)
LEMMA Removed ==
  ASSUME NEW S, NEW s \in Seq(S), NEW i \in 1 .. Len(s)
  PROVE  /\ RemoveAt(s, i) \in Seq(S)
         /\ Len(RemoveAt(s, i)) = Len(s) - 1
         /\ DOMAIN RemoveAt(s, i) = 1 .. Len(s) - 1
         /\ \A j \in 1 .. Len(s) - 1 :
              RemoveAt(s, i)[j] = IF j < i THEN s[j] ELSE s[j + 1]
<1> DEFINE a == SubSeq(s, 1, i - 1)
           b == SubSeq(s, i + 1, Len(s))
<1>1. /\ a \in Seq(S) /\ Len(a) = i - 1
      /\ \A j \in 1 .. i - 1 : a[j] = s[j]
  OBVIOUS
<1>2. /\ b \in Seq(S) /\ Len(b) = Len(s) - i
      /\ \A j \in 1 .. Len(s) - i : b[j] = s[i + j]
  OBVIOUS
<1>3. RemoveAt(s, i) = a \o b
  BY DEF RemoveAt
<1> HIDE DEF a, b
<1>4. /\ a \o b \in Seq(S) /\ Len(a \o b) = Len(s) - 1
      /\ DOMAIN (a \o b) = 1 .. Len(s) - 1
  <2>0. a \in Seq(S) /\ b \in Seq(S)
    BY <1>1, <1>2
  <2>1. a \o b \in Seq(S)
    BY <2>0
  <2>2. Len(a \o b) = Len(a) + Len(b)
    BY <2>0
  <2>3. Len(a) + Len(b) = Len(s) - 1
    BY <1>1, <1>2
  <2> QED BY <2>1, <2>2, <2>3
<1>5. ASSUME NEW j \in 1 .. Len(s) - 1
      PROVE  (a \o b)[j] = IF j < i THEN s[j] ELSE s[j + 1]
  <2>1. CASE j < i
    BY <1>1, <1>2, <2>1
  <2>2. CASE ~(j < i)
    <3>1. (a \o b)[j] = b[j - (i - 1)]
      BY <1>1, <1>2, <2>2
    <3>2. j - (i - 1) \in 1 .. Len(s) - i /\ i + (j - (i - 1)) = j + 1
      BY <2>2
    <3> QED BY <1>2, <2>2, <3>1, <3>2
  <2> QED BY <2>1, <2>2
<1> QED BY <1>1, <1>2, <1>3, <1>4, <1>5

(* What Append adds.                                                        *)
LEMMA Appended ==
  ASSUME NEW S, NEW s \in Seq(S), NEW e \in S
  PROVE  /\ Append(s, e) \in Seq(S)
         /\ Len(Append(s, e)) = Len(s) + 1
         /\ DOMAIN Append(s, e) = 1 .. Len(s) + 1
         /\ \A i \in 1 .. Len(s) : Append(s, e)[i] = s[i]
         /\ Append(s, e)[Len(s) + 1] = e
OBVIOUS

(* A new process is none of those before.                                   *)
LEMMA NewIsNew ==
  ASSUME RangeInv, CanCreate
  PROVE  /\ NewProcess \in Nat /\ NewProcess \notin Given
         /\ created + 1 \in 0 .. Len(Numbers)
         /\ {Numbers[k] : k \in 1 .. created + 1} = Given \cup {NewProcess}
<1>1. Len(Numbers) \in Nat /\ created \in Nat /\ created + 1 \in 1 .. Len(Numbers)
  BY NumbersAssumption DEF RangeInv, CanCreate
<1>2. NewProcess \in Nat
  BY <1>1, NumbersAssumption DEF NewProcess
<1>3. NewProcess \notin Given
  <2> SUFFICES ASSUME NEW k \in 1 .. created, Numbers[k] = NewProcess PROVE FALSE
    BY DEF Given
  <2>1. k = created + 1
    BY <1>1, NumbersAssumption DEF NewProcess
  <2> QED BY <1>1, <2>1
<1>4. 1 .. created + 1 = 1 .. created \cup {created + 1}
  BY <1>1
<1> QED BY <1>1, <1>2, <1>3, <1>4 DEF Given, NewProcess

LEMMA InitInv == Init => IInv
<1> SUFFICES ASSUME Init PROVE IInv
  OBVIOUS
<1> USE DEF Init
<1>1. RangeInv
  BY NumbersAssumption DEF RangeInv, MainPlaces, WorkerPlaces
<1>2. LockInv
  BY OwnerAssumption DEF LockInv, Editing, Free
<1>3. OnceInv /\ AgreeInv /\ OpenInv
  BY DEF OnceInv, Once, ProcessesOf, AgreeInv, OpenInv
<1> QED BY <1>1, <1>2, <1>3 DEF IInv

(* The lists and the processes are let alone.                               *)
listVars == <<config, list, handles, open, created>>

(* A step that lets the lists alone, and the worker, keeps all but the lock. *)
LEMMA ListsAlone ==
  ASSUME IInv, UNCHANGED listVars, worker' = worker, main' \in MainPlaces,
         main' \in {"setup", "exited"} => main \in {"setup", "exited"}, LockInv'
  PROVE  IInv'
<1> USE DEF listVars
<1>1. RangeInv'
  BY DEF IInv, RangeInv
<1>2. Given' = Given
  BY DEF Given
<1>3. OnceInv' /\ AgreeInv' /\ OpenInv'
  BY <1>2 DEF IInv, OnceInv, Once, ProcessesOf, AgreeInv, OpenInv
<1> QED BY <1>1, <1>3 DEF IInv

(* The steps of the main thread after Initialize, of the sender and of the  *)
(* processes.                                                               *)
LEMMA OthersInv ==
  ASSUME IInv,
         MainStep \/ Exit \/ Sends \/ (\E i \in DOMAIN Numbers : ProcessEnds(Numbers[i]))
           \/ UNCHANGED vars
  PROVE  IInv'
<1>1. CASE LookAtChildren
  <2>1. LockInv'
    BY <1>1, OwnerAssumption
    DEF LookAtChildren, Main, IInv, LockInv, CanEnter, Entered, Free, Editing
  <2> QED BY <1>1, <2>1, ListsAlone DEF LookAtChildren, Main, listVars, MainPlaces
<1>2. CASE LookedAtChildren
  <2>1. LockInv'
    BY <1>2, OwnerAssumption
    DEF LookedAtChildren, Main, IInv, LockInv, Left, Free, Editing
  <2> QED BY <1>2, <2>1, ListsAlone DEF LookedAtChildren, Main, listVars, MainPlaces
<1>3. CASE Keys \/ JoinWorker \/ DestroyDump
  <2>1. LockInv'
    BY <1>3 DEF Keys, JoinWorker, DestroyDump, Main, IInv, LockInv, Editing
  <2> QED BY <1>3, <2>1, ListsAlone
          DEF Keys, JoinWorker, DestroyDump, Main, listVars, MainPlaces
<1>4. CASE Exit
  <2>1. LockInv'
    BY <1>4 DEF Exit, IInv, LockInv, Editing
  <2> QED BY <1>4, <2>1, ListsAlone DEF Exit, listVars, MainPlaces
<1>5. CASE \/ Sends \/ UNCHANGED vars
           \/ \E i \in DOMAIN Numbers : ProcessEnds(Numbers[i])
  <2>1. UNCHANGED <<main, worker, lock, listVars>>
    BY <1>5 DEF Sends, vars, watchVars, ProcessEnds, listVars
  <2>2. LockInv'
    BY <2>1 DEF IInv, LockInv, Editing
  <2> QED BY <2>1, <2>2, ListsAlone DEF IInv, RangeInv
<1> QED BY <1>1, <1>2, <1>3, <1>4, <1>5 DEF MainStep

(* The configuration's programs are started one after another.              *)
LEMMA SetupInv ==
  ASSUME IInv, SetupConfig
  PROVE  IInv'
<1> USE DEF SetupConfig
<1>1. PICK prog \in config :
        /\ config' = config \ {prog} /\ created' = created + 1
        /\ open' = open \cup {NewProcess}
        /\ list' = Append(list, [program |-> prog, process |-> NewProcess])
  BY DEF Created
<1>2. /\ NewProcess \in Nat /\ NewProcess \notin Given
      /\ created' \in 0 .. Len(Numbers) /\ Given' = Given \cup {NewProcess}
  BY <1>1, NewIsNew DEF IInv, Given
<1>3. [program |-> prog, process |-> NewProcess] \in Entries /\ list \in Seq(Entries)
  BY <1>2 DEF IInv, RangeInv, Entries
<1>4. /\ list' \in Seq(Entries) /\ Len(list') = Len(list) + 1
      /\ DOMAIN list' = 1 .. Len(list) + 1 /\ DOMAIN list = 1 .. Len(list)
      /\ \A i \in DOMAIN list : list'[i] = list[i]
      /\ list'[Len(list) + 1].process = NewProcess
      /\ Len(list) \in Nat
  BY <1>1, <1>3
<1>5. worker.pc = "none" /\ worker' = worker
  BY DEF IInv, RangeInv
<1>6. RangeInv'
  BY <1>1, <1>2, <1>4 DEF IInv, RangeInv
<1>7. LockInv'
  BY DEF IInv, LockInv, Editing
<1>8. Once(ProcessesOf(list))'
  <2>1. \A i \in DOMAIN list : list[i].process \in Given
    BY <1>5 DEF IInv, OnceInv, Once, ProcessesOf
  <2>2. \A i, j \in DOMAIN list : list[i].process = list[j].process => i = j
    BY <1>5 DEF IInv, OnceInv, Once, ProcessesOf
  <2>3. \A i \in DOMAIN list' : list'[i].process \in Given'
    BY <1>2, <1>4, <2>1
  <2>4. \A i, j \in DOMAIN list' : list'[i].process = list'[j].process => i = j
    BY <1>2, <1>4, <2>1, <2>2
  <2> QED BY <2>3, <2>4 DEF Once, ProcessesOf
<1>9. OnceInv'
  BY <1>2, <1>8 DEF IInv, OnceInv, Once
<1>10. AgreeInv' /\ OpenInv'
  BY <1>1, <1>4, <1>5 DEF IInv, AgreeInv, OpenInv
<1> QED BY <1>6, <1>7, <1>9, <1>10 DEF IInv

(* The worker begins with a copy of the list's handles.                     *)
LEMMA InitializeInv ==
  ASSUME IInv, Initialize
  PROVE  IInv'
<1> USE DEF Initialize
<1>1. CASE worker' = [worker EXCEPT !.pc = "test"] /\ handles' = ProcessesOf(list)
  <2>1. worker'.pc = "test" /\ worker' \in [pc : WorkerPlaces, index : Nat]
    BY <1>1 DEF IInv, RangeInv, WorkerPlaces
  <2>2. handles' \in Seq(Nat)
    <3>1. list \in Seq(Entries)
      BY DEF IInv, RangeInv
    <3>2. \A i \in DOMAIN list : list[i].process \in Nat
      <4>1. \A i \in DOMAIN list : list[i] \in Entries
        BY <3>1
      <4> QED BY <4>1 DEF Entries
    <3>3. DOMAIN list = 1 .. Len(list) /\ Len(list) \in Nat
      BY <3>1
    <3> QED BY <1>1, <3>2, <3>3 DEF ProcessesOf
  <2>3. RangeInv'
    BY <2>1, <2>2 DEF IInv, RangeInv, MainPlaces
  <2>4. LockInv'
    BY <2>1 DEF IInv, RangeInv, LockInv, Editing
  <2>5. OnceInv'
    BY <1>1, <2>1 DEF IInv, RangeInv, OnceInv, Once, Given
  <2>6. AgreeInv' /\ OpenInv'
    BY <1>1, <2>1 DEF IInv, RangeInv, AgreeInv, OpenInv, ProcessesOf
  <2> QED BY <2>3, <2>4, <2>5, <2>6 DEF IInv
<1>2. CASE UNCHANGED <<worker, handles>>
  <2>1. LockInv'
    BY <1>2 DEF IInv, LockInv, Editing
  <2> QED BY <1>2, <2>1, ListsAlone DEF listVars, MainPlaces
<1> QED BY <1>1, <1>2 DEF ProcessesOf

-----------------------------------------------------------------------------
(* The places of the worker from one wait to the next.                      *)

(* It tests and waits, takes the lock and reports: the lists stay.          *)
LEMMA WatchInv ==
  ASSUME IInv, WorkerTest \/ ChildEnded \/ GiveUp \/ LockList \/ ReportEnd
  PROVE  IInv'
<1> USE DEF WorkerTest, ChildEnded, GiveUp, LockList, ReportEnd, Worker, others
<1>1. UNCHANGED <<listVars, main>>
  BY DEF listVars
<1>2. worker' \in [pc : WorkerPlaces, index : Nat] /\ worker.pc # "none"
        /\ worker'.pc \in {"test", "wait", "lock", "dump", "restart", "ended"}
  BY DEF IInv, RangeInv, WorkerPlaces
<1>3. RangeInv'
  BY <1>1, <1>2 DEF IInv, RangeInv, listVars
<1>4. LockInv'
  <2>1. CASE LockList
    BY <2>1, OwnerAssumption
    DEF IInv, RangeInv, LockInv, Editing, CanEnter, Entered, Free
  <2>2. CASE WorkerTest \/ ChildEnded \/ GiveUp \/ ReportEnd
    BY <2>2 DEF IInv, RangeInv, LockInv, Editing
  <2> QED BY <2>1, <2>2
<1>5. handles = ProcessesOf(list)
  BY DEF IInv, AgreeInv
<1>6. worker'.pc \in {"lock", "dump", "restart"} => worker'.index \in DOMAIN handles
  BY DEF IInv, RangeInv, AgreeInv
<1>7. OnceInv'
  BY <1>1, <1>2 DEF IInv, OnceInv, Once, Given, listVars
<1>8. AgreeInv' /\ OpenInv'
  BY <1>1, <1>2, <1>5, <1>6 DEF IInv, AgreeInv, OpenInv, listVars, ProcessesOf
<1> QED BY <1>3, <1>4, <1>7, <1>8 DEF IInv

(* Both lists have one entry more at the end; the one that is to be removed *)
(* is the only one in which they differ.                                    *)
LEMMA RestartInv ==
  ASSUME IInv, Restart
  PROVE  IInv'
<1> USE DEF Restart, Worker, others
<1> DEFINE k == worker.index
           new == [Child EXCEPT !.process = NewProcess]
           edited == [list EXCEPT ![k] = new]
<1>1. /\ NewProcess \in Nat /\ NewProcess \notin Given
      /\ created' \in 0 .. Len(Numbers) /\ Given' = Given \cup {NewProcess}
      /\ open' = open \cup {NewProcess} /\ created' = created + 1
  BY NewIsNew DEF IInv, Given, Created
<1>2. /\ list \in Seq(Entries) /\ handles \in Seq(Nat)
      /\ handles = ProcessesOf(list) /\ k \in DOMAIN handles
  BY DEF IInv, RangeInv, AgreeInv
<1>3. /\ DOMAIN list = 1 .. Len(list) /\ Len(list) \in Nat
      /\ Len(handles) = Len(list) /\ k \in 1 .. Len(list)
      /\ \A i \in 1 .. Len(list) : handles[i] = list[i].process
  BY <1>2 DEF ProcessesOf
<1>4. new \in Entries /\ new.process = NewProcess
  <2>1. list[k] \in Entries
    BY <1>2, <1>3
  <2> QED BY <1>1, <2>1 DEF Child, Entries
<1>5. /\ edited \in Seq(Entries) /\ Len(edited) = Len(list)
      /\ edited[k] = new
      /\ \A i \in 1 .. Len(list) : i # k => edited[i] = list[i]
  BY <1>2, <1>3, <1>4
<1>6. list' = Append(edited, new) /\ handles' = Append(handles, NewProcess)
  OBVIOUS
<1> HIDE DEF new, edited
<1>7. /\ list' \in Seq(Entries) /\ Len(list') = Len(list) + 1
      /\ DOMAIN list' = 1 .. Len(list) + 1
      /\ \A i \in 1 .. Len(list) : list'[i] = edited[i]
      /\ list'[Len(list) + 1] = new
  <2>1. edited \in Seq(Entries) /\ Len(edited) = Len(list)
    BY <1>5
  <2>2. /\ Append(edited, new) \in Seq(Entries)
        /\ Len(Append(edited, new)) = Len(edited) + 1
        /\ DOMAIN Append(edited, new) = 1 .. Len(edited) + 1
        /\ \A i \in 1 .. Len(edited) : Append(edited, new)[i] = edited[i]
        /\ Append(edited, new)[Len(edited) + 1] = new
    BY <1>4, <2>1, Appended
  <2> QED BY <1>6, <2>1, <2>2
<1>8. /\ handles' \in Seq(Nat) /\ Len(handles') = Len(list) + 1
      /\ DOMAIN handles' = 1 .. Len(list) + 1
      /\ \A i \in 1 .. Len(list) : handles'[i] = handles[i]
      /\ handles'[Len(list) + 1] = NewProcess
  BY <1>1, <1>2, <1>3, <1>6
<1>9. worker' \in [pc : WorkerPlaces, index : Nat] /\ worker'.pc = "close"
        /\ worker'.index = k
  BY DEF IInv, RangeInv, WorkerPlaces
<1>10. RangeInv'
  BY <1>1, <1>7, <1>8, <1>9 DEF IInv, RangeInv
<1>11. LockInv'
  BY <1>9 DEF IInv, LockInv, Editing
<1>12. OnceInv'
  <2>1. /\ \A i \in 1 .. Len(list) : handles[i] \in Given
        /\ \A i, j \in 1 .. Len(list) : handles[i] = handles[j] => i = j
    BY <1>2, <1>3 DEF IInv, OnceInv, Once
  <2>2. \A i \in DOMAIN handles' : handles'[i] \in Given'
    BY <1>1, <1>3, <1>8, <2>1
  <2>3. \A i, j \in DOMAIN handles' : handles'[i] = handles'[j] => i = j
    BY <1>1, <1>3, <1>8, <2>1
  <2> QED BY <1>9, <2>2, <2>3 DEF OnceInv, Once
<1>13. AgreeInv'
  <2>1. \A i \in DOMAIN list' : i # k => handles'[i] = list'[i].process
    BY <1>3, <1>4, <1>5, <1>7, <1>8
  <2> QED BY <1>3, <1>7, <1>8, <1>9, <2>1 DEF AgreeInv
<1>14. OpenInv'
  <2>1. \A i \in 1 .. Len(list) : list[i].process \in open
    BY <1>3 DEF IInv, OpenInv
  <2>2. \A i \in 1 .. Len(list) : list'[i].process \in open'
    BY <1>1, <1>3, <1>4, <1>5, <1>7, <2>1
  <2> QED BY <1>1, <1>3, <1>4, <1>7, <2>2 DEF OpenInv
<1> QED BY <1>10, <1>11, <1>12, <1>13, <1>14 DEF IInv

(* A process may be started all the same; the lists stay.                   *)
LEMMA NoRestartInv ==
  ASSUME IInv, NoRestart
  PROVE  IInv'
<1> USE DEF NoRestart, Worker, others
<1>1. \/ created' = created /\ open' = open
      \/ CanCreate /\ created' = created + 1 /\ open' = open \cup {NewProcess}
  BY DEF Created
<1>2. created' \in 0 .. Len(Numbers) /\ Given \subseteq Given' /\ open \subseteq open'
  BY <1>1, NewIsNew DEF IInv, RangeInv, Given
<1>3. worker' \in [pc : WorkerPlaces, index : Nat] /\ worker'.pc = "close"
        /\ worker'.index = worker.index
  BY DEF IInv, RangeInv, WorkerPlaces
<1>4. RangeInv' /\ LockInv'
  BY <1>2, <1>3 DEF IInv, RangeInv, LockInv, Editing
<1>5. OnceInv'
  BY <1>2, <1>3 DEF IInv, OnceInv, Once
<1>6. AgreeInv'
  <2>1. /\ list \in Seq(Entries) /\ handles = ProcessesOf(list)
        /\ handles \in Seq(Nat) /\ worker.index \in DOMAIN handles
    BY DEF IInv, RangeInv, AgreeInv
  <2>2. Len(handles) = Len(list) /\ \A i \in DOMAIN list : handles[i] = list[i].process
    BY <2>1 DEF ProcessesOf
  <2> QED BY <1>3, <2>1, <2>2 DEF AgreeInv
<1>7. OpenInv'
  BY <1>2, <1>3 DEF IInv, OpenInv
<1> QED BY <1>4, <1>5, <1>6, <1>7 DEF IInv

(* The handle that is closed is that of the entry that will be erased: no   *)
(* other entry has it.                                                      *)
LEMMA CloseInv ==
  ASSUME IInv, CloseOld
  PROVE  IInv'
<1> USE DEF CloseOld, Worker, others
<1>1. worker' \in [pc : WorkerPlaces, index : Nat] /\ worker'.pc = "erase"
        /\ worker'.index = worker.index /\ worker.pc = "close"
  BY DEF IInv, RangeInv, WorkerPlaces
<1>2. RangeInv' /\ LockInv'
  BY <1>1 DEF IInv, RangeInv, LockInv, Editing
<1>3. OnceInv' /\ AgreeInv'
  BY <1>1 DEF IInv, OnceInv, Once, Given, AgreeInv
<1>4. OpenInv'
  <2> SUFFICES ASSUME NEW i \in DOMAIN list, i # worker.index
               PROVE  list[i].process \in open'
    BY <1>1 DEF OpenInv
  <2>1. list[i].process \in open /\ handles[i] = list[i].process
    BY <1>1 DEF IInv, OpenInv, AgreeInv
  <2>2. i \in DOMAIN handles /\ worker.index \in DOMAIN handles
    BY <1>1 DEF IInv, RangeInv, AgreeInv
  <2>3. handles[i] # handles[worker.index]
    BY <2>2 DEF IInv, OnceInv, Once
  <2> QED BY <2>1, <2>3
<1> QED BY <1>2, <1>3, <1>4 DEF IInv

(* The entry goes, and the lists would agree if the handle went too.        *)
LEMMA EraseInv ==
  ASSUME IInv, Erase
  PROVE  IInv'
<1> USE DEF Erase, Worker, others
<1> DEFINE k == worker.index
<1>1. worker' \in [pc : WorkerPlaces, index : Nat] /\ worker'.pc = "drop"
        /\ worker'.index = k /\ worker.pc = "erase"
  BY DEF IInv, RangeInv, WorkerPlaces
<1>2. /\ list \in Seq(Entries) /\ handles \in Seq(Nat)
      /\ Len(handles) = Len(list) /\ k \in DOMAIN handles
      /\ \A i \in DOMAIN list : i # k => handles[i] = list[i].process
  BY <1>1 DEF IInv, RangeInv, AgreeInv
<1>3. Len(list) \in Nat /\ k \in 1 .. Len(list) /\ DOMAIN list = 1 .. Len(list)
  BY <1>2
<1>4. /\ list' \in Seq(Entries) /\ Len(list') = Len(list) - 1
      /\ DOMAIN list' = 1 .. Len(list) - 1
      /\ \A j \in 1 .. Len(list) - 1 :
           list'[j] = IF j < k THEN list[j] ELSE list[j + 1]
  BY <1>2, <1>3, Removed
<1>5. /\ RemoveAt(handles, k) \in Seq(Nat)
      /\ DOMAIN RemoveAt(handles, k) = 1 .. Len(list) - 1
      /\ \A j \in 1 .. Len(list) - 1 :
           RemoveAt(handles, k)[j] = IF j < k THEN handles[j] ELSE handles[j + 1]
  <2>1. handles \in Seq(Nat) /\ k \in 1 .. Len(handles) /\ Len(handles) = Len(list)
    BY <1>2, <1>3
  <2> HIDE DEF k
  <2>2. /\ RemoveAt(handles, k) \in Seq(Nat)
        /\ DOMAIN RemoveAt(handles, k) = 1 .. Len(handles) - 1
        /\ \A j \in 1 .. Len(handles) - 1 :
             RemoveAt(handles, k)[j] = IF j < k THEN handles[j] ELSE handles[j + 1]
    BY <2>1, Removed
  <2> QED BY <2>1, <2>2
<1>6. RangeInv'
  BY <1>1, <1>4 DEF IInv, RangeInv
<1>7. LockInv'
  BY <1>1, OwnerAssumption DEF IInv, LockInv, Editing, Left, Free
<1>8. OnceInv'
  BY <1>1 DEF IInv, OnceInv, Once, Given
<1>9. AgreeInv'
  <2>1. ASSUME NEW j \in 1 .. Len(list) - 1
        PROVE  RemoveAt(handles, k)[j] = list'[j].process
    <3>1. CASE j < k
      <4>1. j \in DOMAIN list /\ j # k
        BY <1>3, <3>1
      <4> QED BY <1>2, <1>4, <1>5, <3>1, <4>1
    <3>2. CASE ~(j < k)
      <4>1. j + 1 \in DOMAIN list /\ j + 1 # k
        BY <1>3, <3>2
      <4> QED BY <1>2, <1>4, <1>5, <3>2, <4>1
    <3> QED BY <3>1, <3>2
  <2>2. RemoveAt(handles, k) = [j \in 1 .. Len(list) - 1 |-> list'[j].process]
    BY <1>5, <2>1
  <2> QED BY <1>1, <1>2, <1>4, <2>2 DEF AgreeInv, ProcessesOf
<1>10. OpenInv'
  <2>1. \A i \in 1 .. Len(list) : i # k => list[i].process \in open
    BY <1>3 DEF IInv, OpenInv
  <2>2. \A j \in 1 .. Len(list) - 1 : list'[j].process \in open
    BY <1>3, <1>4, <2>1
  <2> QED BY <1>4, <2>2 DEF OpenInv
<1> QED BY <1>6, <1>7, <1>8, <1>9, <1>10 DEF IInv

(* Now they do.                                                             *)
LEMMA DropInv ==
  ASSUME IInv, DropHandle
  PROVE  IInv'
<1> USE DEF DropHandle, Worker, others
<1> DEFINE k == worker.index
<1>1. worker' \in [pc : WorkerPlaces, index : Nat] /\ worker'.pc = "test"
        /\ worker.pc = "drop"
  BY DEF IInv, RangeInv, WorkerPlaces
<1>2. handles \in Seq(Nat) /\ k \in 1 .. Len(handles) /\ Len(handles) \in Nat
  BY <1>1 DEF IInv, RangeInv, AgreeInv
<1>3. /\ handles' \in Seq(Nat) /\ DOMAIN handles' = 1 .. Len(handles) - 1
      /\ \A j \in 1 .. Len(handles) - 1 :
           handles'[j] = IF j < k THEN handles[j] ELSE handles[j + 1]
  BY <1>2, Removed
<1>4. RangeInv' /\ LockInv'
  BY <1>1, <1>3 DEF IInv, RangeInv, LockInv, Editing
<1>5. OnceInv'
  <2>1. /\ \A i \in 1 .. Len(handles) : handles[i] \in Given
        /\ \A i, j \in 1 .. Len(handles) : handles[i] = handles[j] => i = j
    BY <1>2 DEF IInv, OnceInv, Once
  <2> HIDE DEF DropHandle, Worker, others, k
  <2> DEFINE was(n) == IF n < k THEN n ELSE n + 1
  <2>2. \A n \in 1 .. Len(handles) - 1 :
          was(n) \in 1 .. Len(handles) /\ handles'[n] = handles[was(n)]
    <3> SUFFICES ASSUME NEW n \in 1 .. Len(handles) - 1
                 PROVE  was(n) \in 1 .. Len(handles) /\ handles'[n] = handles[was(n)]
      OBVIOUS
    <3>1. handles'[n] = IF n < k THEN handles[n] ELSE handles[n + 1]
      BY <1>3
    <3>2. was(n) \in 1 .. Len(handles)
      <4> HIDE DEF k
      <4> QED BY <1>2
    <3> QED BY <3>1, <3>2
  <2>3. \A m, n \in 1 .. Len(handles) - 1 : was(m) = was(n) => m = n
    BY <1>2
  <2> HIDE DEF was
  <2>4. \A i \in DOMAIN handles' : handles'[i] \in Given
    BY <1>3, <2>1, <2>2
  <2>5. \A i, j \in DOMAIN handles' : handles'[i] = handles'[j] => i = j
    <3> SUFFICES ASSUME NEW i \in 1 .. Len(handles) - 1, NEW j \in 1 .. Len(handles) - 1,
                        handles'[i] = handles'[j]
                 PROVE  i = j
      BY <1>3
    <3>1. handles[was(i)] = handles[was(j)]
      BY <2>2
    <3>2. was(i) = was(j)
      BY <2>1, <2>2, <3>1
    <3> QED BY <2>3, <3>2
  <2> QED BY <1>1, <2>4, <2>5 DEF OnceInv, Once, Given, DropHandle
<1>6. AgreeInv' /\ OpenInv'
  BY <1>1 DEF IInv, AgreeInv, OpenInv, ProcessesOf
<1> QED BY <1>4, <1>5, <1>6 DEF IInv

(* The invariant holds in every state.                                      *)
THEOREM Invariant == FairSpec => []IInv
<1>1. IInv /\ [Next]_vars => IInv'
  BY SetupInv, InitializeInv, OthersInv, WatchInv, RestartInv, NoRestartInv,
     CloseInv, EraseInv, DropInv
  DEF Next, WorkerStep
<1> QED BY InitInv, <1>1, PTL DEF FairSpec

(* The list of children and that of handles agree whenever the worker       *)
(* waits, and whoever takes the lock finds open handles only, for any       *)
(* configuration, with any number of restarts (WatchDogClient.cpp:140-150). *)
THEOREM TheListsAgree == FairSpec => []ListsAgree
<1>1. IInv => ListsAgree
  BY OwnerAssumption
  DEF IInv, AgreeInv, OpenInv, LockInv, Editing, Free, ListsAgree, ProcessesOf
<1> QED BY Invariant, <1>1, PTL

-----------------------------------------------------------------------------
(* EventSelect.                                                             *)

InSendTo == app \in {"numbered", "incremented"}

(* What the proofs need of the ranges.                                      *)
ClientRange ==
  /\ thread \in [Protocols -> {"none", "waiting", "busy", "accepting", "ended"}]
  /\ next \in Int
  /\ number \in [Packets -> Nat]
  /\ reliable \in Seq(Packets \X Nat)
  /\ InSendTo => current \in Packets
  /\ app \in {"connect", "stop", "tcp", "udp"} => reliable = << >>

(* The packets that were numbered and counted.                              *)
Sent == IF app = "incremented" THEN Len(reliable) + 1 ELSE Len(reliable)

(* Until it wraps, or something comes from the server, the counter is the   *)
(* number of packets sent, and the packet on its way carries the next one.  *)
CounterInv ==
  ~accepted =>
    /\ thread["udp"] # "accepting"
    /\ Sent < HALF => next = Sent
    /\ InSendTo /\ Len(reliable) < HALF => number[current] = Len(reliable)

ClientInv ==
  ClientRange /\ CounterInv /\ ConsecutiveNumbers

(* Numbers below HALF are what they are in either type.                     *)
LEMMA SmallNumbers ==
  ASSUME NEW n \in 0 .. HALF - 1
  PROVE  Short(n) = n /\ Unsigned(n) = n
BY NumberAssumption DEF Short, Unsigned

(* The conversions give numbers whatever they are given.                    *)
LEMMA NumberTypes ==
  ASSUME NEW n \in Int
  PROVE  Short(n) \in Int /\ Unsigned(n) \in Nat
BY NumberAssumption DEF Short, Unsigned

LEMMA ClientInitInv == ClientInit => ClientInv
BY NumberAssumption
DEF ClientInit, ClientInv, ClientRange, CounterInv, ConsecutiveNumbers, InSendTo, Sent, Protocols

(* The steps of the threads that do not touch the counter, and those of the *)
(* application outside of SendTo: what the invariant speaks of is what it   *)
(* was, and no thread begins to accept.                                     *)
LEMMA QuietInv ==
  ASSUME ClientInv, UNCHANGED numbering,
         thread' \in [Protocols -> {"none", "waiting", "busy", "accepting", "ended"}],
         thread'["udp"] = "accepting" => thread["udp"] = "accepting",
         app' = app \/ (~InSendTo /\ ~InSendTo'
                          /\ (app' \in {"connect", "stop", "tcp", "udp"} =>
                                app \in {"connect", "stop", "tcp", "udp"}))
  PROVE  ClientInv'
<1>0. InSendTo' <=> InSendTo
  BY DEF InSendTo
<1>1. Sent' = Sent
  BY <1>0 DEF Sent, numbering, InSendTo
<1>2. ClientRange'
  BY <1>0 DEF ClientInv, ClientRange, numbering
<1>3. CounterInv'
  BY <1>0, <1>1 DEF ClientInv, CounterInv, numbering
<1>4. ConsecutiveNumbers'
  BY DEF ClientInv, ConsecutiveNumbers, numbering
<1> QED BY <1>2, <1>3, <1>4 DEF ClientInv

LEMMA LifecycleInv ==
  ASSUME ClientInv,
         \/ Connect \/ CreateStopEvent \/ (\E p \in Protocols : CreateEvent(p))
         \/ ClearRunState \/ Destroy
         \/ (\E p \in Protocols : Signalled(p) \/ Stopped(p) \/ NoNumber(p))
  PROVE  ClientInv'
<1>1. CASE Connect \/ CreateStopEvent \/ ClearRunState \/ Destroy
  BY <1>1, QuietInv
  DEF Connect, CreateStopEvent, ClearRunState, Destroy, SetStop, Join, CloseEvents,
      Fails, numbering, InSendTo, ClientInv, ClientRange
<1>2. CASE \E p \in Protocols : CreateEvent(p)
  BY <1>2, QuietInv
  DEF CreateEvent, Fails, numbering, InSendTo, ClientInv, ClientRange, Protocols
<1>3. CASE \E p \in Protocols : Signalled(p) \/ Stopped(p) \/ NoNumber(p)
  BY <1>3, QuietInv
  DEF Signalled, Stopped, NoNumber, Turned, numbering, ClientInv, ClientRange, Protocols
<1> QED BY <1>1, <1>2, <1>3

(* The number written is the counter, which is the number of packets sent.  *)
LEMMA NumberInv ==
  ASSUME ClientInv, NEW p \in Packets, Number(p)
  PROVE  ClientInv'
<1> USE DEF Number, lifecycle
<1>1. ClientRange'
  BY NumberTypes DEF ClientInv, ClientRange, InSendTo
<1>2. CounterInv'
  <2> SUFFICES ASSUME ~accepted'
               PROVE  CounterInv'
    BY DEF CounterInv
  <2>1. Len(reliable) \in Nat
    BY DEF ClientInv, ClientRange
  <2>2. Sent' = Sent /\ Sent = Len(reliable)
    BY DEF Sent
  <2>3. ASSUME Len(reliable) < HALF PROVE number'[p] = Len(reliable)
    <3>1. next = Len(reliable) /\ next \in 0 .. HALF - 1
      BY <2>1, <2>2, <2>3, NumberAssumption DEF ClientInv, CounterInv
    <3>2. Unsigned(next) = next
      BY <3>1, SmallNumbers
    <3> QED BY <3>1, <3>2 DEF ClientInv, ClientRange
  <2> QED BY <2>2, <2>3 DEF ClientInv, CounterInv
<1>3. ConsecutiveNumbers'
  BY DEF ClientInv, ConsecutiveNumbers
<1> QED BY <1>1, <1>2, <1>3 DEF ClientInv

(* The counter keeps up with the packets until it is HALF.                  *)
LEMMA IncrementInv ==
  ASSUME ClientInv, Increment
  PROVE  ClientInv'
<1> USE DEF Increment, lifecycle
<1>1. ClientRange'
  <2>1. next + 1 \in Int
    BY DEF ClientInv, ClientRange
  <2> QED BY <2>1, NumberTypes DEF ClientInv, ClientRange, InSendTo
<1>2. CounterInv'
  <2> SUFFICES ASSUME ~accepted'
               PROVE  CounterInv'
    BY DEF CounterInv
  <2>1. Len(reliable) \in Nat
    BY DEF ClientInv, ClientRange
  <2>2. Sent' = Len(reliable) + 1 /\ Sent = Len(reliable)
    BY DEF Sent
  <2>3. ASSUME Sent' < HALF PROVE next' = Sent'
    <3>1. next = Len(reliable) /\ next + 1 \in 0 .. HALF - 1
      BY <2>1, <2>2, <2>3, NumberAssumption DEF ClientInv, CounterInv
    <3> QED BY <2>2, <3>1, SmallNumbers
  <2> QED BY <2>3 DEF ClientInv, CounterInv, InSendTo
<1>3. ConsecutiveNumbers'
  BY DEF ClientInv, ConsecutiveNumbers
<1> QED BY <1>1, <1>2, <1>3 DEF ClientInv

(* The packet goes out with the number it carries.                          *)
LEMMA WriteInv ==
  ASSUME ClientInv, WriteToReliable
  PROVE  ClientInv'
<1> USE DEF WriteToReliable, lifecycle
<1> DEFINE e == <<current, number[current]>>
<1>0. e \in Packets \X Nat /\ reliable \in Seq(Packets \X Nat)
  BY DEF ClientInv, ClientRange, InSendTo
<1>1. /\ reliable' \in Seq(Packets \X Nat)
      /\ Len(reliable') = Len(reliable) + 1
      /\ DOMAIN reliable' = 1 .. Len(reliable) + 1
      /\ \A i \in DOMAIN reliable : reliable'[i] = reliable[i]
      /\ reliable'[Len(reliable) + 1] = e
      /\ DOMAIN reliable = 1 .. Len(reliable) /\ Len(reliable) \in Nat
  BY <1>0, Appended
<1> HIDE DEF e
<1>2. ClientRange'
  BY <1>1 DEF ClientInv, ClientRange, InSendTo
<1>3. CounterInv'
  BY <1>1 DEF ClientInv, CounterInv, Sent, InSendTo
<1>4. ConsecutiveNumbers'
  <2> SUFFICES ASSUME ~accepted, NEW i \in DOMAIN reliable', i <= HALF
               PROVE  reliable'[i][2] = i - 1
    BY DEF ConsecutiveNumbers
  <2>1. CASE i \in DOMAIN reliable
    BY <1>1, <2>1 DEF ClientInv, ConsecutiveNumbers
  <2>2. CASE i = Len(reliable) + 1
    <3>1. number[current] = Len(reliable)
      BY <1>1, <2>2, NumberAssumption DEF ClientInv, CounterInv, InSendTo
    <3> QED BY <1>1, <2>2, <3>1 DEF e
  <2> QED BY <1>1, <2>1, <2>2
<1> QED BY <1>2, <1>3, <1>4 DEF ClientInv

(* A packet sent without a number of its own moves nothing.                 *)
LEMMA SendInv ==
  ASSUME ClientInv, NEW p \in Packets, Send(p) \/ SendToUnReliable(p)
  PROVE  ClientInv'
<1> USE DEF Send, SendToUnReliable, lifecycle
<1>1. ClientRange' /\ CounterInv'
  BY DEF ClientInv, ClientRange, CounterInv, Sent, InSendTo
<1>2. ConsecutiveNumbers'
  BY DEF ClientInv, ConsecutiveNumbers
<1> QED BY <1>1, <1>2 DEF ClientInv

(* No acknowledgement is ahead of the counter before it wraps.              *)
LEMMA TakeAckInv ==
  ASSUME ClientInv, TakeAck
  PROVE  ClientInv'
<1> USE DEF TakeAck
<1>0. thread' \in [Protocols -> {"none", "waiting", "busy", "accepting", "ended"}]
        /\ thread'["udp"] # "accepting"
  BY DEF ClientInv, ClientRange, Turned, Protocols
<1>1. PICK i \in DOMAIN reliable : next' = AckMoves(Short(reliable[i][2] + 1))
  OBVIOUS
<1>2. reliable \in Seq(Packets \X Nat) /\ reliable[i][2] \in Nat
        /\ i \in 1 .. Len(reliable) /\ Len(reliable) \in Nat
  BY DEF ClientInv, ClientRange
<1>3. next' \in Int
  <2>1. reliable[i][2] + 1 \in Int
    BY <1>2
  <2>2. Short(reliable[i][2] + 1) \in Int
    BY <2>1, NumberTypes
  <2> QED BY <1>1, <2>2 DEF AckMoves, ClientInv, ClientRange
<1>4. ClientRange'
  BY <1>0, <1>3 DEF ClientInv, ClientRange, InSendTo
<1>5. CounterInv'
  <2> SUFFICES ASSUME ~accepted
               PROVE  CounterInv'
    BY DEF CounterInv
  <2>1. Sent' = Sent /\ Sent \in Nat /\ Len(reliable) <= Sent
    BY <1>2 DEF Sent
  <2>2. ASSUME Sent < HALF PROVE next' = next
    <3>1. next = Sent /\ i <= HALF
      BY <1>2, <2>1, <2>2, NumberAssumption DEF ClientInv, CounterInv
    <3>2. reliable[i][2] + 1 = i
      BY <1>2, <3>1 DEF ClientInv, ConsecutiveNumbers
    <3>3. Short(i) = i
      BY <1>2, <2>1, <2>2, SmallNumbers, NumberAssumption
    <3>4. next' = AckMoves(i)
      BY <1>1, <3>2, <3>3
    <3> QED BY <1>2, <2>1, <3>1, <3>4 DEF AckMoves
  <2> QED BY <1>0, <2>1, <2>2 DEF ClientInv, CounterInv, InSendTo
<1>6. ConsecutiveNumbers'
  BY DEF ClientInv, ConsecutiveNumbers
<1> QED BY <1>4, <1>5, <1>6 DEF ClientInv

(* From now on the counter is shared with the server's packets.             *)
LEMMA AcceptInv ==
  ASSUME ClientInv, Matched \/ Accept
  PROVE  ClientInv'
<1>1. accepted'
  BY DEF Matched, Accept, ClientInv, CounterInv
<1>2. next' \in Int
  <2>1. next + 1 \in Int
    BY DEF ClientInv, ClientRange
  <2>2. Short(next + 1) \in Int
    BY <2>1, NumberTypes
  <2> QED BY <2>2 DEF Matched, Accept, ClientInv, ClientRange
<1>3. ClientRange'
  BY <1>2 DEF Matched, Accept, Turned, ClientInv, ClientRange, InSendTo, Protocols
<1>4. CounterInv' /\ ConsecutiveNumbers'
  BY <1>1 DEF CounterInv, ConsecutiveNumbers
<1> QED BY <1>3, <1>4 DEF ClientInv

(* The invariant holds in every state.                                      *)
THEOREM ClientInvariant == ClientSpec => []ClientInv
<1>1. ClientInv /\ [ClientNext]_clientVars => ClientInv'
  <2> SUFFICES ASSUME ClientInv, [ClientNext]_clientVars PROVE ClientInv'
    OBVIOUS
  <2>1. CASE AppStep
    BY <2>1, LifecycleInv, NumberInv, SendInv, IncrementInv, WriteInv DEF AppStep
  <2>2. CASE TcpStep \/ UdpStep \/ \E p \in Protocols : Signalled(p)
    <3>1. "tcp" \in Protocols /\ "udp" \in Protocols
      BY DEF Protocols
    <3> QED BY <2>2, <3>1, LifecycleInv, TakeAckInv, AcceptInv DEF TcpStep, UdpStep
  <2>3. CASE UNCHANGED clientVars
    BY <2>3, QuietInv DEF clientVars, numbering, ClientInv, ClientRange
  <2> QED BY <2>1, <2>2, <2>3 DEF ClientNext
<1> QED BY ClientInitInv, <1>1, PTL DEF ClientSpec

(* The reliable packets are numbered 0, 1, 2, ... for any number of packets *)
(* and any width of the numbers, in spite of late and repeated              *)
(* acknowledgements (EventSelect.hpp:35-36, UDPSocket.cpp:208).             *)
THEOREM SendsAreConsecutive == ClientSpec => []ConsecutiveNumbers
<1>1. ClientInv => ConsecutiveNumbers
  BY DEF ClientInv
<1> QED BY ClientInvariant, <1>1, PTL
=============================================================================
