------------------------------ MODULE WatchDog ------------------------------
(***************************************************************************)
(* WatchDogClient: the program that starts the servers of its              *)
(* configuration, restarts those that end and tells the watchdog's server. *)
(* The main thread runs the network model and looks at every child; one    *)
(* thread waits for the children's ends; DumpTransmit uploads what they    *)
(* left. A process has a number that is also its handle.                   *)
(*                                                                         *)
(* The network model is EventSelect's: here it starts or does not.         *)
(***************************************************************************)
EXTENDS DumpTransmit, CriticalSection, SequencesExt

CONSTANTS
  Programs,       \* the sets of programs a configuration may name
  Restarted,      \* those with EnableRestart
  Numbers,        \* the process numbers the system gives, in order
  MaxWait         \* MAXIMUM_WAIT_OBJECTS: 64

ASSUME NumbersAssumption ==
  /\ Numbers \in Seq(Nat)
  /\ \A i, j \in 1 .. Len(Numbers) : Numbers[i] = Numbers[j] => i = j

ASSUME MaxWaitAssumption == MaxWait \in Nat

ASSUME OwnerAssumption == NoThread \notin {"main", "worker"}

VARIABLES
  config,      \* the programs of the configuration not yet started
  main,        \* where the main thread is
  worker,      \* ChildProcessEventSelectWorkerThread: pc and iIndex
  run,         \* m_bWatchDogClientRunState
  lock,        \* m_csForClientList
  list,        \* m_clientList: program and process
  handles,     \* processHandles
  open,        \* the process handles that are open
  ended,       \* the processes that have ended
  created,     \* how many processes were started
  quit         \* history: the user pressed q

watchVars == <<config, main, worker, run, lock, list, handles, open, ended, created, quit>>

vars == <<dumpVars, watchVars>>

Init ==
  /\ DumpInit
  /\ config \in Programs
  /\ main = "setup"
  /\ worker = [pc |-> "none", index |-> 0]
  /\ run = TRUE /\ lock = Free
  /\ list = << >> /\ handles = << >>
  /\ open = {} /\ ended = {} /\ created = 0 /\ quit = FALSE

-----------------------------------------------------------------------------
(* The processes. They end when they like, and may leave a dump.            *)

NewProcess == Numbers[created + 1]

CanCreate == created < Len(Numbers)

Running(p) == (\E i \in 1 .. created : Numbers[i] = p) /\ p \notin ended

ProcessEnds(p) ==
  /\ Running(p)
  /\ ended' = ended \cup {p}
  /\ files' \in {files, files \cup {p}}
  /\ UNCHANGED <<requests, sender, sending, config, main, worker,
                 run, lock, list, handles, open, created, quit>>

-----------------------------------------------------------------------------
(* SetupConfig and CreateNewChildProcess, in the constructor.               *)

Created(prog) ==
  /\ created' = created + 1
  /\ open' = open \cup {NewProcess}

SetupConfig ==
  /\ main = "setup" /\ CanCreate
  /\ \E prog \in config :
       /\ config' = config \ {prog}
       /\ Created(prog)
       /\ list' = Append(list, [program |-> prog, process |-> NewProcess])
  /\ UNCHANGED <<dumpVars, main, worker, run, lock, handles, ended, quit>>

\* A process that cannot be started ends the program, with the others running.
\* So may the end of SetupConfig, a bool function without a return.
Exit ==
  /\ main = "setup"
  /\ main' = "exited"
  /\ UNCHANGED <<dumpVars, config, worker, run, lock, list, handles, open, ended,
                 created, quit>>

\* It returns true whatever was started; without both connections no thread
\* watches the children. The worker copies the handles of the list.
Initialize ==
  /\ main = "setup" /\ config = {}
  /\ main' = "run"
  /\ \/ /\ StartSender
        /\ worker' = [worker EXCEPT !.pc = "test"]
        /\ handles' = [i \in DOMAIN list |-> list[i].process]
     \/ UNCHANGED <<sender, worker, handles>>
  /\ UNCHANGED <<files, requests, sending, config, run, lock,
                 list, open, ended, created, quit>>

-----------------------------------------------------------------------------
(* The main thread: Run until the state is cleared, then Destroy.           *)

Main(pc) ==
  /\ main' = pc
  /\ UNCHANGED <<config, worker, list, handles, open, ended, created>>

\* Ping, and the processor use of each child: with the lock, over the list.
LookAtChildren ==
  /\ main = "run"
  /\ CanEnter(lock, "main")
  /\ lock' = Entered(lock, "main")
  /\ Main("looking")
  /\ UNCHANGED <<dumpVars, run, quit>>

LookedAtChildren ==
  /\ main = "looking"
  /\ lock' = Left(lock)
  /\ Main("keys")
  /\ UNCHANGED <<dumpVars, run, quit>>

\* _kbhit, and the condition of main's loop.
Keys ==
  /\ main = "keys"
  /\ \/ /\ run' = FALSE /\ quit' = TRUE
        /\ Main("keys")
     \/ /\ Main(IF run THEN "run" ELSE "join")
        /\ UNCHANGED <<run, quit>>
  /\ UNCHANGED <<dumpVars, lock>>

JoinWorker ==
  /\ main = "join"
  /\ worker.pc \in {"none", "ended"}
  /\ Main("stopSending")
  /\ UNCHANGED <<dumpVars, run, lock, quit>>

DestroyDump ==
  \/ main = "stopSending" /\ StopSending /\ Main("notify") /\ UNCHANGED <<run, lock, quit>>
  \/ main = "notify" /\ NotifySender /\ Main("joinSender") /\ UNCHANGED <<run, lock, quit>>
  \/ /\ main = "joinSender" /\ SenderJoined
     /\ Main("destroyed")
     /\ UNCHANGED <<dumpVars, run, lock, quit>>

MainStep ==
  \/ LookAtChildren \/ LookedAtChildren \/ Keys \/ JoinWorker \/ DestroyDump

-----------------------------------------------------------------------------
(* ChildProcessEventSelectWorkerThread.                                     *)

Child == list[worker.index]

Worker(pc) == worker' = [worker EXCEPT !.pc = pc]

others == <<config, main, quit>>

WorkerTest ==
  /\ worker.pc = "test"
  /\ Worker(IF run THEN "wait" ELSE "ended")
  /\ UNCHANGED <<dumpVars, others, run, lock, list, handles, open, ended, created>>

\* Defect: the last handle of the array is not waited for.
ChildEndedNotLast ==
  /\ worker.pc = "wait"
  /\ Len(handles) \in 1 .. MaxWait
  /\ \E i \in 1 .. Len(handles) - 1 :
       /\ handles[i] \in ended
       /\ \A j \in 1 .. i - 1 : handles[j] \notin ended
       /\ worker' = [pc |-> "lock", index |-> i]
  /\ UNCHANGED <<dumpVars, others, run, lock, list, handles, open, ended, created>>

\* The first handle in the array whose process has ended.
ChildEnded ==
  /\ worker.pc = "wait"
  /\ Len(handles) \in 1 .. MaxWait
  /\ \E i \in DOMAIN handles :
       /\ handles[i] \in ended
       /\ \A j \in 1 .. i - 1 : handles[j] \notin ended
       /\ worker' = [pc |-> "lock", index |-> i]
  /\ UNCHANGED <<dumpVars, others, run, lock, list, handles, open, ended, created>>

\* No handle, or more than the system waits for: the watchdog ends.
GiveUp ==
  /\ worker.pc = "wait"
  /\ Len(handles) \notin 1 .. MaxWait
  /\ run' = FALSE
  /\ Worker("test")
  /\ UNCHANGED <<dumpVars, others, lock, list, handles, open, ended, created>>

LockList ==
  /\ worker.pc = "lock"
  /\ CanEnter(lock, "worker")
  /\ lock' = Entered(lock, "worker")
  /\ Worker("dump")
  /\ UNCHANGED <<dumpVars, others, run, list, handles, open, ended, created>>

\* The end is reported to the server with whether there was a dump.
ReportEnd ==
  /\ worker.pc = "dump"
  /\ \/ \E f \in files : Matches(Child.process, f) /\ Request(f)
     \/ (\A f \in files : ~Matches(Child.process, f)) /\ UNCHANGED dumpVars
  /\ Worker("restart")
  /\ UNCHANGED <<others, run, lock, list, handles, open, ended, created>>

\* Defect: the handle takes the place of the one that is to be removed.
RestartInPlace ==
  /\ worker.pc = "restart" /\ Child.program \in Restarted /\ CanCreate
  /\ Created(Child.program)
  /\ list' = Append(list, [Child EXCEPT !.process = NewProcess])
  /\ handles' = InsertAt(handles, worker.index, NewProcess)
  /\ Worker("close")
  /\ UNCHANGED <<dumpVars, others, run, lock, ended>>

\* CreateNewChildProcess(m_clientList[iIndex]): the entry is given the new
\* process, then moved to the end of the list; what is left of it is a copy.
Restart ==
  /\ worker.pc = "restart" /\ Child.program \in Restarted /\ CanCreate
  /\ Created(Child.program)
  /\ LET new == [Child EXCEPT !.process = NewProcess]
     IN  list' = Append([list EXCEPT ![worker.index] = new], new)
  /\ handles' = Append(handles, NewProcess)
  /\ Worker("close")
  /\ UNCHANGED <<dumpVars, others, run, lock, ended>>

\* The program is not to be restarted, or could not be, or its process was
\* created and then found wanting: that one runs and nobody watches it.
NoRestart ==
  /\ worker.pc = "restart"
  /\ \/ UNCHANGED <<created, open>>
     \/ Child.program \in Restarted /\ CanCreate /\ Created(Child.program)
  /\ Worker("close")
  /\ UNCHANGED <<dumpVars, others, run, lock, list, handles, ended>>

CloseOld ==
  /\ worker.pc = "close"
  /\ open' = open \ {handles[worker.index]}
  /\ Worker("erase")
  /\ UNCHANGED <<dumpVars, others, run, lock, list, handles, ended, created>>

Erase ==
  /\ worker.pc = "erase"
  /\ list' = RemoveAt(list, worker.index)
  /\ lock' = Left(lock)
  /\ Worker("drop")
  /\ UNCHANGED <<dumpVars, others, run, handles, open, ended, created>>

DropHandle ==
  /\ worker.pc = "drop"
  /\ handles' = RemoveAt(handles, worker.index)
  /\ Worker("test")
  /\ UNCHANGED <<dumpVars, others, run, lock, list, open, ended, created>>

WorkerStep ==
  \/ WorkerTest \/ ChildEnded \/ GiveUp \/ LockList \/ ReportEnd \/ Restart
  \/ NoRestart \/ CloseOld \/ Erase \/ DropHandle

-----------------------------------------------------------------------------
Sends == (SenderStep \/ WokenForNoReason) /\ UNCHANGED watchVars

Next ==
  \/ SetupConfig \/ Exit \/ Initialize
  \/ MainStep \/ WorkerStep \/ Sends
  \/ \E i \in DOMAIN Numbers : ProcessEnds(Numbers[i])

(* The threads run, the main thread lets go of its lock, and the worker in  *)
(* the end gets a lock that is free again and again. The children need not  *)
(* end, nor the user press a key.                                           *)
FairSpec ==
  /\ Init /\ [][Next]_vars
  /\ SF_vars(WorkerStep)
  /\ WF_vars(LookedAtChildren)
  /\ WF_vars(SenderStep /\ UNCHANGED watchVars)

-----------------------------------------------------------------------------
(* The two lists the worker edits by the same index, one of them while the  *)
(* other thread walks it, say the same of the same children whenever the    *)
(* worker waits, and whoever takes the lock finds only open handles of      *)
(* children: a restart appends to both and removes from both                *)
(* (WatchDogClient.cpp:104, 109, 140-150).                                  *)
ListsAgree ==
  /\ worker.pc = "wait" => handles = [i \in DOMAIN list |-> list[i].process]
  /\ lock = Free => \A i \in DOMAIN list : list[i].process \in open

(* A child that has ended leaves the list, restarted or not, although the   *)
(* system reports the first in the array and others may end again and       *)
(* again: those go to the end of it (WatchDogClient.cpp:125-150).           *)
EndIsHandled ==
  \A k \in DOMAIN Numbers :
    (\E i \in DOMAIN list : list[i].process = Numbers[k]) /\ Numbers[k] \in ended
       /\ worker.pc # "none" /\ main # "exited"
      ~> \/ \A i \in DOMAIN list : list[i].process # Numbers[k]
         \/ ~run

(* A dump that was queued is taken from the queue while the thread runs:    *)
(* the wait with a predicate and the mutex miss no notification of a        *)
(* request, as they may that of Destroy (DumpTransmit.cpp:30-32, 59-65).    *)
RequestsAreTaken == requests # << >> ~> requests = << >> \/ ~sending
=============================================================================
