-------------------------------- MODULE Timer --------------------------------
(***************************************************************************)
(* Functions/Timer and Functions/UUID: timers that a thread running an     *)
(* io_context calls back, kept in a list under handles that are 16 bit     *)
(* hashes of UUIDs. BindTimer and ClearTimer are called by any thread.     *)
(*                                                                         *)
(* Of boost's steady_timer: a wait that is pending ends when the time has  *)
(* come ("due") or when the timer is cancelled or destroyed ("aborted");   *)
(* either way its handler is queued and later run by the timer thread with *)
(* the pointer that was bound. Nothing is said of the program after the    *)
(* thread has used a timer that was freed ("crashed").                     *)
(***************************************************************************)
EXTENDS CriticalSection, FiniteSets

CONSTANTS
  Timers,        (* The FTimerInformation objects.                          *)
  NoTimer,
  Loops,         (* Those made with bIsLoop.                                *)
  MAX_FAILURES   (* How often UuidCreate may fail.                          *)

(* 0 is also what Generate returns when it cannot make an identifier.       *)
CONSTANT Handles

ASSUME TimerAssumption ==
  /\ NoTimer \notin Timers /\ Loops \subseteq Timers
  /\ 0 \in Handles /\ MAX_FAILURES \in Nat

VARIABLES
  timerList,  (* m_timerList: the timer under each handle.                  *)
  listLock,   (* m_csForTimerList.                                          *)
  uuidLock,   (* UUIDGenerator::m_lock.                                     *)
  wait,       (* The wait of each timer and its handler.                    *)
  freed,      (* The timers that were deleted.                              *)
  caller,     (* Callers: pc and the handle.                                *)
  thread,     (* m_timerThread: pc and the timer.                           *)
  runState,   (* m_bThreadRunState.                                         *)
  stopped,    (* m_ioContext was stopped.                                   *)
  dtor,       (* Where the destructor is.                                   *)
  history     (* Timers deleted while their handler was queued or running   *)
              (* (overtaken); the callers that returned with the list's     *)
              (* lock (keepers); failures of UuidCreate.                    *)

locks == <<listLock, uuidLock>>
io == <<wait, freed, thread>>
life == <<runState, stopped, dtor>>
timerVars == <<timerList, locks, io, caller, life, history>>

TimerInit ==
  /\ timerList = [h \in Handles |-> NoTimer]
  /\ listLock = Free /\ uuidLock = Free
  /\ wait = [t \in Timers |-> "none"] /\ freed = {}
  /\ caller = [u \in Threads |-> [pc |-> "idle", handle |-> 0]]
  /\ thread = [pc |-> "run", timer |-> NoTimer]
  /\ runState = TRUE /\ stopped = FALSE /\ dtor = "alive"
  /\ history = [overtaken |-> {}, keepers |-> {}, failures |-> 0]

CallerAt(u, l) == caller[u].pc = l
Goto(u, l) == caller' = [caller EXCEPT ![u].pc = l]

-----------------------------------------------------------------------------
(* BindTimer and UUIDGenerator::Generate.                                   *)

Unused == {t \in Timers : wait[t] = "none"}

(* The next timer, of either kind; the unused ones of a kind are alike.     *)
Fresh == {t \in Unused : t = CHOOSE s \in Unused : (s \in Loops) = (t \in Loops)}

Binding == {u \in Threads : caller[u].pc \in {"bind", "generate", "create", "emplace"}}

(* The model has a timer for every call that begins.                        *)
CallBind(u) ==
  /\ CallerAt(u, "idle") /\ dtor = "alive"
  /\ Cardinality(Binding) < Cardinality(Unused)
  /\ Goto(u, "bind")
  /\ UNCHANGED <<timerList, locks, io, life, history>>

EnterBind(u) ==
  /\ CallerAt(u, "bind")
  /\ CanEnter(listLock, u) /\ listLock' = Entered(listLock, u)
  /\ Goto(u, "generate")
  /\ UNCHANGED <<timerList, uuidLock, io, life, history>>

(* The guard, and Lock once more.                                           *)
EnterGenerate(u) ==
  /\ CallerAt(u, "generate")
  /\ CanEnter(uuidLock, u) /\ uuidLock' = Entered(Entered(uuidLock, u), u)
  /\ Goto(u, "create")
  /\ UNCHANGED <<timerList, listLock, io, life, history>>

(* Defect: the second lock is not left when an identifier was made either.  *)
GenerateKeepsLock(u) ==
  /\ CallerAt(u, "create")
  /\ uuidLock' = Left(uuidLock)
  /\ \E h \in Handles : caller' = [caller EXCEPT ![u] = [pc |-> "emplace", handle |-> h]]
  /\ UNCHANGED <<timerList, listLock, io, life, history>>

(* The hash of a new UUID may be any number. When there is no UUID, only    *)
(* the guard leaves.                                                        *)
Generate(u) ==
  /\ CallerAt(u, "create")
  /\ \/ /\ uuidLock' = Left(Left(uuidLock))
        /\ \E h \in Handles :
             caller' = [caller EXCEPT ![u] = [pc |-> "emplace", handle |-> h]]
        /\ UNCHANGED history
     \/ /\ history.failures < MAX_FAILURES
        /\ uuidLock' = Left(uuidLock)
        /\ caller' = [caller EXCEPT ![u] = [pc |-> "emplace", handle |-> 0]]
        /\ history' = [history EXCEPT !.failures = @ + 1]
  /\ UNCHANGED <<timerList, listLock, io, life>>

(* A handle that is taken: the new timer is leaked, and the list's lock is  *)
(* not left.                                                                *)
Emplace(u) ==
  /\ CallerAt(u, "emplace")
  /\ \E t \in Fresh :
       LET h == caller[u].handle
       IN  IF timerList[h] = NoTimer
             THEN /\ timerList' = [timerList EXCEPT ![h] = t]
                  /\ wait' = [wait EXCEPT ![t] = "pending"]
                  /\ listLock' = Left(listLock)
                  /\ UNCHANGED history
             ELSE /\ wait' = [wait EXCEPT ![t] = "never"]
                  /\ history' = [history EXCEPT !.keepers = @ \cup {u}]
                  /\ UNCHANGED <<timerList, listLock>>
  /\ Goto(u, "idle")
  /\ UNCHANGED <<uuidLock, freed, thread, life>>

-----------------------------------------------------------------------------
(* ClearTimer, also of a handle that was cleared before.                    *)

CallClear(u, h) ==
  /\ CallerAt(u, "idle") /\ dtor = "alive"
  /\ caller' = [caller EXCEPT ![u] = [pc |-> "find", handle |-> h]]
  /\ UNCHANGED <<timerList, locks, io, life, history>>

EnterClear(u) ==
  /\ CallerAt(u, "find")
  /\ CanEnter(listLock, u) /\ listLock' = Entered(listLock, u)
  /\ Goto(u, "clear")
  /\ UNCHANGED <<timerList, uuidLock, io, life, history>>

Aborted(t) == [wait EXCEPT ![t] = IF @ = "pending" THEN "aborted" ELSE @]

NotFound(u) ==
  /\ CallerAt(u, "clear") /\ timerList[caller[u].handle] = NoTimer
  /\ listLock' = Left(listLock)
  /\ Goto(u, "idle")
  /\ UNCHANGED <<timerList, uuidLock, io, life, history>>

Cancel(u) ==
  /\ CallerAt(u, "clear") /\ timerList[caller[u].handle] # NoTimer
  /\ wait' = Aborted(timerList[caller[u].handle])
  /\ Goto(u, "delete")
  /\ UNCHANGED <<timerList, locks, freed, thread, life, history>>

(* The timer's destructor cancels once more: the thread may have begun a    *)
(* new wait in between.                                                     *)
Delete(u) ==
  /\ CallerAt(u, "delete")
  /\ LET t == timerList[caller[u].handle]
     IN  /\ freed' = freed \cup {t}
         /\ wait' = Aborted(t)
         /\ history' = IF wait[t] = "due" \/ thread.timer = t
                         THEN [history EXCEPT !.overtaken = @ \cup {t}]
                         ELSE history
  /\ timerList' = [timerList EXCEPT ![caller[u].handle] = NoTimer]
  /\ listLock' = Left(listLock)
  /\ Goto(u, "idle")
  /\ UNCHANGED <<uuidLock, thread, life>>

EnterList(u) == EnterBind(u) \/ EnterClear(u)

UserStep(u) ==
  \/ EnterList(u) \/ EnterGenerate(u) \/ Generate(u) \/ Emplace(u)
  \/ NotFound(u) \/ Cancel(u) \/ Delete(u)

-----------------------------------------------------------------------------
(* The timer thread.                                                        *)

Expire(t) ==
  /\ wait[t] = "pending"
  /\ wait' = [wait EXCEPT ![t] = "due"]
  /\ UNCHANGED <<timerList, locks, freed, thread, caller, life, history>>

(* Defect: the error code is not looked at.                                 *)
CallsBackAnyway(t) == runState

(* OnTimerExpiredCallback's condition.                                      *)
CallsBack(t) == runState /\ wait[t] = "due"

ThreadGoto(l, t) ==
  thread' = [pc |-> IF t \in freed THEN "crashed" ELSE l, timer |-> t]

(* run() takes a handler, unless the io_context was stopped.                *)
RunHandler(t) ==
  /\ thread.pc = "run" /\ ~stopped /\ wait[t] \in {"due", "aborted"}
  /\ wait' = [wait EXCEPT ![t] = "fired"]
  /\ IF CallsBack(t) THEN ThreadGoto("callback", t) ELSE UNCHANGED thread
  /\ UNCHANGED <<timerList, locks, freed, caller, life, history>>

(* Defect: a timer is called back once, loop or not.                        *)
CallbackEndsOnce ==
  /\ thread.pc = "callback"
  /\ ThreadGoto("run", thread.timer)
  /\ UNCHANGED <<timerList, locks, wait, freed, caller, life, history>>

(* The callback returns to its own function object, and m_bIsLoop is read.  *)
CallbackEnds ==
  /\ thread.pc = "callback"
  /\ IF thread.timer \in Loops \/ thread.timer \in freed
       THEN ThreadGoto("rebind", thread.timer)
       ELSE thread' = [pc |-> "run", timer |-> NoTimer]
  /\ UNCHANGED <<timerList, locks, wait, freed, caller, life, history>>

Rebind ==
  /\ thread.pc = "rebind"
  /\ IF thread.timer \in freed THEN ThreadGoto("crashed", thread.timer) /\ UNCHANGED wait
     ELSE /\ wait' = [wait EXCEPT ![thread.timer] = "pending"]
          /\ thread' = [pc |-> "run", timer |-> NoTimer]
  /\ UNCHANGED <<timerList, locks, freed, caller, life, history>>

RunEnds ==
  /\ thread.pc = "run" /\ stopped
  /\ thread' = [pc |-> "done", timer |-> NoTimer]
  /\ UNCHANGED <<timerList, locks, wait, freed, caller, life, history>>

-----------------------------------------------------------------------------
(* The destructor, called when no thread is in a call.                      *)

Stop ==
  /\ dtor = "alive" /\ \A u \in Threads : CallerAt(u, "idle")
  /\ runState' = FALSE /\ dtor' = "stop"
  /\ UNCHANGED <<timerList, locks, io, caller, stopped, history>>

StopContext ==
  /\ dtor = "stop" /\ dtor' = "join"
  /\ stopped' = TRUE
  /\ UNCHANGED <<timerList, locks, io, caller, runState, history>>

Join ==
  /\ dtor = "join" /\ thread.pc = "done" /\ dtor' = "done"
  /\ UNCHANGED <<timerList, locks, io, caller, runState, stopped, history>>

-----------------------------------------------------------------------------
TimerNext ==
  \/ \E u \in Threads :
       UserStep(u) \/ CallBind(u) \/ \E h \in Handles : CallClear(u, h)
  \/ \E t \in Timers : Expire(t) \/ RunHandler(t)
  \/ CallbackEnds \/ Rebind \/ RunEnds
  \/ Stop \/ StopContext \/ Join

Running == thread.pc # "crashed"

TimerSpec == TimerInit /\ [][Running /\ TimerNext]_timerVars

(* Callers go on with their calls and none is passed over for ever at the   *)
(* list's lock, timers expire, every handler that is queued is run,         *)
(* callbacks end.                                                           *)
Fairness ==
  /\ \A u \in Threads :
       WF_timerVars(Running /\ UserStep(u)) /\ SF_timerVars(Running /\ EnterList(u))
  /\ \A t \in Timers : WF_timerVars(Running /\ Expire(t)) /\ SF_timerVars(Running /\ RunHandler(t))
  /\ WF_timerVars(Running /\ (CallbackEnds \/ Rebind \/ RunEnds))
  /\ WF_timerVars(Running /\ (StopContext \/ Join))

FairSpec == TimerSpec /\ Fairness

-----------------------------------------------------------------------------
(* Properties.                                                              *)

(* A timer that was freed is used in one way only: its handler was already  *)
(* queued, or running, when ClearTimer deleted it. A wait that is cancelled *)
(* while pending, also one the thread has just begun, never leads to a call *)
(* of the freed timer (Timer.hpp:75-78, 104-111).                           *)
UsedAfterFreeOnlyIfOvertaken ==
  ~Running => thread.timer \in history.overtaken

(* Every call of BindTimer and ClearTimer returns, those that wait for a    *)
(* lock included, unless a lock was not left: the list's, by another caller *)
(* whose handle was taken (Timer.hpp:59-63; the caller itself may enter     *)
(* again), or Generate's, when there was no UUID (UUID.hpp:16-19): the next *)
(* caller that binds waits for it with the list's lock.                     *)
CallsReturn ==
  \A u \in Threads :
    ~CallerAt(u, "idle") ~>
      \/ CallerAt(u, "idle") \/ ~Running
      \/ history.keepers \ {u} # {} \/ history.failures > 0

(* A timer of the list that loops is called back again and again until it   *)
(* is cleared or the system is stopped (Timer.hpp:108-109).                 *)
LoopGoesOn ==
  \A t \in Loops :
    (\E h \in Handles : timerList[h] = t) ~>
      (thread = [pc |-> "callback", timer |-> t]
         \/ t \in freed \/ ~runState \/ ~Running)
=============================================================================
