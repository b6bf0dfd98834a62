----------------------------- MODULE TimingWheel -----------------------------
(***************************************************************************)
(* Functions/TimingWheel: timers in the slots of a wheel that a thread     *)
(* turns by one slot every m_SlotInterval. The thread walks the slot at    *)
(* m_CurrentIndex and calls the timers of the current rotation back; any   *)
(* thread adds timers. Index and rotation are read without a lock and the  *)
(* slot is walked without one; a push and an erasure take the mutex.       *)
(*                                                                         *)
(* Time is counted in slots walked (walks). A delay is m_TimeInterval      *)
(* divided by m_SlotInterval.                                              *)
(***************************************************************************)
EXTENDS SequencesExt

CONSTANTS
  Delegates,      (* The timers, each added once by a thread of its own.    *)
  MaxWheelSize,   (* 7.                                                     *)
  MAX_DELAY,      (* The longest delay.                                     *)
  MAX_WALKS       (* Bound: slots walked.                                   *)

ASSUME WheelAssumption ==
  /\ MaxWheelSize \in Nat \ {0} /\ MAX_DELAY \in Nat /\ MAX_WALKS \in Nat

VARIABLES
  index, rotation,  (* m_CurrentIndex, m_CurrentRotationCount.              *)
  wheel,            (* m_TimingWheel: a sequence of timers per slot.        *)
  turner,           (* m_TimerThread: pc and its place in the slot (at).    *)
  adder,            (* AddNewTimer: pc, delay, NewIndex and rotation count. *)
  isStop,           (* m_bIsStop.                                           *)
  walks,            (* History: slots walked.                               *)
  due,              (* History: the walk each timer was asked for.          *)
  fired,            (* History: the walk each was called back in, if any.   *)
  overtaken         (* History: timers during whose AddNewTimer it turned.  *)

wheelVars ==
  <<index, rotation, wheel, turner, adder, isStop, walks, due, fired, overtaken>>

Slots == 0 .. MaxWheelSize - 1

WheelInit ==
  /\ index = 0 /\ rotation = 0
  /\ wheel = [s \in Slots |-> << >>]
  /\ turner = [pc |-> "sleep", at |-> 1]
  /\ adder = [d \in Delegates |-> [pc |-> "new", delay |-> 0, slot |-> 0, count |-> 0]]
  /\ isStop = FALSE /\ walks = 0
  /\ due = [d \in Delegates |-> 0] /\ fired = [d \in Delegates |-> {}]
  /\ overtaken = {}

-----------------------------------------------------------------------------
(* AddNewTimer.                                                             *)

Walking == turner.pc \in {"walk", "turn"}

New == {d \in Delegates : adder[d].pc = "new"}

(* The slot at the index is walked now, or in the next walk. Timers are     *)
(* alike: which one is added next does not matter.                          *)
ReadIndex(d) ==
  /\ ~isStop /\ d \in New /\ d = CHOOSE e \in New : TRUE
  /\ \E n \in 0 .. MAX_DELAY :
       /\ adder' = [adder EXCEPT ![d] =
            [pc |-> "rotation", delay |-> n, slot |-> index + n, count |-> 0]]
       /\ due' = [due EXCEPT ![d] = IF Walking THEN walks + n ELSE walks + 1 + n]
       /\ overtaken' = IF turner.pc = "wrap" \/ (n = 0 /\ Walking)
                         THEN overtaken \cup {d} ELSE overtaken
  /\ UNCHANGED <<index, rotation, wheel, turner, isStop, walks, fired>>

(* A slot beyond the end of the wheel is one of the next turn, however far  *)
(* beyond.                                                                  *)
RotationOf(slot) == IF slot >= MaxWheelSize THEN rotation + 1 ELSE rotation

ReadRotation(d) ==
  /\ adder[d].pc = "rotation"
  /\ adder' = [adder EXCEPT ![d].pc = "push", ![d].count = RotationOf(adder[d].slot)]
  /\ UNCHANGED <<index, rotation, wheel, turner, isStop, walks, due,
                 fired, overtaken>>

PushBack(d) ==
  /\ adder[d].pc = "push"
  /\ wheel' = [wheel EXCEPT ![adder[d].slot % MaxWheelSize] = Append(@, d)]
  /\ adder' = [adder EXCEPT ![d].pc = "added"]
  /\ UNCHANGED <<index, rotation, turner, isStop, walks, due,
                 fired, overtaken>>

-----------------------------------------------------------------------------
(* The thread of the wheel.                                                 *)

Adding == {d \in Delegates : adder[d].pc \in {"rotation", "push"}}

(* The place after one in a list of n; at its end, the walk is over, also   *)
(* for what is pushed from now on.                                          *)
From(i, n) == IF i <= n THEN [pc |-> "walk", at |-> i] ELSE [pc |-> "turn", at |-> 1]

Here == wheel[index]

(* The interval has passed: the walk begins.                                *)
Elapse ==
  /\ turner.pc = "sleep" /\ ~isStop /\ walks < MAX_WALKS
  /\ turner' = From(1, Len(Here))
  /\ walks' = walks + 1
  /\ overtaken' = overtaken \cup {d \in Adding : adder[d].delay = 0}
  /\ UNCHANGED <<index, rotation, wheel, adder, isStop, due, fired>>

CallBack(d, place) ==
  /\ fired' = [fired EXCEPT ![d] = @ \cup {walks}]
  /\ wheel' = [wheel EXCEPT ![index] = RemoveAt(@, turner.at)]
  /\ turner' = From(place, Len(Here) - 1)

PassOver ==
  /\ turner' = From(turner.at + 1, Len(Here))
  /\ UNCHANGED <<wheel, fired>>

(* Defect: the iterator is advanced also when it was erased.                *)
VisitSkips ==
  /\ turner.pc = "walk"
  /\ LET d == Here[turner.at]
     IN  IF adder[d].count = rotation THEN CallBack(d, turner.at + 1) ELSE PassOver
  /\ UNCHANGED <<index, rotation, adder, isStop, walks, due, overtaken>>

Visit ==
  /\ turner.pc = "walk"
  /\ LET d == Here[turner.at]
     IN  IF adder[d].count = rotation THEN CallBack(d, turner.at) ELSE PassOver
  /\ UNCHANGED <<index, rotation, adder, isStop, walks, due, overtaken>>

(* The index moves on, then, at the end of the wheel, the rotation count.   *)
Turn ==
  /\ turner.pc = "turn"
  /\ index' = (index + 1) % MaxWheelSize
  /\ turner' = [turner EXCEPT !.pc = IF index + 1 >= MaxWheelSize THEN "wrap" ELSE "sleep"]
  /\ overtaken' = overtaken \cup Adding
  /\ UNCHANGED <<rotation, wheel, adder, isStop, walks, due, fired>>

Wrap ==
  /\ turner.pc = "wrap"
  /\ rotation' = rotation + 1
  /\ turner' = [turner EXCEPT !.pc = "sleep"]
  /\ overtaken' = overtaken \cup Adding
  /\ UNCHANGED <<index, wheel, adder, isStop, walks, due, fired>>

(* The destructor, while no timer is being added; the thread ends when it   *)
(* has slept.                                                               *)
StopWheel ==
  /\ ~isStop /\ isStop' = TRUE
  /\ Adding = {}
  /\ UNCHANGED <<index, rotation, wheel, turner, adder, walks, due, fired, overtaken>>

WheelNext ==
  \/ \E d \in Delegates : ReadIndex(d) \/ ReadRotation(d) \/ PushBack(d)
  \/ Elapse \/ Visit \/ Turn \/ Wrap \/ StopWheel

WheelSpec == WheelInit /\ [][WheelNext]_wheelVars

-----------------------------------------------------------------------------
(* Properties.                                                              *)

(* A delay that ends in this turn of the wheel or the next.                 *)
Near(d) == adder[d].slot < 2 * MaxWheelSize

(* Is the walk that was asked for over?                                     *)
Past(d) == walks > due[d] \/ (walks = due[d] /\ ~Walking)

(* A timer is called back once, in the walk it was asked for, however often *)
(* the wheel has turned and whatever else is in its slot; a delay that ends *)
(* after the next turn comes whole turns too soon. It holds for the timers  *)
(* the wheel did not move under while they were added: those may never be   *)
(* called (TimingWheel.hpp:69-89, 101-108).                                 *)
OnTime ==
  \A d \in Delegates :
    /\ \A v, w \in fired[d] : v = w
    /\ adder[d].pc = "added" /\ d \notin overtaken =>
         /\ \A w \in fired[d] :
              w = due[d] \/ (~Near(d) /\ \E k \in 1 .. due[d] : w + k * MaxWheelSize = due[d])
         /\ Past(d) => fired[d] # {}
=============================================================================
