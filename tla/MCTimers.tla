------------------------------- MODULE MCTimers -------------------------------
(* The two timer services side by side. They share nothing, so a behaviour   *)
(* is one of either of them.                                                *)
EXTENDS Timer, TimingWheel

VARIABLE service

MCInit == TimerInit /\ WheelInit /\ service \in {"timers", "wheel"}

MCNext ==
  /\ UNCHANGED service
  /\ \/ service = "timers" /\ Running /\ TimerNext /\ UNCHANGED wheelVars
     \/ service = "wheel" /\ WheelNext /\ UNCHANGED timerVars

MCSpec == MCInit /\ [][MCNext]_<<timerVars, wheelVars, service>> /\ Fairness
=============================================================================
